---------------------- MODULE VerificationCodes_proofs ----------------------
(***************************************************************************)
(* Proofs about VerificationCodes for any number of requests, codes, tries *)
(* and generations.  A try whose code has changed since it was read is     *)
(* marked, so an unmarked one knows the row it writes; and a creation      *)
(* voids, in one statement, all that was there when it began.              *)
(***************************************************************************)
EXTENDS VerificationCodes, FiniteSetTheorems, TLAPS

PreCommit == {"find", "void", "voiding", "insert"}
TryOps == {"wrong", "right", "recover"}
Request == Creation \cup Try \cup Recovery \cup Generation

\* What a request relies on until it commits.
CreationRelies(q) ==
  q.op \in PreCommit =>
    /\ q.code \in 1 .. started /\ q.code \notin DOMAIN codes
    /\ q.seen \subseteq DOMAIN codes /\ q.locked \subseteq DOMAIN codes
    /\ q.before \subseteq DOMAIN codes
    /\ q.op \in {"find", "void"} => \A c \in q.before : codes[c].purpose = q.purpose
    /\ q.op = "voiding" => \A c \in q.before : codes[c].used \/ c \in q.seen
    /\ q.op = "insert" => \A c \in q.before : codes[c].used \/ c \in q.locked

SendRelies(q) == q.op = "send" => q.code \in DOMAIN codes

TryRelies(q) ==
  q.op \in TryOps =>
    /\ q.code \in DOMAIN codes
    /\ ~q.overtaken => ~codes[q.code].used
    /\ q.op # "recover" =>
         q.attempts < MaxAttempts /\ (~q.overtaken => q.attempts = codes[q.code].attempts)

GenerationRelies(q) ==
  q.op = "generate" =>
    q.before <= generated /\ \A k \in unused : k \in q.seen \/ k[1] > q.before

Relies(q) == CreationRelies(q) /\ SendRelies(q) /\ TryRelies(q) /\ GenerationRelies(q)
RequestsRely == \A r \in DOMAIN inflight : Relies(inflight[r])

\* No two creations under way have the same place.
PlacesApart ==
  \A r, s \in DOMAIN inflight :
    /\ r # s
    /\ inflight[r].op \in PreCommit
    /\ inflight[s].op \in PreCommit
    => inflight[r].code # inflight[s].code

\* What the doors opened and the wrong tries add up to, code by code.
Paid(c) ==
  IF c \in DOMAIN codes
  THEN /\ opened[c] <= overtaken[c] + (IF codes[c].used THEN 1 ELSE 0)
       /\ wrong[c] <= codes[c].attempts + MaxAttempts * overtaken[c]
  ELSE opened[c] = 0 /\ wrong[c] = 0

Generating == {r \in DOMAIN inflight : inflight[r].op = "generate"}

RecoveryInv ==
  /\ renewed <= generated
  /\ \A k \in unused : recovered[k] = 0 /\ k[1] > renewed /\ k[1] <= generated
  /\ \A k \in RecoveryCodes : recovered[k] <= 1 /\ (recovered[k] > 0 => k[1] <= generated)
  /\ IsFiniteSet(Generating)
  /\ generated + Cardinality(Generating) <= MaxGenerations

\* The inductive invariant.
CodesInv ==
  /\ TypeOK
  /\ DOMAIN codes \subseteq 1 .. started
  /\ RequestsRely
  /\ PlacesApart
  /\ \A c \in Numbers : Paid(c)
  /\ \A c \in superseded : c \in DOMAIN codes /\ codes[c].used
  /\ RecoveryInv

-----------------------------------------------------------------------------
(* What a request carries, by its operation. *)

LEMMA RequestFields ==
  ASSUME NEW q \in Request
  PROVE  /\ q.op \in PreCommit \cup {"send"} =>
              /\ q \in Creation /\ q.code \in Numbers /\ q.purpose \in Purposes
              /\ q.target \in Targets \cup Numbers /\ q.seen \subseteq Numbers
              /\ q.locked \subseteq Numbers /\ q.before \subseteq Numbers
         /\ q.op \in {"wrong", "right"} =>
              /\ q \in Try /\ q.code \in Numbers /\ q.attempts \in 0 .. MaxAttempts
              /\ q.overtaken \in BOOLEAN
         /\ q.op = "recover" =>
              /\ q \in Recovery /\ q.code \in Numbers /\ q.recovery \in RecoveryCodes
              /\ q.overtaken \in BOOLEAN
         /\ q.op = "generate" =>
              /\ q \in Generation /\ q.seen \subseteq RecoveryCodes
              /\ q.before \in 0 .. MaxGenerations
         /\ q.op \in PreCommit \cup TryOps \cup {"send", "generate"}
<1>1. CASE q \in Creation
  BY <1>1 DEF Creation, PreCommit, TryOps
<1>2. CASE q \in Try
  BY <1>2 DEF Try, PreCommit, TryOps
<1>3. CASE q \in Recovery
  BY <1>3 DEF Recovery, PreCommit, TryOps
<1>4. CASE q \in Generation
  BY <1>4 DEF Generation, PreCommit, TryOps
<1>5. QED
  BY <1>1, <1>2, <1>3, <1>4 DEF Request

\* A request is as it was, or marked as overtaken.
Follows(y, x) ==
  \/ y = x
  \/ x.op \in TryOps /\ y = [x EXCEPT !.overtaken = TRUE]

LEMMA FollowsFields ==
  ASSUME NEW x \in Request, NEW y, Follows(y, x)
  PROVE  /\ y \in Request /\ y.op = x.op
         /\ x.op \notin TryOps => y = x
         /\ x.op \in TryOps => y.code = x.code /\ y.overtaken \in BOOLEAN
                               /\ (~y.overtaken => ~x.overtaken)
         /\ x.op \in {"wrong", "right"} => y.attempts = x.attempts
<1>1. CASE y = x
  BY <1>1, RequestFields DEF TryOps
<1>2. CASE x.op \in TryOps /\ y = [x EXCEPT !.overtaken = TRUE]
  <2>1. x \in Try \cup Recovery
    BY <1>2, RequestFields DEF TryOps
  <2>2. CASE x \in Try
    BY <1>2, <2>2 DEF Try, TryOps, Request
  <2>3. CASE x \in Recovery
    BY <1>2, <2>3 DEF Recovery, TryOps, Request
  <2>4. QED
    BY <2>1, <2>2, <2>3
<1>3. QED
  BY <1>1, <1>2 DEF Follows

\* What a request relies on stands: rows stay, used stays used, and a try that is
\* not marked finds its row as it was.
LEMMA ReliesKept ==
  ASSUME NEW x \in Request, NEW y, Follows(y, x), Relies(x),
         started' = started,
         DOMAIN codes \subseteq DOMAIN codes',
         x.op \in PreCommit => x.code \notin DOMAIN codes',
         \A c \in DOMAIN codes : codes'[c].purpose = codes[c].purpose
                                 /\ (codes[c].used => codes'[c].used),
         x.op \in TryOps /\ ~y.overtaken =>
           /\ codes'[x.code].used = codes[x.code].used
           /\ codes'[x.code].attempts = codes[x.code].attempts,
         generated' \in {generated, generated + 1}, generated \in Nat,
         \A k \in unused' : k \in unused \/ k[1] = generated + 1
  PROVE  Relies(y)'
<1>1. /\ y \in Request /\ y.op = x.op
      /\ x.op \notin TryOps => y = x
      /\ x.op \in TryOps => y.code = x.code /\ y.overtaken \in BOOLEAN
                            /\ (~y.overtaken => ~x.overtaken)
      /\ x.op \in {"wrong", "right"} => y.attempts = x.attempts
  BY FollowsFields
<1>2. CreationRelies(y)'
  <2>1. SUFFICES ASSUME x.op \in PreCommit PROVE CreationRelies(x)'
    BY <1>1 DEF CreationRelies, PreCommit, TryOps
  <2>2. QED
    BY <2>1 DEF Relies, CreationRelies
<1>3. SendRelies(y)'
  BY <1>1 DEF Relies, SendRelies, TryOps
<1>4. TryRelies(y)'
  BY <1>1 DEF Relies, TryRelies, TryOps
<1>5. GenerationRelies(y)'
  <2>1. SUFFICES ASSUME x.op = "generate" PROVE GenerationRelies(x)'
    BY <1>1 DEF GenerationRelies, TryOps
  <2>2. x.before \in Nat
    BY <2>1, RequestFields
  <2>3. QED
    BY <2>1, <2>2 DEF Relies, GenerationRelies
<1>6. QED
  BY <1>2, <1>3, <1>4, <1>5 DEF Relies

-----------------------------------------------------------------------------
LEMMA InitInv == Init => CodesInv
<1> SUFFICES ASSUME Init PROVE CodesInv
  OBVIOUS
<1>1. DOMAIN codes = {} /\ DOMAIN inflight = {} /\ Generating = {}
  BY DEF Init, Generating
<1>2. TypeOK
  BY <1>1, CodesAssumption DEF Init, TypeOK
<1>3. \A c \in Numbers : Paid(c)
  BY <1>1 DEF Init, Paid
<1>4. RecoveryInv
  BY <1>1, FS_EmptySet, CodesAssumption DEF Init, RecoveryInv
<1>5. QED
  BY <1>1, <1>2, <1>3, <1>4 DEF CodesInv, RequestsRely, PlacesApart, Init

\* What the recovery codes promise stands while they and their generations do.
LEMMA RecoveryStands ==
  ASSUME RecoveryInv, generated \in Nat, UNCHANGED <<unused, generated, recovered, renewed>>,
         Generating' \subseteq Generating
  PROVE  RecoveryInv'
<1>1. PICK G : G = Generating'
  OBVIOUS
<1>2. IsFiniteSet(G) /\ Cardinality(G) <= Cardinality(Generating)
  BY <1>1, FS_Subset DEF RecoveryInv
<1>3. Cardinality(G) \in Nat /\ Cardinality(Generating) \in Nat
  BY <1>2, FS_CardinalityType DEF RecoveryInv
<1>4. generated + Cardinality(G) <= MaxGenerations
  BY <1>2, <1>3, CodesAssumption DEF RecoveryInv
<1>5. QED
  BY <1>1, <1>2, <1>4 DEF RecoveryInv

\* The requests after a commit of r that changed the codes of C, or added its own.
LEMMA Settled ==
  ASSUME CodesInv, NEW r \in DOMAIN inflight, NEW C,
         DOMAIN inflight' \subseteq DOMAIN inflight,
         \A s \in DOMAIN inflight' \ {r} :
           inflight'[s] = IF Tries(s) /\ inflight[s].code \in C
                          THEN [inflight[s] EXCEPT !.overtaken = TRUE] ELSE inflight[s],
         r \in DOMAIN inflight' =>
           /\ inflight'[r] \in Creation /\ inflight'[r].op = "send"
           /\ inflight'[r].code \in DOMAIN codes',
         started' = started,
         DOMAIN codes \subseteq DOMAIN codes',
         \A c \in DOMAIN codes' \ DOMAIN codes :
           inflight[r].op \in PreCommit /\ c = inflight[r].code,
         \A c \in DOMAIN codes : codes'[c].purpose = codes[c].purpose
                                 /\ (codes[c].used => codes'[c].used),
         \A c \in DOMAIN codes \ C : codes'[c].used = codes[c].used
                                     /\ codes'[c].attempts = codes[c].attempts,
         generated' \in {generated, generated + 1},
         \A k \in unused' : k \in unused \/ k[1] = generated + 1
  PROVE  /\ RequestsRely' /\ PlacesApart'
         /\ DOMAIN inflight' \subseteq Requests
         /\ \A s \in DOMAIN inflight' : inflight'[s] \in Request
         /\ \A s \in DOMAIN inflight' \ {r} : inflight'[s].op = inflight[s].op
         /\ Generating' \subseteq Generating \ {r}
<1>1. \A s \in DOMAIN inflight : inflight[s] \in Request /\ Relies(inflight[s]) /\ s \in Requests
  BY DEF CodesInv, TypeOK, RequestsRely, Request
<1>2. generated \in Nat
  BY CodesAssumption DEF CodesInv, TypeOK
<1>3. ASSUME NEW s \in DOMAIN inflight' \ {r}, NEW x, x = inflight[s], NEW y, y = inflight'[s]
      PROVE  /\ Follows(y, x) /\ Relies(y)' /\ y \in Request /\ y.op = x.op
             /\ x.op \in PreCommit => y = x
  <2>1. y = IF x.op \in TryOps /\ x.code \in C THEN [x EXCEPT !.overtaken = TRUE] ELSE x
    BY <1>3 DEF Tries, TryOps
  <2>2. Follows(y, x)
    BY <2>1 DEF Follows
  <2>3. x \in Request /\ Relies(x)
    BY <1>1, <1>3
  <2>4. y \in Request /\ y.op = x.op /\ (x.op \in PreCommit => y = x)
    BY <2>2, <2>3, FollowsFields DEF PreCommit, TryOps
  <2>5. x.op \in PreCommit => x.code \notin DOMAIN codes'
    BY <1>3, <2>3 DEF CodesInv, PlacesApart, Relies, CreationRelies
  <2>6. x.op \in TryOps /\ ~y.overtaken => x.code \in DOMAIN codes \ C
    <3>1. ASSUME x.op \in TryOps, x.code \in C PROVE y.overtaken
      <4>1. y = [x EXCEPT !.overtaken = TRUE]
        BY <2>1, <3>1
      <4>2. x \in Try \cup Recovery
        BY <2>3, <3>1, RequestFields DEF TryOps
      <4>3. QED
        BY <4>1, <4>2 DEF Try, Recovery
    <3>2. QED
      BY <2>3, <3>1 DEF Relies, TryRelies
  <2>7. Relies(y)'
    BY <1>2, <2>2, <2>3, <2>5, <2>6, ReliesKept
  <2>8. QED
    BY <2>2, <2>4, <2>7
<1>4. ASSUME r \in DOMAIN inflight', NEW y, y = inflight'[r]
      PROVE  Relies(y)' /\ y \in Request /\ y.op = "send"
  <2>1. y \in Creation /\ y.op = "send" /\ y.code \in DOMAIN codes'
    BY <1>4
  <2>2. QED
    BY <2>1 DEF Relies, CreationRelies, SendRelies, TryRelies, GenerationRelies,
                PreCommit, TryOps, Request
<1>5. RequestsRely'
  <2> SUFFICES ASSUME NEW s \in DOMAIN inflight', NEW y, y = inflight'[s]
               PROVE  Relies(y)'
    BY DEF RequestsRely
  <2>1. CASE s = r
    BY <1>4, <2>1
  <2>2. CASE s # r
    BY <1>3, <2>2
  <2>3. QED
    BY <2>1, <2>2
<1>6. \A s \in DOMAIN inflight' : inflight'[s] \in Request
  BY <1>3, <1>4
<1>7. \A s \in DOMAIN inflight' \ {r} :
        /\ inflight'[s].op = inflight[s].op
        /\ inflight[s].op \in PreCommit => inflight'[s] = inflight[s]
  BY <1>3
<1>8. r \in DOMAIN inflight' => inflight'[r].op \notin PreCommit
  BY <1>4 DEF PreCommit
<1>9. PlacesApart'
  BY <1>7, <1>8 DEF CodesInv, PlacesApart
<1>10. Generating' \subseteq Generating \ {r}
  BY <1>4, <1>7 DEF Generating
<1>11. QED
  BY <1>1, <1>5, <1>6, <1>7, <1>9, <1>10

\* A request enters, or one under way goes on, and the tables stay.
LEMMA RequestStep ==
  ASSUME CodesInv, NEW r \in Requests, NEW q \in Request,
         inflight' = [s \in DOMAIN inflight \cup {r} |-> IF s = r THEN q ELSE inflight[s]],
         UNCHANGED <<codes, unused, generated, history>>,
         started' \in {started, started + 1}, started' <= MaxCodes,
         Relies(q)',
         q.op \in PreCommit => \A s \in DOMAIN inflight \ {r} :
           inflight[s].op \in PreCommit => inflight[s].code # q.code,
         RecoveryInv'
  PROVE  CodesInv'
<1>1. UNCHANGED <<wrong, opened, overtaken, recovered, superseded, renewed>>
  BY DEF history
<1>2. started \in Nat /\ started' \in 0 .. MaxCodes /\ \A x \in 1 .. started : x \in 1 .. started'
  BY CodesAssumption DEF CodesInv, TypeOK
<1>3. /\ DOMAIN inflight' = DOMAIN inflight \cup {r} /\ inflight'[r] = q
      /\ \A s \in DOMAIN inflight \ {r} : inflight'[s] = inflight[s]
  OBVIOUS
<1>4. TypeOK'
  BY <1>1, <1>2, <1>3 DEF CodesInv, TypeOK, Request
<1>5. DOMAIN codes' \subseteq 1 .. started'
  BY <1>2 DEF CodesInv
<1>6. RequestsRely'
  <2>1. ASSUME NEW x, Relies(x) PROVE Relies(x)'
    <3>1. CreationRelies(x)'
      BY <1>2, <2>1 DEF Relies, CreationRelies
    <3>2. SendRelies(x)' /\ TryRelies(x)' /\ GenerationRelies(x)'
      BY <2>1 DEF Relies, SendRelies, TryRelies, GenerationRelies
    <3>3. QED
      BY <3>1, <3>2 DEF Relies
  <2> SUFFICES ASSUME NEW s \in DOMAIN inflight', NEW y, y = inflight'[s] PROVE Relies(y)'
    BY DEF RequestsRely
  <2>2. CASE s = r
    BY <1>3, <2>2
  <2>3. CASE s # r
    <3>1. Relies(y)
      BY <1>3, <2>3 DEF CodesInv, RequestsRely
    <3>2. QED
      BY <2>1, <3>1
  <2>4. QED
    BY <2>2, <2>3
<1>7. PlacesApart'
  BY <1>3 DEF CodesInv, PlacesApart
<1>8. \A c \in Numbers : Paid(c)'
  BY <1>1 DEF CodesInv, Paid
<1>9. \A c \in superseded' : c \in DOMAIN codes' /\ codes'[c].used
  BY <1>1 DEF CodesInv
<1>10. QED
  BY <1>4, <1>5, <1>6, <1>7, <1>8, <1>9 DEF CodesInv

\* ... and stay as they are, when what enters is not a regeneration.
LEMMA SameRecovery ==
  ASSUME CodesInv, NEW r, NEW q, q.op # "generate",
         inflight' = [s \in DOMAIN inflight \cup {r} |-> IF s = r THEN q ELSE inflight[s]],
         UNCHANGED <<unused, generated, history>>
  PROVE  RecoveryInv'
<1>1. Generating' \subseteq Generating
  BY DEF Generating
<1>2. generated \in Nat /\ RecoveryInv
  BY CodesAssumption DEF CodesInv, TypeOK
<1>3. QED
  BY <1>1, <1>2, RecoveryStands DEF history

LEMMA BeginCreateStep ==
  ASSUME CodesInv, NEW r \in Requests, NEW p \in Purposes, NEW t \in Targets, BeginCreate(r, p, t)
  PROVE  CodesInv'
<1>1. PICK n : n = started + 1
  OBVIOUS
<1>2. started \in Nat /\ n \in Numbers /\ started' = n /\ n <= MaxCodes /\ n \in Nat
  BY <1>1, CodesAssumption DEF BeginCreate, CodesInv, TypeOK, Numbers
<1>3. PICK q : q = [op |-> "find", code |-> n, purpose |-> p,
                    target |-> IF p = LoginMfa THEN n ELSE t,
                    seen |-> Unused(p), locked |-> {},
                    before |-> {c \in DOMAIN codes : codes[c].purpose = p}]
  OBVIOUS
<1>4. DOMAIN codes \subseteq Numbers /\ n \notin DOMAIN codes /\ n \in 1 .. n
  BY <1>1, <1>2 DEF CodesInv, TypeOK
<1>5. q \in Creation
  BY <1>2, <1>3, <1>4 DEF Creation, Unused
<1>6. /\ r \notin DOMAIN inflight
      /\ inflight' = [s \in DOMAIN inflight \cup {r} |-> IF s = r THEN q ELSE inflight[s]]
      /\ UNCHANGED <<codes, unused, generated, history>>
  BY <1>1, <1>3 DEF BeginCreate, Enter
<1>7. Relies(q)'
  <2>1. CreationRelies(q)'
    BY <1>2, <1>3, <1>4, <1>6 DEF CreationRelies, Unused
  <2>2. SendRelies(q)' /\ TryRelies(q)' /\ GenerationRelies(q)'
    BY <1>3 DEF SendRelies, TryRelies, GenerationRelies, TryOps
  <2>3. QED
    BY <2>1, <2>2 DEF Relies
<1>8. \A s \in DOMAIN inflight \ {r} : inflight[s].op \in PreCommit => inflight[s].code # q.code
  <2>1. \A s \in DOMAIN inflight : inflight[s].op \in PreCommit => inflight[s].code \in 1 .. started
    BY DEF CodesInv, RequestsRely, Relies, CreationRelies
  <2>2. n \notin 1 .. started /\ q.code = n
    BY <1>1, <1>2, <1>3
  <2>3. QED
    BY <2>1, <2>2
<1>9. RecoveryInv'
  <2>1. q.op # "generate"
    BY <1>3
  <2>2. UNCHANGED <<unused, generated, history>>
    BY <1>6
  <2>3. QED
    BY <1>6, <2>1, <2>2, SameRecovery
<1>10. QED
  BY <1>1, <1>2, <1>5, <1>6, <1>7, <1>8, <1>9, RequestStep DEF Request

\* A creation goes on to its next statement.
LEMMA CreationGoesOn ==
  ASSUME CodesInv, NEW r \in DOMAIN inflight, NEW q \in Creation,
         inflight[r].op \in PreCommit, q.op \in PreCommit, q.code = inflight[r].code,
         CreationRelies(q),
         Goto(r, q), UNCHANGED <<codes, unused, started, generated, history>>
  PROVE  CodesInv'
<1>1. r \in Requests
  BY DEF CodesInv, TypeOK
<1>2. inflight' = [s \in DOMAIN inflight \cup {r} |-> IF s = r THEN q ELSE inflight[s]]
  BY DEF Goto
<1>3. started' \in {started, started + 1} /\ started' <= MaxCodes
  BY CodesAssumption DEF CodesInv, TypeOK
<1>4. Relies(q)'
  <2>1. CreationRelies(q)'
    BY DEF CreationRelies
  <2>2. SendRelies(q)' /\ TryRelies(q)' /\ GenerationRelies(q)'
    BY DEF SendRelies, TryRelies, GenerationRelies, PreCommit, TryOps
  <2>3. QED
    BY <2>1, <2>2 DEF Relies
<1>5. \A s \in DOMAIN inflight \ {r} : inflight[s].op \in PreCommit => inflight[s].code # q.code
  BY DEF CodesInv, PlacesApart
<1>6. RecoveryInv'
  BY <1>2, SameRecovery DEF PreCommit
<1>7. QED
  BY <1>1, <1>2, <1>3, <1>4, <1>5, <1>6, RequestStep DEF Request

LEMMA LockActiveStep ==
  ASSUME CodesInv, NEW r \in Requests, LockActive(r)
  PROVE  CodesInv'
<1>1. PICK p, L : p = inflight[r] /\ L = Latest(StillUnused(r))
  OBVIOUS
<1>2. r \in DOMAIN inflight /\ p.op = "find" /\ p \in Creation /\ CreationRelies(p)
  BY <1>1, RequestFields
     DEF LockActive, Serving, CodesInv, TypeOK, RequestsRely, Relies, Request, PreCommit
<1>3. PICK q : q = [p EXCEPT !.op = "void", !.seen = {}, !.locked = L]
  OBVIOUS
<1>4. L \subseteq p.seen
  BY <1>1 DEF Latest, StillUnused
<1>5. /\ q \in Creation /\ q.op = "void" /\ q.code = p.code /\ q.seen = {} /\ q.locked = L
      /\ q.before = p.before /\ q.purpose = p.purpose
  BY <1>2, <1>3, <1>4 DEF Creation
<1>6. CreationRelies(q)
  BY <1>2, <1>4, <1>5 DEF CreationRelies, PreCommit
<1>7. Goto(r, q) /\ UNCHANGED <<codes, unused, started, generated, history>>
  BY <1>1, <1>3 DEF LockActive
<1>8. QED
  BY <1>1, <1>2, <1>5, <1>6, <1>7, CreationGoesOn DEF PreCommit

\* The statement that voids sees all that was there when the request began.
LEMMA BeginVoidStep ==
  ASSUME CodesInv, NEW r \in Requests, BeginVoid(r)
  PROVE  CodesInv'
<1>1. PICK p, S : p = inflight[r] /\ S = Unused(inflight[r].purpose)
  OBVIOUS
<1>2. r \in DOMAIN inflight /\ p.op = "void" /\ p \in Creation /\ CreationRelies(p)
  BY <1>1, RequestFields
     DEF BeginVoid, Serving, CodesInv, TypeOK, RequestsRely, Relies, Request, PreCommit
<1>3. PICK q : q = [p EXCEPT !.op = "voiding", !.seen = S]
  OBVIOUS
<1>4. S \subseteq DOMAIN codes /\ DOMAIN codes \subseteq Numbers
  BY <1>1 DEF Unused, CodesInv, TypeOK
<1>5. /\ q \in Creation /\ q.op = "voiding" /\ q.code = p.code /\ q.seen = S
      /\ q.locked = p.locked /\ q.before = p.before
  BY <1>2, <1>3, <1>4 DEF Creation
<1>6. \A c \in p.before : codes[c].used \/ c \in S
  BY <1>1, <1>2 DEF CreationRelies, PreCommit, Unused
<1>7. CreationRelies(q)
  BY <1>2, <1>4, <1>5, <1>6 DEF CreationRelies, PreCommit
<1>8. Goto(r, q) /\ UNCHANGED <<codes, unused, started, generated, history>>
  BY <1>1, <1>3 DEF BeginVoid
<1>9. QED
  BY <1>1, <1>2, <1>5, <1>7, <1>8, CreationGoesOn DEF PreCommit

LEMMA VoidStep ==
  ASSUME CodesInv, NEW r \in Requests, Void(r)
  PROVE  CodesInv'
<1>1. PICK p, V : p = inflight[r] /\ V = Voided(r)
  OBVIOUS
<1>2. r \in DOMAIN inflight /\ p.op = "voiding" /\ p \in Creation /\ CreationRelies(p)
  BY <1>1, RequestFields
     DEF Void, Serving, CodesInv, TypeOK, RequestsRely, Relies, Request, PreCommit
<1>3. PICK q : q = [p EXCEPT !.op = "insert", !.seen = {}, !.locked = V]
  OBVIOUS
<1>4. V = {c \in p.seen : ~codes[c].used}
  BY <1>1 DEF Voided, StillUnused
<1>5. /\ q \in Creation /\ q.op = "insert" /\ q.code = p.code /\ q.seen = {}
      /\ q.locked = V /\ q.before = p.before
  BY <1>2, <1>3, <1>4 DEF Creation
<1>6. \A c \in p.before : codes[c].used \/ c \in V
  BY <1>2, <1>4 DEF CreationRelies, PreCommit
<1>7. CreationRelies(q)
  BY <1>2, <1>4, <1>5, <1>6 DEF CreationRelies, PreCommit
<1>8. Goto(r, q) /\ UNCHANGED <<codes, unused, started, generated, history>>
  BY <1>1, <1>3 DEF Void
<1>9. QED
  BY <1>1, <1>2, <1>5, <1>7, <1>8, CreationGoesOn DEF PreCommit

\* The commit: the new code is there, and all that were there at its begin are used.
LEMMA CommitCreateStep ==
  ASSUME CodesInv, NEW r \in Requests, CommitCreate(r)
  PROVE  CodesInv'
<1>1. PICK p, n, L : p = inflight[r] /\ n = p.code /\ L = p.locked
  OBVIOUS
<1>2. r \in DOMAIN inflight /\ p.op = "insert" /\ p \in Creation /\ CreationRelies(p)
  BY <1>1, RequestFields
     DEF CommitCreate, Serving, CodesInv, TypeOK, RequestsRely, Relies, Request, PreCommit
<1>3. /\ n \in Numbers /\ n \notin DOMAIN codes /\ n \in 1 .. started
      /\ p.before \subseteq DOMAIN codes /\ L \subseteq DOMAIN codes
      /\ \A c \in p.before : codes[c].used \/ c \in L
      /\ p.purpose \in Purposes /\ p.target \in Targets \cup Numbers
  BY <1>1, <1>2 DEF CreationRelies, PreCommit, Creation
<1>4. PICK row : row = NewRow(r)
  OBVIOUS
<1>5. row \in Row /\ row.attempts = 0 /\ row.used = FALSE
  <2>1. row = [purpose |-> p.purpose, target |-> p.target,
               attempts |-> 0, used |-> FALSE, age |-> "cooling"]
    BY <1>1, <1>4 DEF NewRow
  <2>2. 0 \in 0 .. MaxAttempts
    BY CodesAssumption
  <2>3. QED
    BY <1>3, <2>1, <2>2 DEF Row, Ages
<1>6. /\ DOMAIN codes' = DOMAIN codes \cup {n} /\ codes'[n] = row
      /\ \A c \in DOMAIN codes :
           codes'[c] = IF c \in L THEN [codes[c] EXCEPT !.used = TRUE] ELSE codes[c]
  BY <1>1, <1>3, <1>4 DEF CommitCreate, Stored
<1>7. \A c \in DOMAIN codes :
        /\ codes'[c] \in Row /\ codes'[c].purpose = codes[c].purpose
        /\ codes[c].used => codes'[c].used
        /\ c \in L => codes'[c].used = TRUE
        /\ c \notin L => codes'[c] = codes[c]
        /\ codes'[c].attempts = codes[c].attempts
        /\ codes[c].used \in BOOLEAN /\ codes[c].attempts \in Nat
  <2> SUFFICES ASSUME NEW c \in DOMAIN codes, NEW old, old = codes[c], NEW new, new = codes'[c]
               PROVE  /\ new \in Row /\ new.purpose = old.purpose
                      /\ old.used => new.used
                      /\ c \in L => new.used = TRUE
                      /\ c \notin L => new = old
                      /\ new.attempts = old.attempts
                      /\ old.used \in BOOLEAN /\ old.attempts \in Nat
    OBVIOUS
  <2>1. old \in Row /\ new = IF c \in L THEN [old EXCEPT !.used = TRUE] ELSE old
    BY <1>6 DEF CodesInv, TypeOK
  <2>2. \A x \in 0 .. MaxAttempts : x \in Nat
    BY CodesAssumption
  <2>3. QED
    BY <2>1, <2>2 DEF Row
<1>8. /\ UNCHANGED <<unused, started, generated, wrong, opened, overtaken, recovered, renewed>>
      /\ superseded' = superseded \cup p.before
  BY <1>1 DEF CommitCreate
<1>9. /\ DOMAIN inflight' \subseteq DOMAIN inflight
      /\ \A s \in DOMAIN inflight' \ {r} :
           inflight'[s] = IF Tries(s) /\ inflight[s].code \in L
                          THEN [inflight[s] EXCEPT !.overtaken = TRUE] ELSE inflight[s]
      /\ r \in DOMAIN inflight' =>
           inflight'[r] = [p EXCEPT !.op = "send", !.locked = {}, !.before = {}]
  <2>1. CASE p.purpose = LoginMfa
    BY <1>1, <2>1 DEF CommitCreate
  <2>2. CASE p.purpose # LoginMfa
    BY <1>1, <2>2 DEF CommitCreate, Leave
  <2>3. QED
    BY <2>1, <2>2
<1>10. r \in DOMAIN inflight' =>
         /\ inflight'[r] \in Creation /\ inflight'[r].op = "send"
         /\ inflight'[r].code \in DOMAIN codes'
  BY <1>1, <1>2, <1>6, <1>9 DEF Creation
<1>11. /\ RequestsRely' /\ PlacesApart'
       /\ DOMAIN inflight' \subseteq Requests
       /\ \A s \in DOMAIN inflight' : inflight'[s] \in Request
       /\ Generating' \subseteq Generating \ {r}
  <2>1. \A c \in DOMAIN codes' \ DOMAIN codes :
          inflight[r].op \in PreCommit /\ c = inflight[r].code
    BY <1>1, <1>2, <1>6 DEF PreCommit
  <2>2. \A c \in DOMAIN codes \ L :
          codes'[c].used = codes[c].used /\ codes'[c].attempts = codes[c].attempts
    BY <1>7
  <2>3. QED
    BY <1>2, <1>6, <1>7, <1>8, <1>9, <1>10, <2>1, <2>2, Settled
<1>12. TypeOK'
  BY <1>3, <1>5, <1>6, <1>7, <1>8, <1>11 DEF CodesInv, TypeOK, Request
<1>13. \A c \in Numbers : Paid(c)'
  <2> SUFFICES ASSUME NEW c \in Numbers PROVE Paid(c)'
    OBVIOUS
  <2>1. Paid(c) /\ overtaken[c] \in Nat /\ MaxAttempts \in Nat
    BY CodesAssumption DEF CodesInv, TypeOK
  <2>2. CASE c \in DOMAIN codes
    BY <1>6, <1>7, <1>8, <2>1, <2>2 DEF Paid, CodesInv, TypeOK
  <2>3. CASE c = n
    <3>1. opened[c] = 0 /\ wrong[c] = 0
      BY <1>3, <2>1, <2>3 DEF Paid
    <3>2. MaxAttempts * overtaken[c] \in Nat
      BY <2>1
    <3>3. QED
      BY <1>5, <1>6, <1>8, <2>1, <2>3, <3>1, <3>2 DEF Paid
  <2>4. CASE c \notin DOMAIN codes /\ c # n
    BY <1>6, <1>8, <2>1, <2>4 DEF Paid
  <2>5. QED
    BY <2>2, <2>3, <2>4
<1>14. \A c \in superseded' : c \in DOMAIN codes' /\ codes'[c].used
  BY <1>3, <1>6, <1>7, <1>8 DEF CodesInv
<1>15. RecoveryInv'
  <2>1. RecoveryInv /\ generated \in Nat
    BY CodesAssumption DEF CodesInv, TypeOK
  <2>2. QED
    BY <1>8, <1>11, <2>1, RecoveryStands
<1>16. QED
  BY <1>3, <1>6, <1>8, <1>11, <1>12, <1>13, <1>14, <1>15 DEF CodesInv

-----------------------------------------------------------------------------
\* A request that ends leaves the others, those of C marked.
LEMMA LeaveFacts ==
  ASSUME NEW r \in DOMAIN inflight, NEW C, Leave(r, C)
  PROVE  /\ DOMAIN inflight' \subseteq DOMAIN inflight /\ r \notin DOMAIN inflight'
         /\ \A s \in DOMAIN inflight' \ {r} :
              inflight'[s] = IF Tries(s) /\ inflight[s].code \in C
                             THEN [inflight[s] EXCEPT !.overtaken = TRUE] ELSE inflight[s]
BY DEF Leave

\* A request that ends without a change.
LEMMA EndStep ==
  ASSUME CodesInv, NEW r \in DOMAIN inflight, Leave(r, {}),
         UNCHANGED <<codes, unused, started, generated, history>>
  PROVE  CodesInv'
<1>1. UNCHANGED <<wrong, opened, overtaken, recovered, superseded, renewed>>
  BY DEF history
<1>2. /\ DOMAIN inflight' \subseteq DOMAIN inflight /\ r \notin DOMAIN inflight'
      /\ \A s \in DOMAIN inflight' \ {r} :
           inflight'[s] = IF Tries(s) /\ inflight[s].code \in {}
                          THEN [inflight[s] EXCEPT !.overtaken = TRUE] ELSE inflight[s]
  BY LeaveFacts
<1>3. /\ RequestsRely' /\ PlacesApart'
      /\ DOMAIN inflight' \subseteq Requests
      /\ \A s \in DOMAIN inflight' : inflight'[s] \in Request
      /\ Generating' \subseteq Generating \ {r}
  BY <1>2, Settled
<1>4. TypeOK'
  BY <1>1, <1>3 DEF CodesInv, TypeOK, Request
<1>5. RecoveryInv'
  <2>1. RecoveryInv /\ generated \in Nat
    BY CodesAssumption DEF CodesInv, TypeOK
  <2>2. QED
    BY <1>1, <1>3, <2>1, RecoveryStands
<1>6. (\A c \in Numbers : Paid(c)') /\ (\A c \in superseded' : c \in DOMAIN codes' /\ codes'[c].used)
  BY <1>1 DEF CodesInv, Paid
<1>7. QED
  BY <1>3, <1>4, <1>5, <1>6 DEF CodesInv

\* A request ends with a write to one code's row.
LEMMA OneRowWritten ==
  ASSUME CodesInv, NEW r \in DOMAIN inflight, NEW c \in DOMAIN codes, NEW new \in Row,
         new.purpose = codes[c].purpose, codes[c].used => new.used,
         codes' = [codes EXCEPT ![c] = new], Leave(r, {c}),
         started' = started, generated' = generated, unused' \subseteq unused,
         superseded' = superseded
  PROVE  /\ RequestsRely' /\ PlacesApart'
         /\ DOMAIN inflight' \subseteq Requests
         /\ \A s \in DOMAIN inflight' : inflight'[s] \in Request
         /\ Generating' \subseteq Generating \ {r}
         /\ DOMAIN codes' = DOMAIN codes /\ codes'[c] = new
         /\ \A d \in DOMAIN codes \ {c} : codes'[d] = codes[d]
         /\ \A d \in DOMAIN codes : codes'[d] \in Row
         /\ \A d \in superseded' : d \in DOMAIN codes' /\ codes'[d].used
<1>1. /\ DOMAIN inflight' \subseteq DOMAIN inflight /\ r \notin DOMAIN inflight'
      /\ \A s \in DOMAIN inflight' \ {r} :
           inflight'[s] = IF Tries(s) /\ inflight[s].code \in {c}
                          THEN [inflight[s] EXCEPT !.overtaken = TRUE] ELSE inflight[s]
  BY LeaveFacts
<1>2. /\ DOMAIN codes' = DOMAIN codes /\ codes'[c] = new
      /\ \A d \in DOMAIN codes \ {c} : codes'[d] = codes[d]
  OBVIOUS
<1>3. \A d \in DOMAIN codes : codes'[d].purpose = codes[d].purpose /\ (codes[d].used => codes'[d].used)
  BY <1>2
<1>4. /\ RequestsRely' /\ PlacesApart'
      /\ DOMAIN inflight' \subseteq Requests
      /\ \A s \in DOMAIN inflight' : inflight'[s] \in Request
      /\ Generating' \subseteq Generating \ {r}
  BY <1>1, <1>2, <1>3, Settled
<1>5. /\ \A d \in DOMAIN codes : codes'[d] \in Row
      /\ \A d \in superseded' : d \in DOMAIN codes' /\ codes'[d].used
  BY <1>2, <1>3 DEF CodesInv, TypeOK
<1>6. QED
  BY <1>2, <1>4, <1>5

\* A row with used_at set; the rest is as it was.
LEMMA UsedRow ==
  ASSUME NEW old \in Row, NEW new, new = [old EXCEPT !.used = TRUE]
  PROVE  /\ new \in Row /\ new.purpose = old.purpose /\ new.used = TRUE
         /\ new.attempts = old.attempts /\ old.attempts \in Nat /\ old.used \in BOOLEAN
<1>1. \A x \in 0 .. MaxAttempts : x \in Nat
  BY CodesAssumption
<1>2. QED
  BY <1>1 DEF Row

LEMMA WithdrawStep ==
  ASSUME CodesInv, NEW r \in Requests, Withdraw(r)
  PROVE  CodesInv'
<1>1. PICK p, c : p = inflight[r] /\ c = p.code
  OBVIOUS
<1>2. r \in DOMAIN inflight /\ c \in DOMAIN codes
  BY <1>1 DEF Withdraw, Serving, CodesInv, RequestsRely, Relies, SendRelies
<1>3. PICK new : new = [codes[c] EXCEPT !.used = TRUE]
  OBVIOUS
<1>4. codes[c] \in Row
  BY <1>2 DEF CodesInv, TypeOK
<1>5. /\ new \in Row /\ new.purpose = codes[c].purpose /\ new.used = TRUE
      /\ new.attempts = codes[c].attempts /\ codes[c].attempts \in Nat /\ codes[c].used \in BOOLEAN
  <2>1. PICK old : old = codes[c]
    OBVIOUS
  <2>2. old \in Row /\ new = [old EXCEPT !.used = TRUE]
    BY <1>3, <1>4, <2>1
  <2>3. QED
    BY <2>1, <2>2, UsedRow
<1>6. /\ codes' = [codes EXCEPT ![c] = new] /\ Leave(r, {c})
      /\ UNCHANGED <<unused, started, generated, wrong, opened, overtaken, recovered, superseded, renewed>>
  BY <1>1, <1>2, <1>3 DEF Withdraw, history
<1>7. /\ RequestsRely' /\ PlacesApart'
      /\ DOMAIN inflight' \subseteq Requests
      /\ \A s \in DOMAIN inflight' : inflight'[s] \in Request
      /\ Generating' \subseteq Generating \ {r}
      /\ DOMAIN codes' = DOMAIN codes /\ codes'[c] = new
      /\ \A d \in DOMAIN codes \ {c} : codes'[d] = codes[d]
      /\ \A d \in DOMAIN codes : codes'[d] \in Row
      /\ \A d \in superseded' : d \in DOMAIN codes' /\ codes'[d].used
  BY <1>2, <1>5, <1>6, OneRowWritten
<1>8. TypeOK'
  BY <1>6, <1>7 DEF CodesInv, TypeOK, Request
<1>9. RecoveryInv'
  <2>1. RecoveryInv /\ generated \in Nat
    BY CodesAssumption DEF CodesInv, TypeOK
  <2>2. QED
    BY <1>6, <1>7, <2>1, RecoveryStands
<1>10. \A d \in Numbers : Paid(d)'
  <2> SUFFICES ASSUME NEW d \in Numbers PROVE Paid(d)'
    OBVIOUS
  <2>1. Paid(d) /\ overtaken[d] \in Nat /\ opened[d] \in Nat
    BY DEF CodesInv, TypeOK
  <2>2. CASE d = c
    BY <1>2, <1>5, <1>6, <1>7, <2>1, <2>2 DEF Paid
  <2>3. CASE d # c
    BY <1>6, <1>7, <2>1, <2>3 DEF Paid
  <2>4. QED
    BY <2>2, <2>3
<1>11. QED
  BY <1>6, <1>7, <1>8, <1>9, <1>10 DEF CodesInv

LEMMA BeginTryStep ==
  ASSUME CodesInv, NEW r \in Requests, NEW p \in Purposes, NEW t \in Targets \cup Numbers,
         NEW op \in {"wrong", "right"}, BeginTry(r, p, t, op)
  PROVE  CodesInv'
<1>1. PICK c \in Found(p, t) :
        /\ ~Blocked(c)
        /\ Enter(r, [op |-> op, code |-> c, attempts |-> codes[c].attempts, overtaken |-> FALSE])
        /\ UNCHANGED <<codes, unused, started, generated, history>>
  BY DEF BeginTry
<1>2. c \in DOMAIN codes /\ ~codes[c].used
  BY DEF Found, Latest, Unused
<1>3. codes[c] \in Row /\ c \in Numbers
  BY <1>2 DEF CodesInv, TypeOK
<1>4. codes[c].attempts \in 0 .. MaxAttempts /\ codes[c].attempts < MaxAttempts
  BY <1>1, <1>3, CodesAssumption DEF Row, Blocked
<1>5. PICK q : q = [op |-> op, code |-> c, attempts |-> codes[c].attempts, overtaken |-> FALSE]
  OBVIOUS
<1>6. q \in Try /\ q.op = op
  BY <1>3, <1>4, <1>5 DEF Try
<1>7. Relies(q)'
  <2>1. TryRelies(q)'
    BY <1>1, <1>2, <1>4, <1>5 DEF TryRelies
  <2>2. CreationRelies(q)' /\ SendRelies(q)' /\ GenerationRelies(q)'
    BY <1>6 DEF CreationRelies, SendRelies, GenerationRelies, PreCommit
  <2>3. QED
    BY <2>1, <2>2 DEF Relies
<1>8. inflight' = [s \in DOMAIN inflight \cup {r} |-> IF s = r THEN q ELSE inflight[s]]
  BY <1>1, <1>5 DEF Enter
<1>9. RecoveryInv'
  BY <1>1, <1>6, <1>8, SameRecovery
<1>10. started' \in {started, started + 1} /\ started' <= MaxCodes
  BY <1>1, CodesAssumption DEF CodesInv, TypeOK
<1>11. QED
  BY <1>1, <1>6, <1>7, <1>8, <1>9, <1>10, RequestStep DEF Request, PreCommit

LEMMA BeginRecoveryStep ==
  ASSUME CodesInv, NEW r \in Requests, NEW c \in Numbers, NEW k \in RecoveryCodes,
         BeginRecovery(r, c, k)
  PROVE  CodesInv'
<1>1. PICK q : q = [op |-> "recover", code |-> c, recovery |-> k, overtaken |-> FALSE]
  OBVIOUS
<1>2. /\ inflight' = [s \in DOMAIN inflight \cup {r} |-> IF s = r THEN q ELSE inflight[s]]
      /\ UNCHANGED <<codes, unused, started, generated, history>>
  BY <1>1 DEF BeginRecovery, Enter
<1>3. c \in DOMAIN codes /\ ~codes[c].used
  BY DEF BeginRecovery, Unused
<1>4. q \in Recovery /\ q.op = "recover"
  BY <1>1 DEF Recovery
<1>5. Relies(q)'
  <2>1. TryRelies(q)'
    BY <1>1, <1>2, <1>3 DEF TryRelies
  <2>2. CreationRelies(q)' /\ SendRelies(q)' /\ GenerationRelies(q)'
    BY <1>4 DEF CreationRelies, SendRelies, GenerationRelies, PreCommit
  <2>3. QED
    BY <2>1, <2>2 DEF Relies
<1>6. RecoveryInv'
  BY <1>2, <1>4, SameRecovery
<1>7. started' \in {started, started + 1} /\ started' <= MaxCodes
  BY <1>2, CodesAssumption DEF CodesInv, TypeOK
<1>8. QED
  BY <1>2, <1>4, <1>5, <1>6, <1>7, RequestStep DEF Request, PreCommit

-----------------------------------------------------------------------------
\* What the commit of a try knows of the row it writes.
LEMMA TryKnows ==
  ASSUME CodesInv, NEW r \in DOMAIN inflight, inflight[r].op \in TryOps
  PROVE  /\ inflight[r].code \in DOMAIN codes /\ inflight[r].code \in Numbers
         /\ codes[inflight[r].code] \in Row
         /\ inflight[r].overtaken \in BOOLEAN
         /\ ~inflight[r].overtaken => ~codes[inflight[r].code].used
         /\ inflight[r].op # "recover" =>
              /\ inflight[r].attempts \in Nat /\ inflight[r].attempts < MaxAttempts
              /\ ~inflight[r].overtaken =>
                   inflight[r].attempts = codes[inflight[r].code].attempts
<1>1. PICK p : p = inflight[r]
  OBVIOUS
<1>2. p \in Request /\ TryRelies(p)
  BY <1>1 DEF CodesInv, TypeOK, RequestsRely, Relies, Request
<1>3. p.overtaken \in BOOLEAN /\ (p.op # "recover" => p.attempts \in 0 .. MaxAttempts)
  BY <1>1, <1>2, RequestFields DEF TryOps
<1>4. \A x \in 0 .. MaxAttempts : x \in Nat
  BY CodesAssumption
<1>5. p.code \in DOMAIN codes
  BY <1>1, <1>2 DEF TryRelies
<1>6. p.code \in Numbers /\ codes[p.code] \in Row
  BY <1>5 DEF CodesInv, TypeOK
<1>7. QED
  BY <1>1, <1>2, <1>3, <1>4, <1>5, <1>6 DEF TryRelies

\* A late commit is counted, for its own code.
LEMMA OvertakenCounted ==
  ASSUME CodesInv, NEW r, NEW c \in Numbers, c = inflight[r].code,
         inflight[r].overtaken \in BOOLEAN, CountOvertaken(r)
  PROVE  /\ overtaken' \in [Numbers -> Nat]
         /\ inflight[r].overtaken => overtaken'[c] = overtaken[c] + 1
         /\ ~inflight[r].overtaken => overtaken'[c] = overtaken[c]
         /\ \A d \in Numbers \ {c} : overtaken'[d] = overtaken[d]
<1>1. overtaken \in [Numbers -> Nat]
  BY DEF CodesInv, TypeOK
<1>2. overtaken' = [overtaken EXCEPT ![c] = IF inflight[r].overtaken THEN overtaken[c] + 1 ELSE overtaken[c]]
  BY DEF CountOvertaken
<1>3. QED
  BY <1>1, <1>2

\* The wrong try: a late one buys a round of attempts, and no more.
LEMMA CommitWrongStep ==
  ASSUME CodesInv, NEW r \in Requests, CommitWrong(r)
  PROVE  CodesInv'
<1>1. PICK p, c, old : p = inflight[r] /\ c = p.code /\ old = codes[c]
  OBVIOUS
<1>2. r \in DOMAIN inflight /\ p.op = "wrong"
  BY <1>1 DEF CommitWrong, Serving
<1>3. /\ c \in DOMAIN codes /\ c \in Numbers /\ old \in Row /\ p.overtaken \in BOOLEAN
      /\ p.attempts \in Nat /\ p.attempts < MaxAttempts
      /\ ~p.overtaken => p.attempts = old.attempts
  BY <1>1, <1>2, TryKnows DEF TryOps
<1>4. PICK n : n = p.attempts + 1
  OBVIOUS
<1>5. n \in Nat /\ n \in 0 .. MaxAttempts /\ n >= 1
  BY <1>3, <1>4, CodesAssumption
<1>6. PICK new : new = [old EXCEPT !.attempts = n]
  OBVIOUS
<1>7. /\ new \in Row /\ new.purpose = old.purpose /\ new.used = old.used /\ new.attempts = n
      /\ old.attempts \in 0 .. MaxAttempts /\ old.used \in BOOLEAN
  BY <1>3, <1>5, <1>6 DEF Row
<1>8. /\ codes' = [codes EXCEPT ![c] = new] /\ Leave(r, {c})
      /\ wrong' = [wrong EXCEPT ![c] = wrong[c] + 1]
      /\ CountOvertaken(r)
      /\ UNCHANGED <<unused, started, generated, opened, recovered, superseded, renewed>>
  BY <1>1, <1>4, <1>6 DEF CommitWrong, Counted
<1>9. /\ RequestsRely' /\ PlacesApart'
      /\ DOMAIN inflight' \subseteq Requests
      /\ \A s \in DOMAIN inflight' : inflight'[s] \in Request
      /\ Generating' \subseteq Generating \ {r}
      /\ DOMAIN codes' = DOMAIN codes /\ codes'[c] = new
      /\ \A d \in DOMAIN codes \ {c} : codes'[d] = codes[d]
      /\ \A d \in DOMAIN codes : codes'[d] \in Row
      /\ \A d \in superseded' : d \in DOMAIN codes' /\ codes'[d].used
  <2>1. new.purpose = codes[c].purpose /\ (codes[c].used => new.used)
    BY <1>1, <1>7
  <2>2. started' = started /\ generated' = generated /\ unused' \subseteq unused /\ superseded' = superseded
    BY <1>8
  <2>3. QED
    BY <1>2, <1>3, <1>7, <1>8, <2>1, <2>2, OneRowWritten
<1>10. /\ overtaken' \in [Numbers -> Nat]
       /\ p.overtaken => overtaken'[c] = overtaken[c] + 1
       /\ ~p.overtaken => overtaken'[c] = overtaken[c]
       /\ \A d \in Numbers \ {c} : overtaken'[d] = overtaken[d]
  BY <1>1, <1>3, <1>8, OvertakenCounted
<1>11. wrong' \in [Numbers -> Nat] /\ wrong'[c] = wrong[c] + 1
       /\ \A d \in Numbers \ {c} : wrong'[d] = wrong[d]
  BY <1>3, <1>8 DEF CodesInv, TypeOK
<1>12. TypeOK'
  BY <1>8, <1>9, <1>10, <1>11 DEF CodesInv, TypeOK, Request
<1>13. RecoveryInv'
  <2>1. RecoveryInv /\ generated \in Nat
    BY CodesAssumption DEF CodesInv, TypeOK
  <2>2. QED
    BY <1>8, <1>9, <2>1, RecoveryStands
<1>14. Paid(c)'
  <2>1. PICK o, w, a : o = overtaken[c] /\ w = wrong[c] /\ a = old.attempts
    OBVIOUS
  <2>2. /\ o \in Nat /\ w \in Nat /\ a \in Nat /\ a <= MaxAttempts /\ MaxAttempts \in Nat
        /\ opened[c] \in Nat
    BY <1>3, <1>7, <2>1, CodesAssumption DEF CodesInv, TypeOK
  <2>3. /\ opened[c] <= o + (IF old.used THEN 1 ELSE 0)
        /\ w <= a + MaxAttempts * o
    BY <1>1, <1>3, <2>1 DEF CodesInv, Paid
  <2>4. PICK x : x = MaxAttempts * o
    OBVIOUS
  <2>5. x \in Nat /\ MaxAttempts * (o + 1) = x + MaxAttempts
    BY <2>2, <2>4
  <2>6. w + 1 <= n + MaxAttempts * overtaken'[c]
    <3>1. CASE p.overtaken
      <4>1. overtaken'[c] = o + 1
        BY <1>10, <2>1, <3>1
      <4>2. w + 1 <= n + (x + MaxAttempts)
        BY <1>5, <2>2, <2>3, <2>4, <2>5
      <4>3. QED
        BY <2>5, <4>1, <4>2
    <3>2. CASE ~p.overtaken
      <4>1. overtaken'[c] = o /\ n = a + 1
        BY <1>3, <1>4, <1>10, <2>1, <3>2
      <4>2. w + 1 <= n + x
        BY <2>2, <2>3, <2>4, <2>5, <4>1
      <4>3. QED
        BY <2>4, <4>1, <4>2
    <3>3. QED
      BY <3>1, <3>2
  <2>7. opened'[c] <= overtaken'[c] + (IF new.used THEN 1 ELSE 0)
    BY <1>3, <1>7, <1>8, <1>10, <2>1, <2>2, <2>3
  <2>8. QED
    BY <1>3, <1>7, <1>9, <1>11, <2>1, <2>6, <2>7 DEF Paid
<1>15. \A d \in Numbers : Paid(d)'
  <2> SUFFICES ASSUME NEW d \in Numbers, d # c PROVE Paid(d)'
    BY <1>14
  <2>1. Paid(d)
    BY DEF CodesInv
  <2>2. QED
    BY <1>8, <1>9, <1>10, <1>11, <2>1 DEF Paid
<1>16. QED
  BY <1>8, <1>9, <1>12, <1>13, <1>15 DEF CodesInv

\* The code that opens the door is used from then on; only a late try opens it twice.
LEMMA OpenStep ==
  ASSUME CodesInv, NEW r \in DOMAIN inflight, inflight[r].op \in {"right", "recover"},
         Open(r), CountOvertaken(r),
         UNCHANGED <<started, generated, wrong, superseded, renewed>>,
         unused' \subseteq unused, recovered' \in [RecoveryCodes -> Nat]
  PROVE  /\ TypeOK' /\ DOMAIN codes' = DOMAIN codes
         /\ RequestsRely' /\ PlacesApart'
         /\ \A c \in Numbers : Paid(c)'
         /\ \A c \in superseded' : c \in DOMAIN codes' /\ codes'[c].used
         /\ Generating' \subseteq Generating
<1>1. PICK p, c, old : p = inflight[r] /\ c = p.code /\ old = codes[c]
  OBVIOUS
<1>2. /\ c \in DOMAIN codes /\ c \in Numbers /\ old \in Row /\ p.overtaken \in BOOLEAN
      /\ ~p.overtaken => ~old.used
  BY <1>1, TryKnows DEF TryOps
<1>3. PICK new : new = [old EXCEPT !.used = TRUE]
  OBVIOUS
<1>4. /\ new \in Row /\ new.purpose = old.purpose /\ new.used = TRUE
      /\ new.attempts = old.attempts /\ old.attempts \in Nat /\ old.used \in BOOLEAN
  BY <1>2, <1>3, UsedRow
<1>5. /\ codes' = [codes EXCEPT ![c] = new] /\ Leave(r, {c})
      /\ opened' = [opened EXCEPT ![c] = opened[c] + 1]
  BY <1>1, <1>3 DEF Open, Spent
<1>6. /\ RequestsRely' /\ PlacesApart'
      /\ DOMAIN inflight' \subseteq Requests
      /\ \A s \in DOMAIN inflight' : inflight'[s] \in Request
      /\ Generating' \subseteq Generating \ {r}
      /\ DOMAIN codes' = DOMAIN codes /\ codes'[c] = new
      /\ \A d \in DOMAIN codes \ {c} : codes'[d] = codes[d]
      /\ \A d \in DOMAIN codes : codes'[d] \in Row
      /\ \A d \in superseded' : d \in DOMAIN codes' /\ codes'[d].used
  <2>1. new.purpose = codes[c].purpose /\ (codes[c].used => new.used)
    BY <1>1, <1>4
  <2>2. QED
    BY <1>2, <1>4, <1>5, <2>1, OneRowWritten
<1>7. /\ overtaken' \in [Numbers -> Nat]
      /\ p.overtaken => overtaken'[c] = overtaken[c] + 1
      /\ ~p.overtaken => overtaken'[c] = overtaken[c]
      /\ \A d \in Numbers \ {c} : overtaken'[d] = overtaken[d]
  BY <1>1, <1>2, OvertakenCounted
<1>8. opened' \in [Numbers -> Nat] /\ opened'[c] = opened[c] + 1
      /\ \A d \in Numbers \ {c} : opened'[d] = opened[d]
  BY <1>2, <1>5 DEF CodesInv, TypeOK
<1>9. TypeOK'
  BY <1>6, <1>7, <1>8 DEF CodesInv, TypeOK, Request
<1>10. Paid(c)'
  <2>1. PICK o, w, a, n : o = overtaken[c] /\ w = wrong[c] /\ a = old.attempts /\ n = opened[c]
    OBVIOUS
  <2>2. o \in Nat /\ w \in Nat /\ a \in Nat /\ n \in Nat /\ MaxAttempts \in Nat
    BY <1>2, <1>4, <2>1, CodesAssumption DEF CodesInv, TypeOK
  <2>3. /\ n <= o + (IF old.used THEN 1 ELSE 0)
        /\ w <= a + MaxAttempts * o
    BY <1>1, <1>2, <2>1 DEF CodesInv, Paid
  <2>4. PICK x : x = MaxAttempts * o
    OBVIOUS
  <2>5. x \in Nat /\ MaxAttempts * (o + 1) = x + MaxAttempts
    BY <2>2, <2>4
  <2>6. n + 1 <= overtaken'[c] + 1
    BY <1>2, <1>4, <1>7, <2>1, <2>2, <2>3
  <2>7. w <= a + MaxAttempts * overtaken'[c]
    <3>1. CASE p.overtaken
      <4>1. overtaken'[c] = o + 1
        BY <1>7, <2>1, <3>1
      <4>2. w <= a + (x + MaxAttempts)
        BY <2>2, <2>3, <2>4, <2>5
      <4>3. QED
        BY <2>5, <4>1, <4>2
    <3>2. CASE ~p.overtaken
      BY <1>7, <2>1, <2>3, <3>2
    <3>3. QED
      BY <3>1, <3>2
  <2>8. QED
    BY <1>2, <1>4, <1>6, <1>8, <2>1, <2>6, <2>7 DEF Paid
<1>11. \A d \in Numbers : Paid(d)'
  <2> SUFFICES ASSUME NEW d \in Numbers, d # c PROVE Paid(d)'
    BY <1>10
  <2>1. Paid(d)
    BY DEF CodesInv
  <2>2. QED
    BY <1>6, <1>7, <1>8, <2>1 DEF Paid
<1>12. QED
  BY <1>6, <1>9, <1>11

LEMMA CommitRightStep ==
  ASSUME CodesInv, NEW r \in Requests, CommitRight(r)
  PROVE  CodesInv'
<1>1. /\ r \in DOMAIN inflight /\ inflight[r].op = "right"
      /\ Open(r) /\ CountOvertaken(r)
      /\ UNCHANGED <<unused, started, generated, wrong, recovered, superseded, renewed>>
  BY DEF CommitRight, Serving
<1>2. recovered' \in [RecoveryCodes -> Nat] /\ unused' \subseteq unused
  BY <1>1 DEF CodesInv, TypeOK
<1>3. /\ TypeOK' /\ DOMAIN codes' = DOMAIN codes
      /\ RequestsRely' /\ PlacesApart'
      /\ \A c \in Numbers : Paid(c)'
      /\ \A c \in superseded' : c \in DOMAIN codes' /\ codes'[c].used
      /\ Generating' \subseteq Generating
  BY <1>1, <1>2, OpenStep
<1>4. RecoveryInv'
  <2>1. RecoveryInv /\ generated \in Nat
    BY CodesAssumption DEF CodesInv, TypeOK
  <2>2. QED
    BY <1>1, <1>3, <2>1, RecoveryStands
<1>5. QED
  BY <1>1, <1>3, <1>4 DEF CodesInv

\* A recovery code that is unused has opened nothing yet.
LEMMA CommitRecoveryStep ==
  ASSUME CodesInv, NEW r \in Requests, CommitRecovery(r)
  PROVE  CodesInv'
<1>1. PICK k : k = inflight[r].recovery
  OBVIOUS
<1>2. /\ r \in DOMAIN inflight /\ inflight[r].op = "recover"
      /\ k \in unused /\ unused' = unused \ {k}
      /\ recovered' = [recovered EXCEPT ![k] = recovered[k] + 1]
      /\ Open(r) /\ CountOvertaken(r)
      /\ UNCHANGED <<started, generated, wrong, superseded, renewed>>
  BY <1>1 DEF CommitRecovery, Serving, StillRecoverable
<1>3. k \in RecoveryCodes /\ recovered \in [RecoveryCodes -> Nat] /\ recovered[k] = 0
      /\ k[1] <= generated /\ RecoveryInv /\ generated \in Nat
  BY <1>2, CodesAssumption DEF CodesInv, TypeOK, RecoveryInv
<1>4. /\ recovered' \in [RecoveryCodes -> Nat] /\ recovered'[k] = 1
      /\ \A j \in RecoveryCodes \ {k} : recovered'[j] = recovered[j]
  BY <1>2, <1>3
<1>5. /\ TypeOK' /\ DOMAIN codes' = DOMAIN codes
      /\ RequestsRely' /\ PlacesApart'
      /\ \A c \in Numbers : Paid(c)'
      /\ \A c \in superseded' : c \in DOMAIN codes' /\ codes'[c].used
      /\ Generating' \subseteq Generating
  BY <1>2, <1>4, OpenStep
<1>6. RecoveryInv'
  <2>1. PICK G : G = Generating'
    OBVIOUS
  <2>2. IsFiniteSet(G) /\ Cardinality(G) <= Cardinality(Generating)
    BY <1>3, <1>5, <2>1, FS_Subset DEF RecoveryInv
  <2>3. Cardinality(G) \in Nat /\ Cardinality(Generating) \in Nat
    BY <1>3, <2>2, FS_CardinalityType DEF RecoveryInv
  <2>4. generated + Cardinality(G) <= MaxGenerations
    BY <1>3, <2>2, <2>3, CodesAssumption DEF RecoveryInv
  <2>5. \A j \in unused' : recovered'[j] = 0 /\ j[1] > renewed /\ j[1] <= generated
    BY <1>2, <1>3, <1>4 DEF CodesInv, TypeOK, RecoveryInv
  <2>6. \A j \in RecoveryCodes :
          recovered'[j] <= 1 /\ (recovered'[j] > 0 => j[1] <= generated)
    <3> SUFFICES ASSUME NEW j \in RecoveryCodes
                 PROVE  recovered'[j] <= 1 /\ (recovered'[j] > 0 => j[1] <= generated)
      OBVIOUS
    <3>1. CASE j = k
      BY <1>3, <1>4, <3>1
    <3>2. CASE j # k
      BY <1>3, <1>4, <3>2 DEF RecoveryInv
    <3>3. QED
      BY <3>1, <3>2
  <2>7. QED
    BY <1>2, <1>3, <2>1, <2>2, <2>4, <2>5, <2>6 DEF RecoveryInv
<1>7. QED
  BY <1>2, <1>5, <1>6 DEF CodesInv

-----------------------------------------------------------------------------
LEMMA BeginGenerateStep ==
  ASSUME CodesInv, NEW r \in Requests, BeginGenerate(r)
  PROVE  CodesInv'
<1>1. PICK q : q = [op |-> "generate", seen |-> unused, before |-> generated]
  OBVIOUS
<1>2. /\ r \notin DOMAIN inflight
      /\ inflight' = [s \in DOMAIN inflight \cup {r} |-> IF s = r THEN q ELSE inflight[s]]
      /\ UNCHANGED <<codes, unused, started, generated, history>>
  BY <1>1 DEF BeginGenerate, Enter
<1>3. /\ unused \subseteq RecoveryCodes /\ generated \in 0 .. MaxGenerations /\ generated \in Nat
      /\ RecoveryInv
  BY CodesAssumption DEF CodesInv, TypeOK
<1>4. q \in Generation /\ q.op = "generate"
  BY <1>1, <1>3 DEF Generation
<1>5. Relies(q)'
  <2>1. GenerationRelies(q)'
    BY <1>1, <1>2, <1>3 DEF GenerationRelies
  <2>2. CreationRelies(q)' /\ SendRelies(q)' /\ TryRelies(q)'
    BY <1>4 DEF CreationRelies, SendRelies, TryRelies, PreCommit, TryOps
  <2>3. QED
    BY <2>1, <2>2 DEF Relies
<1>6. RecoveryInv'
  <2>1. PICK G : G = Generating'
    OBVIOUS
  <2>2. r \notin Generating
    BY <1>2 DEF Generating
  <2>3. G = Generating \cup {r}
    BY <1>2, <1>4, <2>1 DEF Generating
  <2>4. IsFiniteSet(G) /\ Cardinality(G) = Cardinality(Generating) + 1
    BY <1>3, <2>2, <2>3, FS_AddElement DEF RecoveryInv
  <2>5. Cardinality(Generating) \in Nat
    BY <1>3, FS_CardinalityType DEF RecoveryInv
  <2>6. generated + Cardinality(Generating) < MaxGenerations
    <3>1. Generating = {s \in DOMAIN inflight : Serving(s, "generate")}
      BY DEF Generating, Serving
    <3>2. QED
      BY <3>1 DEF BeginGenerate
  <2>7. generated + Cardinality(G) <= MaxGenerations
    BY <1>3, <2>4, <2>5, <2>6, CodesAssumption
  <2>8. QED
    BY <1>2, <1>3, <2>1, <2>4, <2>7 DEF RecoveryInv, history
<1>7. started' \in {started, started + 1} /\ started' <= MaxCodes
  BY <1>2, CodesAssumption DEF CodesInv, TypeOK
<1>8. QED
  BY <1>2, <1>4, <1>5, <1>6, <1>7, RequestStep DEF Request, PreCommit

\* What was unused when the DELETE began is gone; the rest is of later generations.
LEMMA CommitGenerateStep ==
  ASSUME CodesInv, NEW r \in Requests, CommitGenerate(r)
  PROVE  CodesInv'
<1>1. PICK p, g : p = inflight[r] /\ g = generated + 1
  OBVIOUS
<1>2. /\ r \in DOMAIN inflight /\ p.op = "generate" /\ r \in Generating
      /\ generated' = g
      /\ unused' = (unused \ p.seen) \cup ({g} \X Keys)
      /\ renewed' = IF p.before > renewed THEN p.before ELSE renewed
      /\ Leave(r, {})
      /\ UNCHANGED <<codes, started, wrong, opened, overtaken, recovered, superseded>>
  BY <1>1 DEF CommitGenerate, Serving, Replaced, Generating
<1>3. /\ p \in Generation /\ p.before \in 0 .. MaxGenerations /\ GenerationRelies(p)
  BY <1>1, <1>2, RequestFields DEF CodesInv, TypeOK, RequestsRely, Relies, Request
<1>4. /\ generated \in Nat /\ renewed \in Nat /\ p.before \in Nat /\ MaxGenerations \in Nat
      /\ unused \subseteq RecoveryCodes /\ RecoveryInv
  BY <1>3, CodesAssumption DEF CodesInv, TypeOK
<1>5. p.before <= generated /\ \A k \in unused : k \in p.seen \/ k[1] > p.before
  BY <1>2, <1>3 DEF GenerationRelies
<1>6. PICK G : G = Generating \ {r}
  OBVIOUS
<1>7. /\ IsFiniteSet(G) /\ Cardinality(G) \in Nat
      /\ g + Cardinality(G) <= MaxGenerations
  <2>1. IsFiniteSet(G) /\ Cardinality(G) = Cardinality(Generating) - 1
    BY <1>2, <1>4, <1>6, FS_RemoveElement DEF RecoveryInv
  <2>2. Cardinality(G) \in Nat /\ Cardinality(Generating) \in Nat
    BY <1>4, <2>1, FS_CardinalityType DEF RecoveryInv
  <2>3. QED
    BY <1>1, <1>4, <2>1, <2>2 DEF RecoveryInv
<1>8. g \in Generations /\ generated' \in 0 .. MaxGenerations /\ g \in Nat
  BY <1>1, <1>2, <1>4, <1>7 DEF Generations
<1>9. \A k \in {g} \X Keys : k \in RecoveryCodes /\ k[1] = g
  BY <1>8 DEF RecoveryCodes
<1>10. /\ RequestsRely' /\ PlacesApart'
       /\ DOMAIN inflight' \subseteq Requests
       /\ \A s \in DOMAIN inflight' : inflight'[s] \in Request
       /\ Generating' \subseteq G
  <2>1. /\ DOMAIN inflight' \subseteq DOMAIN inflight /\ r \notin DOMAIN inflight'
        /\ \A s \in DOMAIN inflight' \ {r} :
             inflight'[s] = IF Tries(s) /\ inflight[s].code \in {}
                            THEN [inflight[s] EXCEPT !.overtaken = TRUE] ELSE inflight[s]
    BY <1>2, LeaveFacts
  <2>2. \A k \in unused' : k \in unused \/ k[1] = generated + 1
    BY <1>1, <1>2, <1>9
  <2>3. generated' \in {generated, generated + 1}
    BY <1>1, <1>2
  <2>4. /\ started' = started /\ r \in DOMAIN inflight /\ DOMAIN codes \subseteq DOMAIN codes'
        /\ DOMAIN codes' \ DOMAIN codes = {}
        /\ \A c \in DOMAIN codes : /\ codes'[c].purpose = codes[c].purpose
                                  /\ codes'[c].used = codes[c].used
                                  /\ codes'[c].attempts = codes[c].attempts
    BY <1>2
  <2>5. /\ RequestsRely' /\ PlacesApart'
        /\ DOMAIN inflight' \subseteq Requests
        /\ \A s \in DOMAIN inflight' : inflight'[s] \in Request
        /\ Generating' \subseteq Generating \ {r}
    BY <2>1, <2>2, <2>3, <2>4, Settled
  <2>6. QED
    BY <1>6, <2>5
<1>11. renewed' \in 0 .. MaxGenerations /\ renewed' <= generated
  BY <1>2, <1>3, <1>4, <1>5 DEF RecoveryInv, CodesInv, TypeOK
<1>12. unused' \subseteq RecoveryCodes
  BY <1>2, <1>4, <1>9
<1>13. TypeOK'
  BY <1>2, <1>8, <1>10, <1>11, <1>12 DEF CodesInv, TypeOK, Request
<1>14. RecoveryInv'
  <2>1. PICK H : H = Generating'
    OBVIOUS
  <2>2. IsFiniteSet(H) /\ Cardinality(H) <= Cardinality(G)
    BY <1>7, <1>10, <2>1, FS_Subset
  <2>3. Cardinality(H) \in Nat
    BY <2>2, FS_CardinalityType
  <2>4. generated' + Cardinality(H) <= MaxGenerations
    BY <1>2, <1>4, <1>7, <1>8, <2>2, <2>3
  <2>5. renewed' <= generated'
    BY <1>1, <1>2, <1>4, <1>11
  <2>6. \A k \in unused' : recovered'[k] = 0 /\ k[1] > renewed' /\ k[1] <= generated'
    <3> SUFFICES ASSUME NEW k \in unused'
                 PROVE  recovered[k] = 0 /\ k[1] > renewed' /\ k[1] <= g
      BY <1>2
    <3>1. CASE k \in {g} \X Keys
      <4>1. k \in RecoveryCodes /\ k[1] = g
        BY <1>9, <3>1
      <4>2. recovered[k] \in Nat /\ (recovered[k] > 0 => k[1] <= generated)
        BY <1>4, <4>1 DEF CodesInv, TypeOK, RecoveryInv
      <4>3. QED
        BY <1>1, <1>4, <1>11, <4>1, <4>2
    <3>2. CASE k \in unused \ p.seen
      <4>1. /\ recovered[k] = 0 /\ k[1] > renewed /\ k[1] <= generated
            /\ k[1] > p.before
        BY <1>4, <1>5, <3>2 DEF RecoveryInv
      <4>2. k[1] \in Nat
        BY <1>4, <3>2 DEF RecoveryCodes, Generations
      <4>3. QED
        BY <1>1, <1>2, <1>4, <4>1, <4>2
    <3>3. QED
      BY <1>2, <3>1, <3>2
  <2>7. \A k \in RecoveryCodes :
          recovered'[k] <= 1 /\ (recovered'[k] > 0 => k[1] <= generated')
    <3> SUFFICES ASSUME NEW k \in RecoveryCodes
                 PROVE  recovered[k] <= 1 /\ (recovered[k] > 0 => k[1] <= g)
      BY <1>2
    <3>1. k[1] \in Nat
      BY DEF RecoveryCodes, Generations
    <3>2. QED
      BY <1>1, <1>4, <3>1 DEF RecoveryInv
  <2>8. QED
    BY <2>1, <2>2, <2>4, <2>5, <2>6, <2>7 DEF RecoveryInv
<1>15. (\A c \in Numbers : Paid(c)') /\ (\A c \in superseded' : c \in DOMAIN codes' /\ codes'[c].used)
  BY <1>2 DEF CodesInv, Paid
<1>16. QED
  BY <1>2, <1>10, <1>13, <1>14, <1>15 DEF CodesInv

-----------------------------------------------------------------------------
LEMMA DeliverStep ==
  ASSUME CodesInv, NEW r \in Requests, Deliver(r)
  PROVE  CodesInv'
BY EndStep DEF Deliver, Serving

LEMMA AbortStep ==
  ASSUME CodesInv, NEW r \in Requests, Abort(r)
  PROVE  CodesInv'
BY EndStep DEF Abort

\* Time changes nothing a request relies on.
LEMMA AgeStep ==
  ASSUME CodesInv, NEW c \in Numbers, Age(c)
  PROVE  CodesInv'
<1>1. PICK old, a : old = codes[c] /\ a = IF codes[c].age = "cooling" THEN "valid" ELSE "expired"
  OBVIOUS
<1>2. PICK new : new = [old EXCEPT !.age = a]
  OBVIOUS
<1>3. /\ c \in DOMAIN codes /\ codes' = [codes EXCEPT ![c] = new]
      /\ UNCHANGED <<unused, started, generated, inflight, history>>
  BY <1>1, <1>2 DEF Age
<1>4. UNCHANGED <<wrong, opened, overtaken, recovered, superseded, renewed>>
  BY <1>3 DEF history
<1>5. old \in Row /\ a \in Ages
  BY <1>1, <1>3 DEF CodesInv, TypeOK, Ages
<1>6. /\ new \in Row /\ new.purpose = old.purpose /\ new.used = old.used
      /\ new.attempts = old.attempts
  BY <1>2, <1>5 DEF Row
<1>7. /\ DOMAIN codes' = DOMAIN codes
      /\ \A d \in DOMAIN codes :
           /\ codes'[d] \in Row /\ codes'[d].purpose = codes[d].purpose
           /\ codes'[d].used = codes[d].used /\ codes'[d].attempts = codes[d].attempts
  BY <1>1, <1>3, <1>6 DEF CodesInv, TypeOK
<1>8. generated \in Nat
  BY CodesAssumption DEF CodesInv, TypeOK
<1>9. RequestsRely'
  <2> SUFFICES ASSUME NEW s \in DOMAIN inflight, NEW x, x = inflight[s] PROVE Relies(x)'
    BY <1>3 DEF RequestsRely
  <2>1. x \in Request /\ Relies(x)
    BY DEF CodesInv, TypeOK, RequestsRely, Request
  <2>2. Follows(x, x)
    BY DEF Follows
  <2>3. x.op \in PreCommit => x.code \notin DOMAIN codes'
    BY <1>7, <2>1 DEF Relies, CreationRelies
  <2>4. x.op \in TryOps => x.code \in DOMAIN codes
    BY <2>1 DEF Relies, TryRelies
  <2>5. QED
    BY <1>3, <1>7, <1>8, <2>1, <2>2, <2>3, <2>4, ReliesKept
<1>10. TypeOK'
  BY <1>3, <1>4, <1>7 DEF CodesInv, TypeOK
<1>11. RecoveryInv'
  <2>1. Generating' \subseteq Generating
    BY <1>3 DEF Generating
  <2>2. QED
    BY <1>3, <1>4, <1>8, <2>1, RecoveryStands DEF CodesInv
<1>12. PlacesApart'
  BY <1>3 DEF CodesInv, PlacesApart
<1>13. \A d \in Numbers : Paid(d)'
  BY <1>4, <1>7 DEF CodesInv, Paid
<1>14. QED
  BY <1>3, <1>4, <1>7, <1>9, <1>10, <1>11, <1>12, <1>13 DEF CodesInv

LEMMA StutterStep == ASSUME CodesInv, UNCHANGED vars PROVE CodesInv'
<1>1. UNCHANGED <<codes, unused, started, generated, inflight,
                  wrong, opened, overtaken, recovered, superseded, renewed>>
  BY DEF vars, history
<1>2. TypeOK' /\ PlacesApart'
  BY <1>1 DEF CodesInv, TypeOK, PlacesApart
<1>3. RequestsRely'
  BY <1>1 DEF CodesInv, RequestsRely, Relies, CreationRelies, SendRelies, TryRelies, GenerationRelies
<1>4. RecoveryInv'
  BY <1>1 DEF CodesInv, RecoveryInv, Generating
<1>5. QED
  BY <1>1, <1>2, <1>3, <1>4 DEF CodesInv, Paid

LEMMA NextStep == CodesInv /\ [Next]_vars => CodesInv'
<1> SUFFICES ASSUME CodesInv, [Next]_vars PROVE CodesInv'
  OBVIOUS
<1>1. ASSUME NEW r \in Requests, NEW p \in Purposes, NEW t \in Targets, BeginCreate(r, p, t)
      PROVE  CodesInv'
  BY <1>1, BeginCreateStep
<1>2. ASSUME NEW r \in Requests, LockActive(r) \/ BeginVoid(r) \/ Void(r) \/ CommitCreate(r)
      PROVE  CodesInv'
  BY <1>2, LockActiveStep, BeginVoidStep, VoidStep, CommitCreateStep
<1>3. ASSUME NEW r \in Requests, Deliver(r) \/ Withdraw(r) PROVE CodesInv'
  BY <1>3, DeliverStep, WithdrawStep
<1>4. ASSUME NEW r \in Requests, NEW p \in Purposes, NEW t \in Targets \cup Numbers,
             NEW op \in {"wrong", "right"}, BeginTry(r, p, t, op)
      PROVE  CodesInv'
  BY <1>4, BeginTryStep
<1>5. ASSUME NEW r \in Requests, CommitWrong(r) \/ CommitRight(r) PROVE CodesInv'
  BY <1>5, CommitWrongStep, CommitRightStep
<1>6. ASSUME NEW r \in Requests, NEW c \in Numbers, NEW k \in RecoveryCodes, BeginRecovery(r, c, k)
      PROVE  CodesInv'
  BY <1>6, BeginRecoveryStep
<1>7. ASSUME NEW r \in Requests, CommitRecovery(r) \/ BeginGenerate(r) \/ CommitGenerate(r)
      PROVE  CodesInv'
  BY <1>7, CommitRecoveryStep, BeginGenerateStep, CommitGenerateStep
<1>8. ASSUME NEW r \in Requests, Abort(r) PROVE CodesInv'
  BY <1>8, AbortStep
<1>9. ASSUME NEW c \in Numbers, Age(c) PROVE CodesInv'
  BY <1>9, AgeStep
<1>10. QED
  BY <1>1, <1>2, <1>3, <1>4, <1>5, <1>6, <1>7, <1>8, <1>9, StutterStep DEF Next

-----------------------------------------------------------------------------
(* The results. *)

\* The inductive invariant of the codes of an account.
THEOREM CodesInvariance == Spec => []CodesInv
<1>1. QED
  BY InitInv, NextStep, PTL DEF Spec

\* The tables and the requests keep their shape: no schedule of tries pushes the
\* count of a code past the maximum (consume_account_verification).
THEOREM CodeTypes == Spec => []TypeOK
<1>1. CodesInv => TypeOK
  BY DEF CodesInv
<1>2. QED
  BY <1>1, CodesInvariance, PTL

\* A code opens its door once, and once more for each late commit of a try
\* (consume_account_verification reads the row without a lock).
THEOREM DoorsOpenOnce == Spec => []OpensOnce
<1>1. CodesInv => OpensOnce
  <2> SUFFICES ASSUME CodesInv, NEW c \in Numbers PROVE opened[c] <= 1 + overtaken[c]
    BY DEF OpensOnce
  <2>1. Paid(c) /\ opened[c] \in Nat /\ overtaken[c] \in Nat
    BY DEF CodesInv, TypeOK
  <2>2. QED
    BY <2>1 DEF Paid
<1>2. QED
  BY <1>1, CodesInvariance, PTL

\* The wrong tries of a code stay within MAX_VERIFICATION_ATTEMPTS for itself and
\* for each late commit, whatever the number of requests.
THEOREM GuessesAreBounded == Spec => []TriesBounded
<1>1. CodesInv => TriesBounded
  <2> SUFFICES ASSUME CodesInv, NEW c \in Numbers
               PROVE  wrong[c] <= MaxAttempts * (1 + overtaken[c])
    BY DEF TriesBounded
  <2>1. PICK o, w, x : o = overtaken[c] /\ w = wrong[c] /\ x = MaxAttempts * o
    OBVIOUS
  <2>2. Paid(c) /\ w \in Nat /\ o \in Nat /\ MaxAttempts \in Nat
    BY <2>1, CodesAssumption DEF CodesInv, TypeOK
  <2>3. x \in Nat /\ MaxAttempts * (1 + o) = x + MaxAttempts
    BY <2>1, <2>2
  <2>4. w <= x + MaxAttempts
    <3>1. CASE c \in DOMAIN codes
      <4>1. codes[c].attempts \in Nat /\ codes[c].attempts <= MaxAttempts
        BY <2>2, <3>1 DEF CodesInv, TypeOK, Row
      <4>2. w <= codes[c].attempts + x
        BY <2>1, <2>2, <3>1 DEF Paid
      <4>3. QED
        BY <2>2, <2>3, <4>1, <4>2
    <3>2. CASE c \notin DOMAIN codes
      BY <2>1, <2>2, <2>3, <3>2 DEF Paid
    <3>3. QED
      BY <3>1, <3>2
  <2>5. QED
    BY <2>1, <2>3, <2>4
<1>2. QED
  BY <1>1, CodesInvariance, PTL

\* What was there when a stored code was begun is used (create_account_verification
\* locks the newest and voids all in one statement).
THEOREM NewCodeVoids == Spec => []NewCodeVoidsOlder
<1>1. CodesInv => NewCodeVoidsOlder
  BY DEF CodesInv, NewCodeVoidsOlder
<1>2. QED
  BY <1>1, CodesInvariance, PTL

\* A recovery code opens one session, however many logins use it at once, and none
\* outlives the generation that replaces its own (mfa_recovery.py).
THEOREM RecoveryCodesAreSpentOnce == Spec => []RecoveryCodesHold
<1>1. CodesInv => RecoveryCodesHold
  BY DEF CodesInv, RecoveryInv, RecoveryCodesHold, RecoveryOnce, RegenerationReplaces
<1>2. QED
  BY <1>1, CodesInvariance, PTL

\* No write revives a used code: neither the count of a late try nor the voiding of
\* an older creation touches used_at of a row that has it.
THEOREM UsedStaysUsed == Spec => UsedIsFinal
<1>1. CodesInv /\ [Next]_vars => [\A c \in DOMAIN codes : codes[c].used => codes'[c].used]_vars
  <2> SUFFICES ASSUME CodesInv, Next, NEW c \in DOMAIN codes, codes[c].used PROVE codes'[c].used
    OBVIOUS
  <2>1. codes[c] \in Row
    BY DEF CodesInv, TypeOK
  <2>2. ASSUME codes' = codes PROVE codes'[c].used
    BY <2>2
  <2>3. ASSUME NEW r \in Requests, CommitCreate(r) PROVE codes'[c].used
    <3>1. PICK p : p = inflight[r]
      OBVIOUS
    <3>2. p.op = "insert" /\ p.code \notin DOMAIN codes
      BY <2>3, <3>1
         DEF CommitCreate, Serving, CodesInv, RequestsRely, Relies, CreationRelies, PreCommit
    <3>3. codes'[c] = IF c \in p.locked THEN [codes[c] EXCEPT !.used = TRUE] ELSE codes[c]
      BY <2>3, <3>1, <3>2 DEF CommitCreate, Stored
    <3>4. QED
      BY <2>1, <3>3 DEF Row
  <2>4. ASSUME NEW d, codes' = [codes EXCEPT ![d] = [codes[d] EXCEPT !.used = TRUE]]
        PROVE  codes'[c].used
    BY <2>1, <2>4 DEF Row
  <2>5. ASSUME NEW d, NEW n, codes' = [codes EXCEPT ![d] = [codes[d] EXCEPT !.attempts = n]]
        PROVE  codes'[c].used
    BY <2>1, <2>5 DEF Row
  <2>6. ASSUME NEW d, NEW a, codes' = [codes EXCEPT ![d] = [codes[d] EXCEPT !.age = a]]
        PROVE  codes'[c].used
    BY <2>1, <2>6 DEF Row
  <2>7. ASSUME NEW r \in Requests, Withdraw(r) PROVE codes'[c].used
    BY <2>4, <2>7 DEF Withdraw
  <2>8. ASSUME NEW r \in Requests, CommitWrong(r) PROVE codes'[c].used
    BY <2>5, <2>8 DEF CommitWrong, Counted
  <2>9. ASSUME NEW r \in Requests, CommitRight(r) \/ CommitRecovery(r) PROVE codes'[c].used
    BY <2>4, <2>9 DEF CommitRight, CommitRecovery, Open, Spent
  <2>10. ASSUME NEW d \in Numbers, Age(d) PROVE codes'[c].used
    BY <2>6, <2>10 DEF Age
  <2>11. ASSUME NEW r \in Requests, LockActive(r) \/ BeginVoid(r) \/ Void(r) \/ Deliver(r)
                \/ BeginGenerate(r) \/ CommitGenerate(r) \/ Abort(r)
         PROVE  codes'[c].used
    BY <2>2, <2>11 DEF LockActive, BeginVoid, Void, Deliver, BeginGenerate, CommitGenerate, Abort
  <2>12. ASSUME NEW r \in Requests, NEW p \in Purposes, NEW t \in Targets, BeginCreate(r, p, t)
         PROVE  codes'[c].used
    BY <2>2, <2>12 DEF BeginCreate
  <2>13. ASSUME NEW r \in Requests, NEW p \in Purposes, NEW t \in Targets \cup Numbers,
                NEW op \in {"wrong", "right"}, BeginTry(r, p, t, op)
         PROVE  codes'[c].used
    BY <2>2, <2>13 DEF BeginTry
  <2>14. ASSUME NEW r \in Requests, NEW d \in Numbers, NEW k \in RecoveryCodes, BeginRecovery(r, d, k)
         PROVE  codes'[c].used
    BY <2>2, <2>14 DEF BeginRecovery
  <2>15. QED
    BY <2>3, <2>7, <2>8, <2>9, <2>10, <2>11, <2>12, <2>13, <2>14 DEF Next
<1>2. QED
  BY <1>1, CodesInvariance, PTL DEF Spec, UsedIsFinal

=============================================================================
