# HELP WEB HEALTH in TLA+

A verification project for the help-desk API under `src/`: what the program
keeps in its database, in Redis and on disk, and what concurrent requests,
workers and starting processes may do to it. It holds TLA+ modules translated
from the source, TLC configurations that check them on small instances, and
TLAPS proofs of the results that matter most for every instance.

    tlc -workers 2 -config MCTicketLifecycle.cfg MCTicketLifecycle
    tlapm TicketLifecycle_proofs.tla

`PROJECT.json` lists the runs, the mutants that show each property can fail,
the source lines each definition stands for, the findings, the hazards and the
theorems.

## 1. The system and its components

One FastAPI application (synchronous handlers in a thread pool, one SQLAlchemy
session per request, `autoflush` off, PostgreSQL at READ COMMITTED), possibly
several processes of it, one WhatsApp worker process, PostgreSQL, Redis, an SMTP
server and the Evolution WhatsApp API. Components interact through database
rows; the only other shared states are the Redis stream, the Redis counters of
the rate limits and the lock file used at startup.

| component | state | operations | what is hard | what makes it correct |
|---|---|---|---|---|
| Tickets (`services/tickets/`) | `tickets`, `ticket_events` | create, assign, resolve, close, delete, cancel, reopen, restore, comment, detail | each operation reads a row, checks it and commits later; three of the writes compare again (`UPDATE ... WHERE`), the others do not | cancelled and served exclude each other; one technician; history agrees with the row |
| Ticket lists and dashboard (`tickets/service.py`, `deleted.py`, `notifications/service.py`, `reports/metrics.py`) | none of their own | visible tickets, archive, summaries, queue, counts | pages by OFFSET over rows that move; one condition written in five places | pages drift only by what commits between them; the lists agree on whose a ticket is |
| Notifications (`services/notifications/`) | `notifications` | written with the ticket's events; list, count, mark read | recipients are computed from a row read before the commit | recipients may open the ticket and are not the actor |
| WhatsApp outbox (`workers/whatsapp_worker.py`, webhook) | `notification_deliveries`, Redis stream and group | insert, publish, claim, send, retry, recover, webhook, delete | crashes between commits, entries lost or doubled, leases that expire, a last attempt that crashes | calls bounded by the attempts; one worker per delivery; nothing is forgotten |
| Startup (`services/system/`, `main.py`) | the lock file, the schema, the first administrator | open, stat, unlink, wait, migrate, create administrator | stale files, unlinking by path, kills while starting | one process at a time migrates; every process serves in the end |
| User administration (`services/users/`) | `users` | register, change role, (de)activate, change email or password, delete | two administrators act at once on stale counts | an administrator remains; removal takes the account's data along |
| Sessions (`core/auth.py`, `core/dependencies.py`, `services/auth/tokens.py`, `login.py`, `api/v1/auth.py`) | tokens in circulation, `session_version`, `token_blocklist` | log in, MFA, log out, validate | `session_version` is read and written back plus one | a token that stopped being valid stays so |
| Verification and recovery codes (`services/auth/account_verification.py`, `mfa_recovery.py`) | `account_verifications`, `mfa_recovery_codes` | create, resend, withdraw, consume, recover, regenerate | attempts and use are written without conditions; a row is found in one snapshot and locked later | a door opens once, guesses are bounded, new codes void old ones |
| Login block (`services/auth/rate_limits.py`) | Redis counters and blocks, a dictionary of one process | check, count, block, clear | two pipelines, either may fail after taking effect; threads change entries in place | failures stay on a count that leads to a block |
| HTTP gate (`middlewares/`, `main.py`) | a semaphore, token buckets, Redis windows | refuse, wait, buffer, limit, answer | a time-out races the hand-over of a slot; the table grows while Redis is awaited | slots neither leak nor are lent twice; rates hold; everybody is answered |
| Maintenance notices (`services/maintenance_notices.py`) | notices with a revision, receipts | create, edit, switch, remove, list, confirm | a confirmation races an edit | a receipt covers a text that was shown |
| Ticket catalogue (`services/ticket_catalog.py`) | options | create, rename, switch, delete | renaming rewrites tickets, profiles and notices; the notices have no common lock | tickets and notices follow their options |
| Audit, report layout, schemas, response headers, configuration, email text, migrations, tools | append-only rows, or none | | no decision is taken on their state, or they handle one request's data | |

Interactions: a ticket operation writes events, notifications and deliveries in
its own transaction; the worker reads deliveries; archiving a ticket deletes
notifications (and their deliveries); removing an account deletes its tickets
and clears it from the tickets it served; renaming a sector rewrites tickets and
notices; a role change, deactivation or password change invalidates sessions
through `session_version`.

The 40 hazards found while reading, each at its line and with the properties
that would catch it, are in `PROJECT.json` under `hazards`; the ones with no
property carry a note.

## 2. Modules

| module | role |
|---|---|
| `TicketClaim` | abstract: a ticket is free, held by one operator for ever, or withdrawn until reinstated |
| `TicketLifecycle` | tickets, their events and notifications under concurrent requests; implements `TicketClaim` |
| `DeliveryOutbox` | the deliveries, the Redis stream and the worker loop with crashes, losses and leases |
| `StartupLock` | the lock file, the migration and the first administrator |
| `Accounts` | accounts, their administration, tokens, the blocklist and the second factor |
| `VerificationCodes` | the codes and recovery codes of one account, statement by statement |
| `MaintenanceNotices` | notices, their list and their receipts |
| `TicketCatalog` | the catalogue composed with the tickets, profiles and notices that name its options |
| `LoginGuard` | the progressive block of logins in Redis and in local memory |
| `HttpGate` | the middlewares in front of the handlers: CSRF, concurrency, body, rate limit, origin |
| `RateLimitSettings` | the two settings that both limits read: the tables' maximum, Redis in use or not |
| `TicketPages` | paged lists, the archive and the dashboard's scopes over a changing table |
| `MC...` | the same modules for TLC: symmetry sets, seeds and shapes |
| `..._proofs` | the theorems and their proofs; `Accounts_proofs` takes in `StartupLock`, `HttpGate_proofs` takes in `LoginGuard` |

### Common conventions

A handler runs in a thread with its own session: it reads rows, checks them and
commits later. The row it read stays as it was in the identity map, so the
modules split an operation at that point: **Begin** reads and checks, keeping the
snapshot in `inflight[r]`, and the **commit** writes. `inflight` is a function
whose domain is the set of requests under way. The commit writes only the columns
the session changed, over whatever the row is by then, unless the code has an
`UPDATE ... WHERE` that compares again; those comparisons are operators named
`Still...`. `Abort` is the rollback: an error, a lost connection, a killed process.
Each commit is atomic, as in the database; PostgreSQL's constraints hold.

### TicketLifecycle

`tickets` is the table's row (the timestamps that only matter as NULL or not are
Booleans), `events[t]` the rows of `ticket_events` in the order of their ids,
`notifications` the in-app rows. `Begin` stands for the reads and checks of each
service (`MayAssign` ... `MayComment`); `Create`, `Assign`, `Resolve`, `Close`,
`Delete`, `Cancel`, `Reopen`, `Restore` and `Comment` are the writes, each with the
event it records and the notifications it creates or removes, and `Conflict` is
the 409 after a conditional update that matched nothing. `ClearNotifications` is
the first statement of delete: it removes the notifications it can see, which the
others notice only at the commit, and misses the ones written in between. `Recipients` is the recipient policy,
evaluated on the row that was read, as the code does.

### DeliveryOutbox

`rows` is `notification_deliveries`, `stream`/`group` the Redis stream and its
consumer group, `workers[w]` the program counter of `run_worker` with the rows it
holds. A process step ends wherever another actor can see a difference: at each
commit, at each Redis call and at each call of the provider. `calls` counts the
messages given to the provider. Time is not a number: `RetryDue`,
`QueueLeaseEnds` and `LeaseEnds` make one timestamp fall into the past.
`LeaseOutlivesCall` says whether a provider call always ends before its lease;
the code only arranges this by its defaults. `Crash` may hit the worker anywhere; `StreamLost`
and `Published` (MAXLEN) lose entries.

The worker reads new entries only (`>`), so an entry read and not finished is
never read again and the row must be published a second time: that is why entries
read are simply gone. An idle `XREADGROUP` blocks for longer than the socket
timeout allows, which may end the process (`ReadNothing`). A worker that dies
because its row was deleted is part of the steps that find the row gone. MAXLEN is
approximate in Redis and exact here. `--once` is not modelled. The consumer name is
fixed, so one worker is what the deployment intends; the safety runs use two, as
leases and claims are written for that.

### StartupLock

One action per system call on the path: `Open` (O_EXCL), `Stat`, `Unlink`, `Wait`,
then `Migrate`, `LookUpAdmin`, `InsertAdmin`, `Release`. `Age` makes the file older
than the limit; `StartsInTime` says that nobody is still inside by then. A killed
process (`Crash`) leaves the file and comes back with `Restart`, as the host
arranges. Its specification is named `LockSpec`, as its proofs stand in one module
with those of `Accounts`.

### Accounts

`users` keeps the columns that decide (state, role, is_active, email_verified,
session_version), `tokens` the JWTs in circulation, `blocklist` the table,
`challenges` the accounts with an unused second-factor code and `ended`, a history
variable, the tokens whose session somebody or something ended. `Accepted` is
`get_current_user`. Every change of an account has its own Begin and one commit,
`Change`: all of them write the dirty columns and an audit row whose foreign key
refers to the actor, so an actor that was removed meanwhile makes the commit fail.
The login token is minted from the row that was read, the token after a second
factor from the row reloaded after the commit. `mfa` records how a token was
obtained; the program does not store it. `alone` is a history variable as well: no
two requests that change a role or activity or remove an account have overlapped so
far. The typed codes are right by assumption; their attempts and single use are
`VerificationCodes`.

`session_version` is read and written back plus one, and nothing keeps two changes of
one account apart. A change remembers the version it `found`. When another one has
raised it meanwhile, the commit writes a version that was given out already, or falls
back behind later ones: sessions opened in between stay let through. The history
variable `reused` collects the versions written over in this way (`WrittenAgain`), and
a session that carries one of them is `Ambiguous`. What the README promises of every
session (`ChangesEndSessions`) is therefore a finding, section 5; what holds, of every
other session, is `EndedStaysOut` and `PrivilegedByMfa`.

### VerificationCodes

`codes` is `account_verifications` of one account, known by the order of their
creation's transactions; `unused` the recovery codes without `used_at`. A creation
goes through the statements of `create_account_verification`: it finds the newest
unused code (`find`), locks it (`LockActive`, which refuses during the cooldown),
starts the UPDATE that voids all of them with a snapshot of its own (`BeginVoid`),
waits for the rows (`Void`) and commits (`CommitCreate`); a login then sends the code
and withdraws it when the e-mail fails. A try reads the code without a lock
(`BeginTry`) and writes `attempts` or `used_at` blindly at its commit
(`CommitWrong`, `CommitRight`). A step that changes a code marks the tries that had
read it: `overtaken` counts those that commit all the same, and the properties say
what each of them can give away at most. The recovery code's use compares again
(`StillRecoverable`), and a regeneration's DELETE takes what it saw.
This is the PostgreSQL path; the SQLite one of the tests has no row locks.

### MaintenanceNotices

Requests that change or confirm a notice lock its row first (`Lockable`); the list is
a query without a lock. `shown` is what each reader's pages have shown. `receipts[u][n]`
is the revision confirmed, 0 for none; `now` is a small clock for the start and end of
a notice. The two copies of the audience and time conditions, the query's and the
confirmation's, are two definitions (`Running`/`AudiencesOf` and `Readable`).

### TicketCatalog

A name stands for its classification key. `Require` is `require_catalog_name` with its
row lock, held until the ticket is stored; every change of an option holds the same
lock. Notices take no lock on options: `_notice_sectors` reads the catalogue and
`rename_catalog_option` reads all the notices, works out new lists (`ReadNotices`)
and writes them at its commit. `raced` marks, as history, the notices for which such
a write overlapped a change of one of their sectors, or which two renamings rewrote at
once (`Crossed`): two renamings that both read a notice with sectors A and B each
write a list in which only their own name is new, and one of the new names is lost.
`Abort` also stands for PostgreSQL breaking a deadlock.

### LoginGuard

`fails` and `blocks` are the Redis keys, `table` and `heap` the dictionary
`failed_logins` and the entries its references point to: threads hold entries that
the table's bound may have dropped meanwhile. A failure is counted with one pipeline
and the block set with a second one; each may fail before or after taking effect
(`CountFails`, `BlockFails`), which starts the fallback to local memory. `owed` is the
number of failures that some count stands for and no block has followed, and
`Recorded` is where each step says what it counted, lost for good or settled.
Dropping the old entries, taking a key out and putting it in again leave the other
entries in their order: `Selected` gives those at a set of positions. A key
is `<<address, email>>` or the email alone, kinds that the code's
prefixes `ip:` and `account:` keep apart. Its specification is `GuardSpec`, as its
proofs stand in one module with those of `HttpGate`; the settings both read are in
`RateLimitSettings`.
The fallback is per process and so is the module: one process, with its restart. The
two EXISTS of the check are one step.

### HttpGate

One step lasts from one `await` to the next, as the middlewares share an event loop.
A request passes the CSRF check, the semaphore with its waiting queue
(`Acquire`, `Wait`, `TimeOut`), the guard that looks at headers and buffers the body
(`Receive`, `Disconnect`, `TooMuch`), the rate limit in Redis (`CallRedis`,
`Increment`, `SetExpiry`, `RedisFails`) or in local memory (`LimitLocally`), the origin
check and the handler. Tokens are counted in units of which a request takes `Window`,
so that the refill is exact in integers. A slot freed goes to whoever waits longest,
as in `asyncio.Semaphore`. The middleware gives the slot back when the
response has been sent; here that is one step with the answer.

### TicketPages

The one module whose operations are single steps: each is the commit of an operation
of `TicketLifecycle` or of an account's removal, as a reader of lists sees it. A walk
through a list keeps how far it is (`skip`) and, as history, what it was given twice,
what matched and kept its place all along, and how many rows went out of their place
or came to one. The conditions of the lists, of the single tickets, of the archive and
of the dashboard are separate definitions, as they are written separately in the code.

## 3. Runs

Sets are as small as the races allow: every race found needs two requests, and the
checks compare one ticket, one delivery or one account with itself.

| run | instance | what it shows |
|---|---|---|
| `ticket_lifecycle` | 1 ticket, owner, 2 technicians, administrator, 3 requests, 6 events (393 962 states) | cancelling and taking exclude each other; history and row agree and conditional events chain (`TimelineIsComplete`); recipients can open the ticket and the offer to cancel is what cancel does (`OffersAreHonest`); one recovery per cancellation and no other way out of the archive (`RecoveredOnce`); `TicketClaim` is implemented |
| `outbox` | 1 delivery, 2 workers, 3 attempts, a stream of 1, 2 crashes, 1 loss (296 696 states) | calls bounded by attempts; the claim is exclusive and held under a lease; failed only when exhausted and sent for good (`OutcomesAreFinal`); `EventuallyMoves`: the delivery is taken up and released, whatever is lost, and ends unless a worker is killed |
| `startup` | 3 processes, 2 crashes (12 271 states) | one at a time inside until a kill; everybody serves in the end |
| `accounts` | 2 accounts, 2 tokens, 2 requests, 2 versions, a token expires (1 205 366 states) | ended sessions stay out and privileged sessions had a second factor, but for versions that an overtaken change wrote over; while no two requests that may take an administrator away overlapped, somebody who can administer is left; logging out, expiry and removal are final |
| `verification` | 2 requests, 2 purposes, 2 codes, 2 attempts, 2 generations | what each race between a read and its blind write gives away, and no more |
| `notices` | 1 notice, 2 contents, 2 requests, a reader of each role | nobody is counted as having read what no page has shown him; what is listed can be confirmed |
| `catalog` | 3 names, 2 options, 2 requests, a ticket, a notice, a profile (1 712 703 states) | tickets follow their options always, notices unless their write raced |
| `http_gate` | 3 requests of 6 shapes, 2 slots, a table for 1 key (193 447 states) | slots, table and rates hold; everybody is answered whose client does not stall |
| `login_guard` | 2 threads, 1 account, threshold 2, 3 wrong passwords, a table for 1 key | failures stay on record through failing pipelines, drops and restarts |
| `ticket_pages` | 1 reader, 3 seeded tickets, 6 lists, 3 more commits | pages drift only by what commits in between; the lists agree |
| `accounts_two_admins` | 2 requests | two administrators demote each other (a finding) |
| `accounts_lost_version` | 2 requests | two changes write the same version and a session opened between them goes on (a finding) |

Bounds. `MaxEvents = 6` fits create, cancel, restore, take, resolve and reopen, or
two rounds of any race; a ticket at the bound takes no more calls, so this run does
not check deadlock. One ticket is enough because no service reads two. Three
requests let a third commit fall between the two halves of a race.
`MaxAttempts` of the outbox is 3 as in the defaults. One delivery is published again while
an older entry of it is unread or in a worker's hands, so a stream of 1 is trimmed and two
workers meet on one row. `MaxVersion = 2` is one change of an account besides its creation,
and two changes that overlap write the second version twice; `MaxRaised = 2` lets a change
begin until the accounts have been raised twice between them, and those under way may still
add to it. Two tokens are needed for one that is blocked and one that was minted during a
change. In `verification` two codes are an older one and the one that voids it, and two
attempts let a late commit set the count back; three tries per code (`MaxTries`) exceed what
the attempts allow. In `catalog` the third name is one to rename to while both options keep
theirs, and two requests are a change and what it races with. In `http_gate` three requests
are two inside and one waiting; the time-out, the hand-over and a new arrival then compete
for one slot. A table for one key makes dropping and overgrowing happen with two.
`MaxTries = 3` in `login_guard` is one block and a failure beyond it. `ticket_pages` starts with a
ticket in each part of the system and needs few commits as each one moves a row. Whatever
the bounds, the theorems of section 4 do not depend on them.

Two more configurations check the same properties on other instances, and pass.
`DeliveryOutboxBatch.cfg` has two deliveries, one worker and 2 attempts: their entries push
each other out of a stream of one, and a batch of two is published whose second row may be
gone (256 856 states, `EventuallyMoves`). `AccountsVersions.cfg` has a third version, so
that a version that was written twice also falls back from 3 to 2 (2 948 096 states, the
four invariants of `accounts`).

With `LeaseOutlivesCall = FALSE` neither `HandledOnce` nor `FailedIsExhausted` holds: the
worker whose lease was taken over writes its verdict over the newer one. What the
code keeps then is the bound on the calls, which `AttemptsAreBounded` proves for both
values.

Fairness. `outbox` assumes weak fairness of
each worker's next step (the process runs, the host restarts it, and the provider's
client has a timeout) and of each timestamp falling into the past (time passes). No
fairness is assumed of the HTTP side or of crashes and losses. The run
`startup` assumes the same of each process's step and of the file's ageing.
`http_gate` assumes weak fairness of each request's steps inside the server (`Serve`):
the event loop runs, Redis answers or its socket times out, the wait for a slot has a
timeout, handlers end. Nothing makes a client arrive, send the rest of its body or
disconnect. No other module states fairness.

## 4. Theorems

`Invariance`, `TypeCorrect`, `CancelAndAssignExclude`, `TechnicianIsFinal`
(`TicketLifecycle_proofs`): for any people, tickets and requests.
`CancelledNeverServed` alone is not inductive, as the blind writes of resolve, close
and reopen depend on a read that may be old. The invariant `IInv` adds
`ReadsOutlived` (a ticket read in service is still in service, since no operation
leaves service) and `OneTechnician` (assign compares the technician again).
`LifecycleImplementsClaim` maps a ticket to its holder: assign takes, cancel
withdraws, restore reinstates, and every other operation stutters.

`TimelineStaysComplete`, `RecoveryIsOnce`, `OffersStayHonest` (same module): the three
other promises about a ticket, each with an invariant beside `IInv`. What a history says
is the last of the events that change the status, so the proof follows that one position:
a step either leaves a ticket's events alone or adds one that says what the row becomes
(`TimelineInv`). `ArchiveInv` counts: cancellations are as many as recoveries, with one more
while the row is cancelled and archived, and a cancelled row always is archived; so whoever
finds it there, in the conditional UPDATE, is the one to recover it. The action half is
that only a recovery with its event leaves the archive. `LinkInv` says that a row read
and the row it has become name the same owner and, once named, the same technician, so
that the recipients chosen from an old row can still open the ticket.

`OutboxTypes`, `AttemptsAreBounded` (`DeliveryOutbox_proofs`): for any deliveries,
workers, limits and either value of `LeaseOutlivesCall`. The invariant `OInv`
counts a claim that has not called yet as spent, so that a claim pays for its call
in advance and a crash only loses what was paid.

`ClaimsAreExclusive`, `OutcomesStand` (same module): under `LeaseOutlivesCall`, which is
what the defaults of the configuration arrange and the code does not enforce. `ClaimInv`
relates a worker to the row it handles: until the row is gone, it is in processing
under a lease that has not ended, with the attempts the worker loaded. A row under
a lease is not claimed again, so there is one handler, and what it writes
last cannot land on an outcome. With the assumption false both theorems are false: a
late worker writes over the outcome of the next one.

`SessionsInvariant`, `EndedSessionsStayOut`, `PrivilegeNeedsSecondFactor`
(`Accounts_proofs`): for any accounts, tokens and requests, whatever overlaps. `SessionInv`
relates what is in flight to the tables: a token that is not ambiguous is at or behind the
version of its account (`TokensBehind`), an ended one is expired, blocked, orphaned,
ambiguous or strictly behind (`EndedShut`), a login under way holds the present row, an
older version or an ambiguous one (so it cannot mint a token for a new role without a
second factor unless that token is ambiguous), and a change under way writes a version
above the one it found (`ReadsHold`). The step that matters is `RowStep`: a change in time
passes every version so far, one that was overtaken makes ambiguous each version from the
one it writes to the one it writes over. `AccountTypes` and `LogoutIsFinal`
rest on the same invariant: a removal only takes its own account's rows off the
blocklist and a change never writes the state of an account. The finality of logout has
no exemption.

`AnAdministratorStays` (same module): as long as no two requests that change a role or
activity or remove an account have overlapped, which the property says itself. `AdminInv`
names one account that is an active, confirmed administrator and that no request under way
demotes, deactivates or removes (`Spared`): logins and owners' changes spare everybody
(`MildSpares`), and the one request that may not, spares whoever sent it, as no operation
lets administrators take their own rights away. Section 5 shows two such requests that
break it together.

`OneProcessStarts`, `LockTypes` (same module, which takes up `StartupLock` because that
module creates the first of these administrators): for any processes, the first under
`StartsInTime`: until a kill, while the file exists its creator is inside, so it cannot be found
stale and nobody unlinks it (`LockInv`). `StartupRace.cfg` shows that one kill is enough
to break it; the types hold after kills and late starts too.

`CodesInvariance` with `CodeTypes`, `DoorsOpenOnce`, `GuessesAreBounded`, `NewCodeVoids`,
`RecoveryCodesAreSpentOnce` and `UsedStaysUsed` (`VerificationCodes_proofs`): for any requests,
codes, attempts and generations. The counts of the properties are not inductive: a
try's commit says nothing of the row it writes over. `CodesInv` adds what each request
relies on (`Relies`): an unmarked try knows its row, so its code is unused and the
count it read is the count that is there; a creation that has begun its UPDATE holds,
or finds used, all that was there when it began; a regeneration has seen, or is older
than, every unused code. `Paid` is the account of one code: doors opened are late
commits plus one if it is used, wrong tries are the count plus a round of attempts for
each late commit.

`NoticesInvariance` with `NoticeTypes`, `ReceiptsAreHonest` and `ListedCanBeConfirmed`
(`MaintenanceNotices_proofs`): for any readers, contents and notices. A receipt holds a
revision and the promise is about a text, so the invariant adds that one
revision stands for one content and deadline on every page shown (`PagesFaithful`), and
that the row a request has locked stands still under it (`LockedOnce`, `ReadsHold`).

`CatalogInvariance` with `CatalogTypes`, `TicketsKeepTheirOptions` and
`NoticesKeepTheirSectors` (`TicketCatalog_proofs`): for any names, tickets, notices and
requests. The first two rest on the row locks: a lock has one owner (`LocksApart`), so
what a creation has locked keeps its name and an option found unused stays unused. The
notices have no lock; `NoticeInv` is the invariant of those that did not race: a
renaming that has read the notices is going to rewrite exactly those that mean its
sector, a removal that has checked finds none, and a write takes names of sectors that
are there. It shows that the three kinds of overlap in `raced` are all there are.

`GateInvariance` with `GateTypes`, `SlotsAreAccounted`, `TableStaysBounded` and
`RatesAreBounded` (`HttpGate_proofs`): for any requests, slots, limits and clocks. The
invariant has a half for the semaphore (`SlotInv`) and one for the rates (`RateInv`): each
request that awaits Redis may still add a bucket, so the table and the calls under way
are bounded together (`CallInv`); each bucket has given no more than it had and time
gave back, where a late clock gives the same time twice (`BucketInv`); and Redis has
counted whatever it let through, so a lost reply only counts too much (`CountInv`).

`GuardInvariance` with `GuardTypes` and `FailuresStayOnRecord` (`HttpGate_proofs`, which takes up
`LoginGuard` because one setting bounds both tables): for any logins, addresses, emails,
entries, thresholds, levels and table sizes, with Redis in use or not. Neither property is
inductive. That a count stays within the wrong passwords there were needs the ones
still to be counted: `TallyOf` bounds, for each key, the requests that owe it a failure
together with the Redis count, and together with the count of each entry a thread may
still add to. That a local failure stays on record needs that an entry belongs to one key
(`Apart`), or a step for one key could drop or reset the record of another, as entries are
changed in place after the table let them go; an entry is made anew only where nothing
refers to it. `RedisRecord` says that what is owed is at most the remainder of the count,
plus one threshold for each request that has counted a hit and not blocked yet, so
the second pipeline, its failure with or without effect and a kill each take away
what the first one put there. `LocalRecord` says it of the entries of a key, in the table or held by a thread:
the residue is the number of pairs of an entry and a failure beyond its last block, so
dropping an entry takes its own pairs along and counting adds one pair or, at the
threshold, clears a row of them. Assumed are a threshold, a table and a level of at least one
and that keys with and without an address differ.

`PagesInvariance` with `PageTypes`, `PagesDriftByCommits` and `ListsStayAgreed`
(`TicketPages_proofs`): for any readers, tickets, lists, orders and page sizes. In an ordered
finite list the places are 0 to n - 1 without gaps, so OFFSET k passes k rows (`FirstCount`); and of the
rows that two versions of a list share in the same order, no more fall behind an OFFSET than
rows of one version only came before it (`Shift`). A commit keeps the order of the rows whose key it
leaves alone (`KeptOrder`). `WalkDrift` speaks of what was given and is not inductive: the
invariant `Drifted` says of a walk that goes on that the rows seen that lie ahead again,
with those given twice, are no more than came to a place, and that those that stayed,
are passed and were not seen are no more than left one. The agreement of
the lists needs that an archived ticket is the only cancelled one and that roles are disjoint.

The bounds are constants of the modules, and the theorems hold for every value
of them.

Only model-checked: liveness, as TLAPS 1.4.5 proves neither ENABLED nor fairness
(`EventuallyMoves`, `EventuallyServing`, `AnsweredUnlessStalled`). Every other
property of the passing runs is a theorem. `AnAdministratorRemains` and
`ChangesEndSessions` are violated by the code.

## 5. What the code does otherwise than it says

Two runs end in a violation that is a finding, with the sentence it contradicts in
`PROJECT.json`. In `accounts_two_admins` two administrators demote each other and none is
left. In `accounts_lost_version` two changes of an account both read version 1; the first
commits 2, a login is given a token with 2, the second commits 2 again, and that token
outlives the second change. When the second change gives the account the role of a
technician or an administrator, the token acts in that role without a second factor:
`PrivilegedByMfa` exempts it by name, as an ambiguous one.

Five more configurations of the same modules show, in a violation each, other sentences of the
documentation that the code does not keep under concurrency:

| configuration | module | what happens |
|---|---|---|
| `ReopensOnlyFinished.cfg` | `MCTicketLifecycle` | close or reopen writes over what committed since its read: a ticket is reopened twice |
| `CancelledHasNoNotifications.cfg` | `MCTicketLifecycle` | a notification written while the owner cancels belongs to an archived ticket |
| `ClosedTakesNoComment.cfg` | `MCTicketLifecycle` | a comment that passed its check is stored after the ticket was closed |
| `DeliveryOutboxStuck.cfg` | `MCDeliveryOutbox` | a crash in the last attempt leaves the delivery pending for ever |
| `StartupRace.cfg` | `MCStartupLock` | two processes find the same stale file and are inside together |

Two behaviours that no sentence denies, and that the properties therefore allow for by
name: two renamings of sectors that cross on a notice lose one of the new names
(`Crossed` in `TicketCatalog`), and parallel tries of a code count as one
(`overtaken` in `VerificationCodes`).

## 6. Not modelled

Text, formatting, SMTP, PDF pages, schema validation, response headers, the
audit trail (except its foreign key), migrations and the demo data tools keep no state that
a decision depends on, or only handle one request's data. The PDF, the report's figures
and the activity series are arithmetic over one query's result.

Inside the modelled components:

- tickets: the business hours of the SLA, the daily quota of images, the timeline's
  displayed order (`created_at`, the start of the transaction, may differ from the order
  of the event ids);
- lists: the searches, the filters by columns that no operation changes, the totals, the
  lists of accounts and of notifications; the orders by unchanged columns are one order,
  and an event's time is that of its commit;
- accounts: what a removal does to comments and notices, profile fields, the uniqueness
  of emails;
- notifications: reading, counting and paging of the inbox;
- codes: SQLite, which ignores the row locks;
- notices: the list's order and its cap of 50; the savepoint of `mark_notice_read`, for
  SQLite (on PostgreSQL the lock on the notice's row keeps two receipts apart); the sectors are official ones by assumption
  in `MaintenanceNotices` and follow the catalogue in `TicketCatalog`;
- limits: `consume_action_rate_limit` (one counter in one window), several processes
  with a fallback each;
- gate: the issue of the CSRF cookie, headers, CORS, what is logged; the time between
  the start and the end of a response.

## 7. Plan

Written so far, in this order: `TicketLifecycle` over `TicketClaim`, `DeliveryOutbox`,
`StartupLock`, `Accounts`, `VerificationCodes`, `MaintenanceNotices`, `TicketCatalog`,
`LoginGuard`, `HttpGate` and `TicketPages`, each with its proofs. What
is worth adding:

1. `consume_action_rate_limit`, the counter of one action in one window, and several processes with a local table each.
2. The composition of an account's removal with ticket operations under way: the tickets
   are listed, deleted and the account removed in separate statements.
3. The tickets' transactions composed with the outbox, and the inbox.
4. SLA deadlines and report counts as operators against reference definitions over
   bounded inputs.
