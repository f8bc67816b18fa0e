----------------------------- MODULE StartupLock -----------------------------
(***************************************************************************)
(* Processes of the API starting together on one host: main.py takes the   *)
(* lock file of app/services/system/startup_lock.py, migrates the database,*)
(* creates the first administrator (system/bootstrap.py), gives the lock   *)
(* back and serves.  A step is one system call on the lock file, one       *)
(* migration or one statement of create_initial_admin.                     *)
(***************************************************************************)
EXTENDS Naturals, FiniteSets

CONSTANTS Processes,
          NoFile,         \* there is no lock file
          StartsInTime,   \* a start ends within STARTUP_LOCK_STALE_SECONDS
          MaxCrashes      \* bound: processes killed while starting

ASSUME LockAssumption ==
  /\ NoFile \notin Processes
  /\ StartsInTime \in BOOLEAN
  /\ MaxCrashes \in Nat

Holding == {"migrate", "lookup", "insert", "release", "abandon"}

VARIABLES creator,   \* the process that created the lock file at the path
          stale,     \* the file is older than the limit
          pc,
          admin,     \* the administrator's row exists (its email is unique)
          crashes

lockVars == <<creator, stale, pc, admin, crashes>>

Goto(p, place) == pc' = [pc EXCEPT ![p] = place]

\* Mutant: the age of a removed file is remembered.
RemoveFileOnly == creator' = NoFile /\ UNCHANGED stale

RemoveFile == creator' = NoFile /\ stale' = FALSE

LockInit ==
  /\ creator = NoFile
  /\ stale = FALSE
  /\ pc = [p \in Processes |-> "open"]
  /\ admin = FALSE
  /\ crashes = 0

-----------------------------------------------------------------------------
(* _acquire_lock *)

\* Mutant: the file is opened without O_EXCL.
OpenShared(p) ==
  /\ pc[p] = "open"
  /\ creator' = p /\ stale' = FALSE /\ Goto(p, "migrate")
  /\ UNCHANGED <<admin, crashes>>

Open(p) ==
  /\ pc[p] = "open"
  /\ IF creator = NoFile
     THEN creator' = p /\ stale' = FALSE /\ Goto(p, "migrate")
     ELSE Goto(p, "stat") /\ UNCHANGED <<creator, stale>>
  /\ UNCHANGED <<admin, crashes>>

\* Mutant: a leftover file is never judged stale.
StatPatient(p) ==
  /\ pc[p] = "stat"
  /\ Goto(p, "wait")
  /\ UNCHANGED <<creator, stale, admin, crashes>>

\* _is_stale_lock; a file that is gone by now is not stale.
Stat(p) ==
  /\ pc[p] = "stat"
  /\ Goto(p, IF stale THEN "unlink" ELSE "wait")
  /\ UNCHANGED <<creator, stale, admin, crashes>>

\* The path is unlinked, whichever file is there by now.
Unlink(p) ==
  /\ pc[p] = "unlink"
  /\ RemoveFile
  /\ Goto(p, "open")
  /\ UNCHANGED <<admin, crashes>>

\* Past the deadline the start fails, before it the loop sleeps and tries again.
Wait(p) ==
  /\ pc[p] = "wait"
  /\ Goto(p, "open") \/ Goto(p, "down")
  /\ UNCHANGED <<creator, stale, admin, crashes>>

-----------------------------------------------------------------------------
(* The body of the with statement and its end. *)

Migrate(p) ==
  /\ pc[p] = "migrate"
  /\ Goto(p, "lookup")
  /\ UNCHANGED <<creator, stale, admin, crashes>>

LookUpAdmin(p) ==
  /\ pc[p] = "lookup"
  /\ Goto(p, IF admin THEN "release" ELSE "insert")
  /\ UNCHANGED <<creator, stale, admin, crashes>>

\* The unique email makes the insertion fail if another process made it first.
InsertAdmin(p) ==
  /\ pc[p] = "insert"
  /\ Goto(p, IF admin THEN "abandon" ELSE "release")
  /\ admin' = TRUE
  /\ UNCHANGED <<creator, stale, crashes>>

\* finally: the path is unlinked, also if the file there is another process's.
Release(p) ==
  /\ pc[p] \in {"release", "abandon"}
  /\ RemoveFile
  /\ Goto(p, IF pc[p] = "release" THEN "serving" ELSE "down")
  /\ UNCHANGED <<admin, crashes>>

-----------------------------------------------------------------------------
Crash(p) ==
  /\ crashes < MaxCrashes
  /\ pc[p] \notin {"down", "serving"}
  /\ Goto(p, "down")
  /\ crashes' = crashes + 1
  /\ UNCHANGED <<creator, stale, admin>>

\* The hosting service starts a process that ended again.
Restart(p) ==
  /\ pc[p] = "down"
  /\ Goto(p, "open")
  /\ UNCHANGED <<creator, stale, admin, crashes>>

Age ==
  /\ creator # NoFile
  /\ ~stale
  /\ StartsInTime => pc[creator] \notin Holding
  /\ stale' = TRUE
  /\ UNCHANGED <<creator, pc, admin, crashes>>

\* Every process serves: nothing more is started.
AllServing == (\A p \in Processes : pc[p] = "serving") /\ UNCHANGED lockVars

Step(p) ==
  \/ Open(p) \/ Stat(p) \/ Unlink(p) \/ Wait(p) \/ Migrate(p)
  \/ LookUpAdmin(p) \/ InsertAdmin(p) \/ Release(p) \/ Restart(p)

LockNext == (\E p \in Processes : Step(p) \/ Crash(p)) \/ Age \/ AllServing

LockSpec == LockInit /\ [][LockNext]_lockVars

\* A process runs on, the host restarts one that ended, and files get older.
FairLockSpec == LockSpec /\ WF_lockVars(Age) /\ \A p \in Processes : WF_lockVars(Step(p))

-----------------------------------------------------------------------------
\* Every variable keeps the shape of what it stands for; only a file has an age.
LockTypeOK ==
  /\ creator \in Processes \union {NoFile}
  /\ stale \in BOOLEAN
  /\ stale => creator # NoFile
  /\ pc \in [Processes -> Holding \union {"open", "stat", "unlink", "wait", "down",
                                          "serving"}]
  /\ admin \in BOOLEAN
  /\ crashes \in 0 .. MaxCrashes

\* startup_lock: "Evita corrida entre migracoes/admin inicial quando a hospedagem
\* inicia mais de um processo ao mesmo tempo": one process at a time is inside,
\* and the file at the path is the one it created.
OneStarts ==
  /\ \A p, q \in Processes : pc[p] \in Holding /\ pc[q] \in Holding => p = q
  /\ \A p \in Processes : pc[p] \in Holding => creator = p

\* The lock does its work until a process is killed while it starts.
OneUntilKilled == crashes = 0 => OneStarts

\* The strengthening its proof needs: until a kill nobody found the file stale,
\* and the file is there exactly while its creator is inside.
LockInv ==
  /\ LockTypeOK
  /\ crashes = 0 =>
       /\ OneStarts
       /\ ~stale
       /\ \A p \in Processes : pc[p] # "unlink"
       /\ creator # NoFile => pc[creator] \in Holding

\* A lock file left by a process that was killed does not keep the others from
\* starting for ever, although they give up after STARTUP_LOCK_TIMEOUT_SECONDS,
\* well before it counts as stale.
EventuallyServing == \A p \in Processes : <>(pc[p] = "serving")
=============================================================================
