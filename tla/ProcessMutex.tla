---------------------------- MODULE ProcessMutex ----------------------------
(***************************************************************************)
(* The cross-process mutex of ShmMemory (impl/shm_memory.{hpp,cpp}): a     *)
(* robust, error-checking, process-shared pthread mutex together with the  *)
(* two words the C++ class keeps beside it in shared memory, holder_pid_   *)
(* and is_died_, and the four ways the library takes it:                   *)
(*                                                                         *)
(*   "guard"  ProcessLockGuard(m)        lock(), result ignored            *)
(*   "timed"  ProcessLockGuard(m, ms)    timedlock(ms), result ignored     *)
(*   "area"   ProcessLockArea(m, f, g)   retry while the holder is alive   *)
(*   "ptr"    ShmSharedPtr::lock_        retry, unlock() for a dead holder *)
(*                                                                         *)
(* Every load and store of holder_pid_ and every pthread call is a step of *)
(* its own, because other processes run between them.                      *)
(***************************************************************************)
EXTENDS Integers

CONSTANTS Procs,      \* the processes that map the segment, one thread each
          Owner,      \* owener_pid_: the process that constructed the mutex
          NoProc,     \* pid 0
          Client,     \* the ways each process takes the mutex
          MayCrash    \* the processes that may die at any step

Forms == {"guard", "timed", "area", "ptr"}

ASSUME MutexAssumption ==
  /\ Owner \in Procs
  /\ NoProc \notin Procs
  /\ Client \in [Procs -> SUBSET Forms]
  /\ MayCrash \subseteq Procs

VARIABLES lock_owner,  \* the thread id in the futex word of mutex_
          lock_state,  \* its robust state
          holder_pid_,
          is_died_,
          pc,          \* control point of each process
          form         \* how it is taking the mutex now

vars == <<lock_owner, lock_state, holder_pid_, is_died_, pc, form>>

Dead == {"crashed", "aborted"}

PCs == {"idle", "wait", "sethold", "critical", "expired",
        "readholder", "clearholder", "release"} \cup Dead

(* kill(pid, 0) == 0; pid 0 addresses the caller's own group, which exists. *)
Alive(pid) == pid = NoProc \/ pc[pid] \notin Dead

Goto(p, where) == pc' = [pc EXCEPT ![p] = where]

(* The kernel's robust list: a thread that dies owning the mutex leaves it  *)
(* free and marked, so that the next pthread_mutex_lock returns EOWNERDEAD. *)
Die(p, how) ==
  /\ Goto(p, how)
  /\ IF lock_owner = p
       THEN /\ lock_owner' = NoProc
            /\ lock_state' = "inconsistent"
       ELSE UNCHANGED <<lock_owner, lock_state>>

-----------------------------------------------------------------------------
(* ProcessMutex(): holder_pid_ = 0, is_died_ = false, mutex_ initialised. *)
Init ==
  /\ lock_owner = NoProc
  /\ lock_state = "consistent"
  /\ holder_pid_ = NoProc
  /\ is_died_ = FALSE
  /\ pc = [p \in Procs |-> "idle"]
  /\ form = [p \in Procs |-> "area"]

Begin(p) ==
  /\ pc[p] = "idle"
  /\ \E f \in Client[p] : form' = [form EXCEPT ![p] = f]
  /\ Goto(p, "wait")
  /\ UNCHANGED <<lock_owner, lock_state, holder_pid_, is_died_>>

(* Mutant: the holder is not recorded. *)
AcquireUnrecorded(p) ==
  /\ pc[p] = "wait"
  /\ lock_owner = NoProc
  /\ lock_state = "consistent"
  /\ lock_owner' = p
  /\ Goto(p, "critical")
  /\ UNCHANGED <<lock_state, holder_pid_, is_died_, form>>

(* pthread_mutex_lock or pthread_mutex_timedlock returns 0. *)
Acquire(p) ==
  /\ pc[p] = "wait"
  /\ lock_owner = NoProc
  /\ lock_state = "consistent"
  /\ lock_owner' = p
  /\ Goto(p, "sethold")
  /\ UNCHANGED <<lock_state, holder_pid_, is_died_, form>>

(* holder_pid_ = getpid(). A lock area that finds is_died_ set calls        *)
(* failed_func instead of locked_func, and unlocks.                         *)
RecordHolder(p) ==
  /\ pc[p] = "sethold"
  /\ holder_pid_' = p
  /\ Goto(p, IF form[p] = "area" /\ is_died_ THEN "readholder" ELSE "critical")
  /\ UNCHANGED <<lock_owner, lock_state, is_died_, form>>

(* Mutant: a lock area enters its block after a timeout. *)
TimeoutEnters(p) ==
  /\ pc[p] = "wait"
  /\ form[p] # "guard"
  /\ lock_owner # NoProc
  /\ Goto(p, IF form[p] = "ptr" THEN "expired" ELSE "critical")
  /\ UNCHANGED <<lock_owner, lock_state, holder_pid_, is_died_, form>>

(* pthread_mutex_timedlock returns ETIMEDOUT. The guard's constructor drops *)
(* the result, so the guarded block runs all the same.                      *)
Timeout(p) ==
  /\ pc[p] = "wait"
  /\ form[p] # "guard"
  /\ lock_owner # NoProc
  /\ Goto(p, IF form[p] = "timed" THEN "critical" ELSE "expired")
  /\ UNCHANGED <<lock_owner, lock_state, holder_pid_, is_died_, form>>

(* EOWNERDEAD: the caller owns the inconsistent mutex. lock() reports false *)
(* to a guard that does not look; timedlock() aborts.                       *)
OwnerDead(p) ==
  /\ pc[p] = "wait"
  /\ lock_owner = NoProc
  /\ lock_state = "inconsistent"
  /\ IF form[p] = "guard"
       THEN /\ lock_owner' = p
            /\ Goto(p, "critical")
       ELSE /\ UNCHANGED lock_owner
            /\ Goto(p, "aborted")
  /\ UNCHANGED <<lock_state, holder_pid_, is_died_, form>>

(* ENOTRECOVERABLE: lock() reports false, timedlock() aborts. *)
NotRecoverable(p) ==
  /\ pc[p] = "wait"
  /\ lock_state = "notrecoverable"
  /\ Goto(p, IF form[p] = "guard" THEN "critical" ELSE "aborted")
  /\ UNCHANGED <<lock_owner, lock_state, holder_pid_, is_died_, form>>

(* The test by which a waiting lock area decides to go on waiting. *)
HolderStillWorking == holder_pid_ # NoProc /\ Alive(holder_pid_)

(* pthread_mutex_consistent: EINVAL unless some process owns the mutex in   *)
(* its inconsistent state, and then it becomes consistent whoever calls.    *)
Consistent ==
  lock_state' = IF lock_state = "inconsistent" /\ lock_owner # NoProc
                  THEN "consistent" ELSE lock_state

(* The body of the while loop of ProcessLockArea after a timeout. *)
ExpiredArea(p) ==
  /\ pc[p] = "expired"
  /\ form[p] = "area"
  /\ IF HolderStillWorking
       THEN /\ Goto(p, "wait")
            /\ UNCHANGED <<lock_state, is_died_>>
       ELSE /\ Consistent
            /\ is_died_' = (is_died_ \/ ~Alive(Owner))
            /\ Goto(p, "idle")
  /\ UNCHANGED <<lock_owner, holder_pid_, form>>

(* Mutant: the holder is taken for dead without asking. *)
ExpiredPtrUnasked(p) ==
  /\ pc[p] = "expired"
  /\ form[p] = "ptr"
  /\ Goto(p, "readholder")
  /\ UNCHANGED <<lock_owner, lock_state, holder_pid_, is_died_, form>>

(* The body of the while loop of ShmSharedPtr::lock_ after a timeout: for a *)
(* dead holder it calls unlock() on a mutex it does not own.                *)
ExpiredPtr(p) ==
  /\ pc[p] = "expired"
  /\ form[p] = "ptr"
  /\ Goto(p, IF Alive(holder_pid_) THEN "wait" ELSE "readholder")
  /\ UNCHANGED <<lock_owner, lock_state, holder_pid_, is_died_, form>>

(* Mutant: the block is left without unlocking. *)
LeaveLocked(p) ==
  /\ pc[p] = "critical"
  /\ Goto(p, "idle")
  /\ UNCHANGED <<lock_owner, lock_state, holder_pid_, is_died_, form>>

Leave(p) ==
  /\ pc[p] = "critical"
  /\ Goto(p, "readholder")
  /\ UNCHANGED <<lock_owner, lock_state, holder_pid_, is_died_, form>>

(* unlock(): abort when holder_pid_ == 0 ... *)
ReadHolder(p) ==
  /\ pc[p] = "readholder"
  /\ IF holder_pid_ = NoProc
       THEN Die(p, "aborted")
       ELSE /\ Goto(p, "clearholder")
            /\ UNCHANGED <<lock_owner, lock_state>>
  /\ UNCHANGED <<holder_pid_, is_died_, form>>

(* ... holder_pid_ = 0 ... *)
ClearHolder(p) ==
  /\ pc[p] = "clearholder"
  /\ holder_pid_' = NoProc
  /\ Goto(p, "release")
  /\ UNCHANGED <<lock_owner, lock_state, is_died_, form>>

(* Mutant: EPERM from pthread_mutex_unlock is ignored. *)
ReleaseUnchecked(p) ==
  /\ pc[p] = "release"
  /\ Goto(p, "idle")
  /\ lock_owner' = IF lock_owner = p THEN NoProc ELSE lock_owner
  /\ UNCHANGED <<lock_state, holder_pid_, is_died_, form>>

(* ... pthread_mutex_unlock: EPERM unless the caller owns the mutex, and    *)
(* any error aborts. An inconsistent mutex that is unlocked is lost.        *)
Release(p) ==
  /\ pc[p] = "release"
  /\ IF lock_owner = p
       THEN /\ lock_owner' = NoProc
            /\ lock_state' = IF lock_state = "inconsistent"
                               THEN "notrecoverable" ELSE lock_state
            /\ Goto(p, "idle")
       ELSE Die(p, "aborted")
  /\ UNCHANGED <<holder_pid_, is_died_, form>>

Crash(p) ==
  /\ p \in MayCrash
  /\ pc[p] \notin Dead
  /\ Die(p, "crashed")
  /\ UNCHANGED <<holder_pid_, is_died_, form>>

-----------------------------------------------------------------------------
(* What a process does once it has started to take the mutex. *)
Proceed(p) ==
  \/ Acquire(p)
  \/ RecordHolder(p)
  \/ Timeout(p)
  \/ OwnerDead(p)
  \/ NotRecoverable(p)
  \/ ExpiredArea(p)
  \/ ExpiredPtr(p)
  \/ Leave(p)
  \/ ReadHolder(p)
  \/ ClearHolder(p)
  \/ Release(p)

Next == \E p \in Procs : Begin(p) \/ Proceed(p) \/ Crash(p)

Spec == Init /\ [][Next]_vars

(* A live process keeps running: guarded blocks and callbacks terminate. *)
FairSpec == Spec /\ \A p \in Procs : WF_vars(Proceed(p))

-----------------------------------------------------------------------------
TypeOK ==
  /\ lock_owner \in Procs \cup {NoProc}
  /\ lock_state \in {"consistent", "inconsistent", "notrecoverable"}
  /\ holder_pid_ \in Procs \cup {NoProc}
  /\ is_died_ \in BOOLEAN
  /\ pc \in [Procs -> PCs]
  /\ form \in [Procs -> Forms]

(* At most one process is inside the block the mutex guards, although the   *)
(* callers ignore lock failures, and although a lock area and a shared      *)
(* pointer act on a mutex they do not own when they think its holder died   *)
(* (pthread_mutex_consistent, unlock).                                      *)
MutualExclusion ==
  \A p, q \in Procs : pc[p] = "critical" /\ pc[q] = "critical" => p = q

(* While a process is inside the block, holder_pid_ names that process: the *)
(* waiters' kill(holder(), 0) asks about the right one, even after deaths   *)
(* and after an unlock() on behalf of a dead holder.                        *)
HolderHonest ==
  \A p \in Procs : pc[p] = "critical" => holder_pid_ = p

(* No call ends the process: none of the abort() calls of unlock() and      *)
(* timedlock() is reached.                                                  *)
NoAbort == \A p \in Procs : pc[p] # "aborted"

(* The abort() calls are reached only once some process has died while      *)
(* using the mutex; until then every lock area and shared pointer returns.  *)
AbortOnlyAfterDeath ==
  (\E p \in Procs : pc[p] = "aborted") => \E q \in Procs : pc[q] = "crashed"

(* The mutex is never held for ever: every owner gives it back, or, dying,  *)
(* the kernel takes it from it.                                             *)
EventuallyReleased == []<>(lock_owner = NoProc)

(* A guard whose timedlock() failed runs its block without the mutex, but   *)
(* never survives it: unlock() finds holder_pid_ cleared or gets EPERM, and *)
(* the process aborts before it can use the data again.                     *)
FailStop ==
  \A p \in Procs :
    pc[p] = "critical" /\ lock_owner # p ~> pc[p] \in Dead
=============================================================================
