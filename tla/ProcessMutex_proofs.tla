------------------------- MODULE ProcessMutex_proofs -------------------------
(***************************************************************************)
(* What TLAPS proves about ProcessMutex, for every number of processes and *)
(* every assignment of locking forms.                                      *)
(*                                                                         *)
(* The mutex is safe as long as nobody takes it through a timed guard, and *)
(* either no process dies or nobody takes it through a plain guard: these  *)
(* are the two forms that drop the result of the lock call.                *)
(***************************************************************************)
EXTENDS ProcessMutex, TLAPS

NoTimed == \A p \in Procs : "timed" \notin Client[p]

NoGuard == \A p \in Procs : "guard" \notin Client[p]

SafeUse == NoTimed /\ (MayCrash = {} \/ NoGuard)

(* A process that is taking the mutex does so in a way its client allows. *)
FormInv ==
  \A p \in Procs : pc[p] \notin {"idle"} \cup Dead => form[p] \in Client[p]

Quiet == \A p \in Procs : pc[p] # "crashed"

(* As long as nobody has crashed, the futex word, holder_pid_ and the       *)
(* control points agree.                                                    *)
QuietInv ==
  /\ lock_state = "consistent"
  /\ NoAbort
  /\ \A p \in Procs :
       /\ pc[p] \in {"sethold", "critical", "readholder", "clearholder", "release"}
            => lock_owner = p
       /\ pc[p] \in {"critical", "readholder", "clearholder"} => holder_pid_ = p

(* With deaths but without plain guards, the inconsistent state is only     *)
(* ever seen free, and the mutex is never lost.                             *)
RobustInv ==
  /\ lock_state # "notrecoverable"
  /\ lock_state = "inconsistent" => lock_owner = NoProc
  /\ \A p \in Procs : pc[p] \in {"sethold", "critical"} => lock_owner = p

Inv == TypeOK /\ FormInv /\ (Quiet => QuietInv)

-----------------------------------------------------------------------------
LEMMA TypeInit == Init => TypeOK
  BY MutexAssumption DEF Init, TypeOK, Forms, PCs, Dead

LEMMA TypeNext == TypeOK /\ [Next]_vars => TypeOK'
<1> SUFFICES ASSUME TypeOK, [Next]_vars PROVE TypeOK'
  OBVIOUS
<1> USE MutexAssumption DEF TypeOK, PCs, Dead, Forms, Goto
<1>1. CASE UNCHANGED vars
  BY <1>1 DEF vars
<1>2. ASSUME NEW p \in Procs, Begin(p) PROVE TypeOK'
  BY <1>2 DEF Begin
<1>3. ASSUME NEW p \in Procs, Proceed(p) PROVE TypeOK'
  <2>1. CASE Acquire(p)
    BY <2>1 DEF Acquire
  <2>2. CASE RecordHolder(p)
    BY <2>2 DEF RecordHolder
  <2>3. CASE Timeout(p)
    BY <2>3 DEF Timeout
  <2>4. CASE OwnerDead(p)
    BY <2>4 DEF OwnerDead
  <2>5. CASE NotRecoverable(p)
    BY <2>5 DEF NotRecoverable
  <2>6. CASE ExpiredArea(p)
    BY <2>6 DEF ExpiredArea, Consistent
  <2>7. CASE ExpiredPtr(p)
    BY <2>7 DEF ExpiredPtr
  <2>8. CASE Leave(p)
    BY <2>8 DEF Leave
  <2>9. CASE ReadHolder(p)
    BY <2>9 DEF ReadHolder, Die
  <2>10. CASE ClearHolder(p)
    BY <2>10 DEF ClearHolder
  <2>11. CASE Release(p)
    BY <2>11 DEF Release, Die
  <2> QED
    BY <1>3, <2>1, <2>2, <2>3, <2>4, <2>5, <2>6, <2>7, <2>8, <2>9, <2>10,
       <2>11 DEF Proceed
<1>4. ASSUME NEW p \in Procs, Crash(p) PROVE TypeOK'
  BY <1>4 DEF Crash, Die
<1> QED
  BY <1>1, <1>2, <1>3, <1>4 DEF Next

(* Every step leaves every other process where it was, and only Begin       *)
(* changes a form.                                                          *)
LEMMA FormNext == TypeOK /\ FormInv /\ [Next]_vars => FormInv'
<1> SUFFICES ASSUME TypeOK, FormInv, [Next]_vars PROVE FormInv'
  OBVIOUS
<1> USE MutexAssumption DEF TypeOK, FormInv, Goto, Dead
<1>1. CASE UNCHANGED vars
  BY <1>1 DEF vars
<1>2. ASSUME NEW p \in Procs, Begin(p) PROVE FormInv'
  BY <1>2 DEF Begin
<1>3. ASSUME NEW p \in Procs, Proceed(p) PROVE FormInv'
  <2>1. /\ form' = form
        /\ pc[p] \notin {"idle"} \cup Dead
        /\ \A q \in Procs : q # p => pc'[q] = pc[q]
    BY <1>3 DEF Proceed, Acquire, RecordHolder, Timeout, OwnerDead,
       NotRecoverable, ExpiredArea, ExpiredPtr, Leave, ReadHolder, ClearHolder,
       Release, Die
  <2> QED
    BY <2>1
<1>4. ASSUME NEW p \in Procs, Crash(p) PROVE FormInv'
  BY <1>4 DEF Crash, Die
<1> QED
  BY <1>1, <1>2, <1>3, <1>4 DEF Next

(* A crash is for ever. *)
LEMMA CrashStable == TypeOK /\ [Next]_vars /\ Quiet' => Quiet
<1> SUFFICES ASSUME TypeOK, [Next]_vars,
                    NEW q \in Procs, pc[q] = "crashed"
             PROVE  pc'[q] = "crashed"
  BY DEF Quiet
<1> USE DEF TypeOK, Goto, Dead
<1>1. CASE UNCHANGED vars
  BY <1>1 DEF vars
<1>2. ASSUME NEW p \in Procs, Begin(p) \/ Crash(p) PROVE pc'[q] = "crashed"
  BY <1>2 DEF Begin, Crash, Die
<1>3. ASSUME NEW p \in Procs, Proceed(p) PROVE pc'[q] = "crashed"
  BY <1>3 DEF Proceed, Acquire, RecordHolder, Timeout, OwnerDead,
     NotRecoverable, ExpiredArea, ExpiredPtr, Leave, ReadHolder, ClearHolder,
     Release, Die
<1> QED
  BY <1>1, <1>2, <1>3 DEF Next

LEMMA QuietNext ==
  ASSUME NoTimed, Inv, [Next]_vars
  PROVE  Quiet' => QuietInv'
<1> SUFFICES ASSUME Quiet' PROVE QuietInv'
  OBVIOUS
<1>1. TypeOK /\ FormInv /\ Quiet /\ QuietInv
  BY CrashStable DEF Inv
<1> USE <1>1, MutexAssumption DEF TypeOK, QuietInv, NoAbort, Goto, Dead
<1>2. CASE UNCHANGED vars
  BY <1>2 DEF vars
<1>3. ASSUME NEW p \in Procs, Begin(p) PROVE QuietInv'
  BY <1>3 DEF Begin
<1>4. ASSUME NEW p \in Procs, Proceed(p) PROVE QuietInv'
  <2>1. CASE Acquire(p)
    BY <2>1 DEF Acquire
  <2>2. CASE RecordHolder(p)
    BY <2>2 DEF RecordHolder
  <2>3. CASE Timeout(p)
    <3>1. form[p] # "timed"
      BY <2>3 DEF Timeout, FormInv, NoTimed
    <3> QED
      BY <2>3, <3>1 DEF Timeout
  <2>4. CASE OwnerDead(p)
    BY <2>4 DEF OwnerDead
  <2>5. CASE NotRecoverable(p)
    BY <2>5 DEF NotRecoverable
  <2>6. CASE ExpiredArea(p)
    BY <2>6 DEF ExpiredArea, Consistent
  <2>7. CASE ExpiredPtr(p)
    BY <2>7 DEF ExpiredPtr, Alive, Quiet
  <2>8. CASE Leave(p)
    BY <2>8 DEF Leave
  <2>9. CASE ReadHolder(p)
    BY <2>9 DEF ReadHolder
  <2>10. CASE ClearHolder(p)
    BY <2>10 DEF ClearHolder
  <2>11. CASE Release(p)
    BY <2>11 DEF Release
  <2> QED
    BY <1>4, <2>1, <2>2, <2>3, <2>4, <2>5, <2>6, <2>7, <2>8, <2>9, <2>10,
       <2>11 DEF Proceed
<1>5. ASSUME NEW p \in Procs, Crash(p) PROVE FALSE
  BY <1>5 DEF Crash, Die, Quiet
<1> QED
  BY <1>2, <1>3, <1>4, <1>5 DEF Next

LEMMA RobustNext ==
  ASSUME NoTimed, NoGuard, TypeOK, FormInv, RobustInv, [Next]_vars
  PROVE  RobustInv'
<1> USE MutexAssumption DEF TypeOK, RobustInv, Goto, Dead
<1>1. CASE UNCHANGED vars
  BY <1>1 DEF vars
<1>2. ASSUME NEW p \in Procs, Begin(p) PROVE RobustInv'
  BY <1>2 DEF Begin
<1>3. ASSUME NEW p \in Procs, Proceed(p) PROVE RobustInv'
  <2>0. form[p] \notin {"timed", "guard"}
    BY <1>3 DEF Proceed, Acquire, RecordHolder, Timeout, OwnerDead,
       NotRecoverable, ExpiredArea, ExpiredPtr, Leave, ReadHolder, ClearHolder,
       Release, FormInv, NoTimed, NoGuard
  <2>1. CASE Acquire(p)
    BY <2>1 DEF Acquire
  <2>2. CASE RecordHolder(p)
    BY <2>2 DEF RecordHolder
  <2>3. CASE Timeout(p)
    BY <2>0, <2>3 DEF Timeout
  <2>4. CASE OwnerDead(p)
    BY <2>0, <2>4 DEF OwnerDead
  <2>5. CASE NotRecoverable(p)
    BY <2>0, <2>5 DEF NotRecoverable
  <2>6. CASE ExpiredArea(p)
    BY <2>6 DEF ExpiredArea, Consistent
  <2>7. CASE ExpiredPtr(p)
    BY <2>7 DEF ExpiredPtr
  <2>8. CASE Leave(p)
    BY <2>8 DEF Leave
  <2>9. CASE ReadHolder(p)
    BY <2>9 DEF ReadHolder, Die
  <2>10. CASE ClearHolder(p)
    BY <2>10 DEF ClearHolder
  <2>11. CASE Release(p)
    BY <2>11 DEF Release, Die
  <2> QED
    BY <1>3, <2>1, <2>2, <2>3, <2>4, <2>5, <2>6, <2>7, <2>8, <2>9, <2>10,
       <2>11 DEF Proceed
<1>4. ASSUME NEW p \in Procs, Crash(p) PROVE RobustInv'
  BY <1>4 DEF Crash, Die
<1> QED
  BY <1>1, <1>2, <1>3, <1>4 DEF Next

-----------------------------------------------------------------------------
(* Every reachable state of the mutex words and control points is well      *)
(* formed, whatever the clients do and whoever dies.                        *)
THEOREM TypeCorrect == Spec => []TypeOK
<1>1. Init => TypeOK
  BY TypeInit
<1>2. TypeOK /\ [Next]_vars => TypeOK'
  BY TypeNext
<1> QED
  BY <1>1, <1>2, PTL DEF Spec

(* Without timed guards the invariant of the crash-free executions holds    *)
(* until the first crash.                                                   *)
LEMMA Invariance == ASSUME NoTimed PROVE Spec => []Inv
<1>1. Init => Inv
  BY TypeInit, MutexAssumption
     DEF Init, Inv, FormInv, QuietInv, NoAbort, Quiet
<1>2. Inv /\ [Next]_vars => Inv'
  BY TypeNext, FormNext, QuietNext DEF Inv
<1> QED
  BY <1>1, <1>2, PTL DEF Spec

(* Unless a timed guard is used, no abort() of unlock() or timedlock() is   *)
(* reached before some process has died.                                    *)
THEOREM AbortsFollowDeath == ASSUME NoTimed PROVE Spec => []AbortOnlyAfterDeath
<1>1. Inv => AbortOnlyAfterDeath
  BY DEF Inv, Quiet, QuietInv, NoAbort, AbortOnlyAfterDeath
<1> QED
  BY <1>1, Invariance, PTL

(* If moreover no process can die, the mutex excludes, holder_pid_ is right *)
(* about who is inside, and nobody aborts.                                  *)
THEOREM CrashFreeUse ==
  ASSUME NoTimed, MayCrash = {}
  PROVE  Spec => [](MutualExclusion /\ HolderHonest /\ NoAbort)
<1>1. Init => Quiet
  BY DEF Init, Quiet
<1>2. TypeOK /\ Quiet /\ [Next]_vars => Quiet'
  <2> SUFFICES ASSUME TypeOK, Quiet, [Next]_vars PROVE Quiet'
    OBVIOUS
  <2> USE DEF TypeOK, Quiet, Goto
  <2>1. CASE UNCHANGED vars
    BY <2>1 DEF vars
  <2>2. ASSUME NEW p \in Procs, Begin(p) PROVE Quiet'
    BY <2>2 DEF Begin
  <2>3. ASSUME NEW p \in Procs, Proceed(p) PROVE Quiet'
    BY <2>3 DEF Proceed, Acquire, RecordHolder, Timeout, OwnerDead,
       NotRecoverable, ExpiredArea, ExpiredPtr, Leave, ReadHolder, ClearHolder,
       Release, Die
  <2>4. ASSUME NEW p \in Procs, Crash(p) PROVE FALSE
    BY <2>4 DEF Crash
  <2> QED
    BY <2>1, <2>2, <2>3, <2>4 DEF Next
<1>3. Inv /\ Quiet => MutualExclusion /\ HolderHonest /\ NoAbort
  BY DEF Inv, QuietInv, MutualExclusion, HolderHonest
<1> QED
  BY <1>1, <1>2, <1>3, TypeCorrect, Invariance, PTL DEF Spec

(* Mutual exclusion for every safe use: without timed guards, and without   *)
(* plain guards if a process may die, at most one process is in the block,  *)
(* although waiters meddle with a mutex they do not own.                    *)
THEOREM SafeUseExcludes == ASSUME SafeUse PROVE Spec => []MutualExclusion
<1>1. CASE MayCrash = {}
  BY <1>1, CrashFreeUse, PTL DEF SafeUse
<1>2. CASE NoGuard
  <2>0. NoTimed
    BY DEF SafeUse
  <2>1. Init => RobustInv
    BY DEF Init, RobustInv
  <2>2. Inv /\ RobustInv /\ [Next]_vars => RobustInv'
    BY <1>2, <2>0, RobustNext DEF Inv
  <2>3. RobustInv => MutualExclusion
    BY DEF RobustInv, MutualExclusion
  <2>4. Spec => []Inv
    BY <2>0, Invariance
  <2> QED
    BY <2>1, <2>2, <2>3, <2>4, PTL DEF Spec
<1> QED
  BY <1>1, <1>2 DEF SafeUse
=============================================================================
