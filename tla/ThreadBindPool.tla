--------------------------- MODULE ThreadBindPool ---------------------------
(***************************************************************************)
(* The pool of bound workers (coin-commons/utils/threadpool.{hpp,cpp}).    *)
(* Every worker has a queue of its own, filled under worker_lock_ and      *)
(* emptied by the worker alone without a lock. push_back and pop_front     *)
(* take effect with their store of tail and head, so each is one step; the *)
(* loads of is_working_ and of size() in run_ are steps of their own. A    *)
(* worker's mutex is held by it at "block", between the predicate of       *)
(* cv.wait and its sleep, and by others only for a notify.                 *)
(* Time stamps and the warnings made of them are left out.                 *)
(***************************************************************************)
EXTENDS Naturals, Sequences, FiniteSets

CONSTANTS Callers,      \* the threads that call into the pool
          Reserve,      \* reserve_, the size the pool is made with
          Capacity,     \* slots of a LockFreeQueue
          MaxTasks,     \* bound: tasks that are made
          Calls         \* the ways add_task_to is called: overload and index

Tasks == 1 .. MaxTasks
Workers == 0 .. Reserve          \* the index check lets reserve_ pass
Nobody == "nobody"
NoTask == 0

ASSUME PoolAssumption ==
  /\ Reserve \in Nat \ {0} /\ Capacity \in Nat \ {0} /\ MaxTasks \in Nat
  /\ Calls \subseteq [overload : {"ptr", "bind"}, index : Nat]
  /\ Callers \cap {Nobody} = {}

VARIABLES worker_lock_,  \* who holds it
          is_working_,
          workers_,      \* how many workers the vector has
          buffer, head, tail,
          run_,          \* where each worker's thread is, "none" without one
          task,          \* what it executes
          call,          \* what each caller is doing: the notify, or spin_once
          made,          \* tasks made so far
          phase,         \* of each task
          destructor,    \* where ~ThreadPool is
          watcher        \* where task_watcher_ is

queue == <<buffer, head, tail>>
poolVars == <<worker_lock_, is_working_, workers_, buffer, head, tail, run_, task,
              call, made, phase, destructor, watcher>>

callSide == <<worker_lock_, workers_, call, made>>
closing == <<is_working_, destructor, watcher>>

Idle == [op |-> "idle", worker |-> 0]

PoolInit ==
  /\ worker_lock_ = Nobody /\ is_working_ = TRUE /\ workers_ = 0
  /\ buffer = [w \in Workers |-> [i \in 0 .. Capacity - 1 |-> NoTask]]
  /\ head = [w \in Workers |-> 0] /\ tail = [w \in Workers |-> 0]
  /\ run_ = [w \in Workers |-> "none"]
  /\ task = [w \in Workers |-> NoTask]
  /\ call = [c \in Callers |-> Idle]
  /\ made = 0 /\ phase = [t \in Tasks |-> "new"]
  /\ destructor = [at |-> "none", worker |-> 0]
  /\ watcher = "loop"

size(w) == (tail[w] + Capacity - head[w]) % Capacity

Advance(i) == (i + 1) % Capacity

(* Mutant: the last slot is not kept free. *)
NeverFull(w) == FALSE

Full(w) == Advance(tail[w]) = head[w]

(* A push_back that finds no room is not noticed by anybody. *)
push_back(w, t) ==
  IF Full(w)
  THEN phase' = [phase EXCEPT ![t] = "dropped"] /\ UNCHANGED <<buffer, tail>>
  ELSE /\ buffer' = [buffer EXCEPT ![w][tail[w]] = t]
       /\ tail' = [tail EXCEPT ![w] = Advance(@)]
       /\ phase' = [phase EXCEPT ![t] = "queued"]

(* The worker a call is for; only one overload keeps the index in range. *)
Target(how) == IF how.overload = "bind" THEN how.index % Reserve ELSE how.index

(* add_task_to up to the notify: the workers below the index come to be without *)
(* a thread, the one it is for gets its thread with its first task. An index    *)
(* beyond reserve_ is refused, which changes nothing.                           *)
add_task_to(c, how) ==
  /\ call[c] = Idle /\ worker_lock_ = Nobody /\ made < MaxTasks
  /\ how.overload = "ptr" => how.index <= Reserve
  /\ made' = made + 1
  /\ LET w == Target(how)
     IN /\ push_back(w, made + 1)
        /\ workers_' = IF workers_ <= w THEN w + 1 ELSE workers_
        /\ run_' = [run_ EXCEPT ![w] = IF @ = "none" THEN "top" ELSE @]
        /\ call' = [call EXCEPT ![c] = [op |-> "notify", worker |-> w]]
  /\ worker_lock_' = c
  /\ UNCHANGED <<closing, head, task>>

MutexFree(w) == run_[w] # "block"

(* notify_one wakes the worker if it sleeps and is lost otherwise. *)
Woken(w) == [run_ EXCEPT ![w] = IF @ = "asleep" THEN "lock" ELSE @]

(* Mutant: a busy mutex is not waited for. *)
NotifyUnlocked(c) ==
  /\ call[c].op = "notify"
  /\ run_' = Woken(call[c].worker)
  /\ call' = [call EXCEPT ![c] = Idle]
  /\ worker_lock_' = Nobody
  /\ UNCHANGED <<closing, workers_, queue, task, made, phase>>

(* The end of add_task_to. *)
Notify(c) ==
  /\ call[c].op = "notify" /\ MutexFree(call[c].worker)
  /\ run_' = Woken(call[c].worker)
  /\ call' = [call EXCEPT ![c] = Idle]
  /\ worker_lock_' = Nobody
  /\ UNCHANGED <<closing, workers_, queue, task, made, phase>>

SpinOnce(c) ==
  /\ call[c] = Idle /\ worker_lock_ = Nobody /\ workers_ > 0
  /\ worker_lock_' = c
  /\ call' = [call EXCEPT ![c] = [op |-> "spin", worker |-> 0]]
  /\ UNCHANGED <<closing, workers_, queue, run_, task, made, phase>>

Waiting(w) == run_[w] \in {"lock", "block", "asleep"}    \* status == WAITING

(* One turn of spin_once's loop: a waiting worker that has tasks is notified. *)
SpinVisit(c) ==
  LET w == call[c].worker
      wake == Waiting(w) /\ size(w) > 0
      last == w + 1 = workers_
  IN /\ call[c].op = "spin"
     /\ wake => MutexFree(w)
     /\ run_' = IF wake THEN Woken(w) ELSE run_
     /\ call' = [call EXCEPT ![c] = IF last THEN Idle ELSE [@ EXCEPT !.worker = w + 1]]
     /\ worker_lock_' = IF last THEN Nobody ELSE worker_lock_
     /\ UNCHANGED <<closing, workers_, queue, task, made, phase>>

-----------------------------------------------------------------------------
Running == destructor.at # "crashed"

Goto(w, from, to) == Running /\ run_[w] = from /\ run_' = [run_ EXCEPT ![w] = to]

(* while(is_working_), of the outer loop and of the inner one. *)
Top(w) == /\ Goto(w, "top", IF is_working_ THEN "size" ELSE "exited")
          /\ UNCHANGED <<callSide, closing, queue, task, phase>>

pop_front(w) == /\ task' = [task EXCEPT ![w] = buffer[w][head[w]]]
                /\ head' = [head EXCEPT ![w] = Advance(@)]

(* size() and pop_front: only the worker itself takes tasks out. *)
PopFront(w) ==
  /\ size(w) > 0 /\ Goto(w, "size", "run") /\ pop_front(w)
  /\ phase' = [phase EXCEPT ![buffer[w][head[w]]] = "running"]
  /\ UNCHANGED <<callSide, closing, buffer, tail>>

(* An empty queue is looked at twice, and again under the mutex, and so is   *)
(* is_working_: it quits, or it is WAITING and about to lock its mutex.      *)
NoMore(w) ==
  /\ size(w) = 0 /\ Goto(w, "size", IF is_working_ THEN "lock" ELSE "exited")
  /\ UNCHANGED <<callSide, closing, queue, task, phase>>

TaskReturns(w) ==
  /\ Goto(w, "run", "top")
  /\ task' = [task EXCEPT ![w] = NoTask]
  /\ phase' = [phase EXCEPT ![task[w]] = "done"]
  /\ UNCHANGED <<callSide, closing, queue>>

(* Mutant: the predicate looks at the queue only. *)
PredicateTasksOnly(w) == size(w) > 0

Predicate(w) == size(w) > 0 \/ ~is_working_

(* cv.wait: the mutex is taken, the predicate evaluated, *)
WaitLock(w) ==
  /\ Goto(w, "lock", IF Predicate(w) THEN "top" ELSE "block")
  /\ UNCHANGED <<callSide, closing, queue, task, phase>>

(* ... and the worker sleeps, giving it up in the same step; *)
WaitBlock(w) ==
  /\ Goto(w, "block", "asleep")
  /\ UNCHANGED <<callSide, closing, queue, task, phase>>

(* a condition variable may also wake it for no reason. *)
SpuriousWake(w) ==
  /\ Goto(w, "asleep", "lock")
  /\ UNCHANGED <<callSide, closing, queue, task, phase>>

Work(w) == \/ Top(w) \/ PopFront(w) \/ NoMore(w) \/ TaskReturns(w) \/ WaitLock(w)
           \/ WaitBlock(w)

-----------------------------------------------------------------------------
(* task_watcher_ looks at the workers under worker_lock_ and only writes *)
(* messages; it matters because the destructor waits for it.             *)
task_watcher_ ==
  /\ Running /\ watcher = "loop" /\ ~is_working_
  /\ watcher' = "exited"
  /\ UNCHANGED <<callSide, is_working_, destructor, queue, run_, task, phase>>

(* ~ThreadPool; the program does not call into a pool it destroys. *)
Destroy ==
  /\ destructor.at = "none" /\ \A c \in Callers : call[c] = Idle
  /\ is_working_' = FALSE
  /\ destructor' = [at |-> "notify", worker |-> 0]
  /\ UNCHANGED <<callSide, queue, run_, task, phase, watcher>>

(* The loop over the workers that follows: the next one, or the next loop. *)
Following(next) ==
  IF destructor.worker + 1 < workers_
  THEN [destructor EXCEPT !.worker = @ + 1] ELSE [at |-> next, worker |-> 0]

DestroyNotify ==
  /\ destructor.at = "notify"
  /\ IF workers_ = 0
     THEN destructor' = [at |-> "watcher", worker |-> 0] /\ UNCHANGED run_
     ELSE /\ MutexFree(destructor.worker)
          /\ run_' = Woken(destructor.worker)
          /\ destructor' = Following("join")
  /\ UNCHANGED <<callSide, is_working_, queue, task, phase, watcher>>

(* A worker that was only made to fill the vector has no thread to join: the *)
(* null pointer is dereferenced.                                             *)
DestroyJoin ==
  /\ destructor.at = "join"
  /\ \/ run_[destructor.worker] = "exited" /\ destructor' = Following("watcher")
     \/ run_[destructor.worker] = "none" /\ destructor' = [destructor EXCEPT !.at = "crashed"]
  /\ UNCHANGED <<callSide, is_working_, queue, run_, task, phase, watcher>>

DestroyWatcher ==
  /\ destructor.at = "watcher" /\ watcher = "exited"
  /\ destructor' = [destructor EXCEPT !.at = "done"]
  /\ UNCHANGED <<callSide, is_working_, queue, run_, task, phase, watcher>>

(* What goes on inside the pool and its destructor whoever calls. *)
PoolStep ==
  \/ \E w \in Workers : Work(w) \/ SpuriousWake(w)
  \/ \E c \in Callers : Notify(c) \/ SpinVisit(c)
  \/ task_watcher_ \/ DestroyNotify \/ DestroyJoin \/ DestroyWatcher

Usable == destructor.at = "none"
=============================================================================
