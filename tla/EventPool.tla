------------------------------ MODULE EventPool ------------------------------
(***************************************************************************)
(* The event pool (coin-commons/utils/event.{hpp,cpp}) over its            *)
(* ThreadBindPool. A thread of the program is in at most one call; a pool  *)
(* task bound by run_and_clear_all_ready_task holds only the raw pointer   *)
(* of the TaskBase that the deques own.                                    *)
(*                                                                         *)
(* The pool also takes Calls from threads that use it directly: more than  *)
(* either an EventPool's pool or a program's own pool meets, so that one   *)
(* model answers for both. (Names differ from those of Executor, so that   *)
(* Executor_proofs can speak of both.)                                     *)
(***************************************************************************)
EXTENDS ThreadBindPool

CONSTANTS Users,        \* the callers that use a pool directly
          Events,       \* the events that are pushed, by number
          MaxFired      \* bound: how often an event is found true

ASSUME EventAssumption == Events \subseteq Nat \ {0} /\ MaxFired \in Nat

VARIABLES event_deque_, ready_task_deque_,
          event_deque_mutex_, ready_task_deque_mutex_,   \* their holders
          doing,        \* what each caller does in the event pool
          invokes,      \* the event whose task a pool task invokes, or 0
          fired,        \* how often each event's task became ready
          cleared       \* and was thrown away by clear_all_ready_task

eventVars == <<event_deque_, ready_task_deque_, event_deque_mutex_, ready_task_deque_mutex_,
               doing, invokes, fired, cleared>>
eventPoolVars == <<poolVars, eventVars>>

Out == [op |-> "out", k |-> 0]

EventInit ==
  /\ PoolInit
  /\ event_deque_ = <<>> /\ ready_task_deque_ = <<>>
  /\ event_deque_mutex_ = Nobody /\ ready_task_deque_mutex_ = Nobody
  /\ doing = [c \in Callers |-> Out]
  /\ invokes = [t \in Tasks |-> 0]
  /\ fired = [e \in Events |-> 0] /\ cleared = [e \in Events |-> 0]

(* The caller has nothing under way in either class. *)
Free(c) == Usable /\ doing[c] = Out /\ call[c] = Idle

push_event(c) ==
  /\ Free(c) /\ event_deque_mutex_ = Nobody
  /\ \E e \in Events :
       /\ \A f \in Events : f < e => \E i \in DOMAIN event_deque_ : event_deque_[i] = f
       /\ \A i \in DOMAIN event_deque_ : event_deque_[i] # e
       /\ event_deque_' = Append(event_deque_, e)
  /\ UNCHANGED <<poolVars, ready_task_deque_, event_deque_mutex_, ready_task_deque_mutex_,
                 doing, invokes, fired, cleared>>

(* spin_once keeps the events' mutex for the whole loop. *)
Spin(c) ==
  /\ Free(c) /\ event_deque_mutex_ = Nobody /\ event_deque_ # <<>>
  /\ event_deque_mutex_' = c
  /\ doing' = [doing EXCEPT ![c] = [op |-> "spin", k |-> 1]]
  /\ UNCHANGED <<poolVars, event_deque_, ready_task_deque_, ready_task_deque_mutex_,
                 invokes, fired, cleared>>

(* One event is asked; if it is true its task becomes ready. Events stay. *)
SpinEvent(c) ==
  LET k == doing[c].k
      e == event_deque_[k]
      last == k = Len(event_deque_)
  IN /\ doing[c].op = "spin"
     /\ \/ UNCHANGED <<ready_task_deque_, fired>>
        \/ /\ ready_task_deque_mutex_ = Nobody /\ fired[e] < MaxFired
           /\ ready_task_deque_' = Append(ready_task_deque_, e)
           /\ fired' = [fired EXCEPT ![e] = @ + 1]
     /\ doing' = [doing EXCEPT ![c] = IF last THEN Out ELSE [@ EXCEPT !.k = k + 1]]
     /\ event_deque_mutex_' = IF last THEN Nobody ELSE c
     /\ UNCHANGED <<poolVars, event_deque_, ready_task_deque_mutex_, invokes, cleared>>

(* Mutant: the loop does not keep the mutex. *)
RunReadyUnlocked(c) ==
  /\ Free(c) /\ ready_task_deque_mutex_ = Nobody
  /\ doing' = [doing EXCEPT ![c] = [op |-> "run", k |-> 1]]
  /\ UNCHANGED <<poolVars, event_deque_, ready_task_deque_, event_deque_mutex_,
                 ready_task_deque_mutex_, invokes, fired, cleared>>

(* run_and_clear_all_ready_task: the mutex is taken, *)
RunReady(c) ==
  /\ Free(c) /\ ready_task_deque_mutex_ = Nobody
  /\ ready_task_deque_mutex_' = c
  /\ doing' = [doing EXCEPT ![c] = [op |-> "run", k |-> 1]]
  /\ UNCHANGED <<poolVars, event_deque_, ready_task_deque_, event_deque_mutex_,
                 invokes, fired, cleared>>

(* each ready task is added to worker 0 (whose notify follows as Notify), *)
RunAdd(c) ==
  LET k == doing[c].k
  IN /\ doing[c].op = "run" /\ k <= Len(ready_task_deque_)
     /\ add_task_to(c, [overload |-> "bind", index |-> 0])
     /\ invokes' = [invokes EXCEPT ![made + 1] = ready_task_deque_[k]]
     /\ doing' = [doing EXCEPT ![c].k = k + 1]
     /\ UNCHANGED <<event_deque_, ready_task_deque_, event_deque_mutex_, ready_task_deque_mutex_,
                    fired, cleared>>

(* and the deque emptied. *)
RunClear(c) ==
  /\ doing[c].op = "run" /\ call[c] = Idle /\ doing[c].k > Len(ready_task_deque_)
  /\ ready_task_deque_' = <<>>
  /\ ready_task_deque_mutex_' = Nobody
  /\ doing' = [doing EXCEPT ![c] = Out]
  /\ UNCHANGED <<poolVars, event_deque_, event_deque_mutex_, invokes, fired, cleared>>

InReady(e, from) == Cardinality({i \in from .. Len(ready_task_deque_) : ready_task_deque_[i] = e})

clear_all_ready_task(c) ==
  /\ Free(c) /\ ready_task_deque_mutex_ = Nobody /\ ready_task_deque_ # <<>>
  /\ cleared' = [e \in Events |-> cleared[e] + InReady(e, 1)]
  /\ ready_task_deque_' = <<>>
  /\ UNCHANGED <<poolVars, event_deque_, event_deque_mutex_, ready_task_deque_mutex_,
                 doing, invokes, fired>>

(* A direct use of the pool. *)
Direct(c) == /\ c \in Users /\ Free(c)
             /\ \/ \E how \in Calls : add_task_to(c, how)
                \/ SpinOnce(c)
             /\ UNCHANGED eventVars

Pool == PoolStep /\ UNCHANGED eventVars

(* ~EventPool: thread_pool_ is the last member, so it goes first. *)
DestroyPool == /\ \A c \in Callers : Free(c)
               /\ Destroy
               /\ UNCHANGED eventVars

(* Mutant: the pool goes last. *)
FreeDequesFirst ==
  /\ destructor.at \in {"notify", "join"} /\ event_deque_ # <<>>
  /\ event_deque_' = <<>> /\ ready_task_deque_' = <<>>
  /\ UNCHANGED <<poolVars, event_deque_mutex_, ready_task_deque_mutex_, doing, invokes,
                 fired, cleared>>

FreeDeques ==
  /\ destructor.at = "done" /\ event_deque_ # <<>>
  /\ event_deque_' = <<>> /\ ready_task_deque_' = <<>>
  /\ UNCHANGED <<poolVars, event_deque_mutex_, ready_task_deque_mutex_, doing, invokes,
                 fired, cleared>>

EventNext == \/ \E c \in Callers : \/ push_event(c) \/ Spin(c) \/ SpinEvent(c)
                                   \/ RunReady(c) \/ RunAdd(c) \/ RunClear(c)
                                   \/ clear_all_ready_task(c) \/ Direct(c)
             \/ Pool \/ DestroyPool \/ FreeDeques

EventSpec == EventInit /\ [][EventNext]_eventPoolVars

(* Threads that can run do, tasks return, a mutex given back is obtained, and *)
(* a destructor that was entered goes on. Nothing makes the program call.     *)
FairEventSpec ==
  /\ EventSpec
  /\ \A w \in Workers : WF_poolVars(Work(w))
  /\ \A c \in Callers : WF_poolVars(Notify(c))
  /\ WF_poolVars(task_watcher_)
  /\ WF_poolVars(DestroyNotify \/ DestroyJoin \/ DestroyWatcher)

-----------------------------------------------------------------------------
EventTypeOK ==
  /\ worker_lock_ \in Callers \cup {Nobody} /\ is_working_ \in BOOLEAN
  /\ workers_ \in 0 .. Reserve + 1 /\ made \in 0 .. MaxTasks
  /\ buffer \in [Workers -> [0 .. Capacity - 1 -> Tasks \cup {NoTask}]]
  /\ head \in [Workers -> 0 .. Capacity - 1] /\ tail \in [Workers -> 0 .. Capacity - 1]
  /\ run_ \in [Workers -> {"none", "top", "size", "run", "lock", "block", "asleep", "exited"}]
  /\ \A w \in Workers : task[w] # NoTask <=> run_[w] = "run"
  /\ phase \in [Tasks -> {"new", "dropped", "queued", "running", "done"}]
  /\ \A i \in DOMAIN ready_task_deque_ : ready_task_deque_[i] \in Events
  /\ doing \in [Callers -> [op : {"out", "spin", "run"}, k : Nat]]

(* Every time an event was found true its task is still ready, was cleared on *)
(* request, or was handed to the pool, once: none slips in between the loop   *)
(* of run_and_clear_all_ready_task and its clear(). The raw pointers handed   *)
(* over (event.cpp:30) never outlive the deques that own the tasks.           *)
ReadyIsHandedOnce ==
  LET from == IF \E c \in Callers : doing[c].op = "run"
              THEN doing[CHOOSE c \in Callers : doing[c].op = "run"].k ELSE 1
      handed(e) == Cardinality({t \in Tasks : invokes[t] = e})
  IN /\ EventTypeOK
     /\ event_deque_ # <<>> =>
          \A e \in Events : fired[e] = InReady(e, from) + handed(e) + cleared[e]
     /\ \A t \in Tasks :
          (invokes[t] # 0 /\ phase[t] = "running") =>
            \E i \in DOMAIN event_deque_ : event_deque_[i] = invokes[t]

(* A worker below an index that was used, never used itself (threadpool.cpp:109). *)
SkippedWorker == \E w \in 0 .. workers_ - 1 : run_[w] = "none"

(* An accepted task is run unless the pool is destroyed: no wake-up is lost     *)
(* between the push, which takes no mutex, and the worker's going to sleep.     *)
AcceptedIsRun ==
  \A t \in Tasks : phase[t] = "queued" ~> (phase[t] = "done" \/ ~is_working_)

(* ~ThreadPool returns: every worker hears of it wherever it is, and so does    *)
(* task_watcher_. With a worker that was skipped it dereferences null instead.  *)
DestroyReturns ==
  destructor.at = "notify" ~> (destructor.at = "done" \/ SkippedWorker)

Destroyed == destructor.at \in {"watcher", "done"}

(* The tasks that wait at each worker, first in first; those it executes; *)
(* those that are not made, and those that have returned.                 *)
Accepted == [w \in Workers |->
               IF Destroyed THEN <<>>
               ELSE [i \in 1 .. size(w) |-> buffer[w][(head[w] + i - 1) % Capacity]]]
Executing == [w \in Workers |-> {task[w]} \ {NoTask}]
Unmade == {t \in Tasks : phase[t] = "new"}
Returned == {t \in Tasks : phase[t] = "done"}

Service == INSTANCE TaskService WITH
  Room <- Capacity - 1, waiting <- Accepted, busy <- Executing,
  fresh <- Unmade, done <- Returned, closed <- Destroyed

(* The pool is the service TaskService describes: accepted tasks are run in *)
(* order and once, are lost only at a full queue, and none is under way or  *)
(* starts once the destructor has joined the workers.                       *)
Implements == Service!Spec
=============================================================================
