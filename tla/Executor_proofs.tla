--------------------------- MODULE Executor_proofs ---------------------------
(***************************************************************************)
(* What TLAPS proves about the tasks and the programs that coin-commons    *)
(* runs. First the Executor, for any number of children, descriptors and   *)
(* files of other code: which files it closes, and what a shutdown leaves  *)
(* behind. Then the event pool with its thread pool, for any number of     *)
(* callers, workers, slots, events and tasks: no ready task is handed over *)
(* twice or outlived, and the pool implements TaskService.                 *)
(***************************************************************************)
EXTENDS Executor, EventPool, FiniteSetTheorems, SequenceTheorems, TLAPS

(* The program's thread has joined the worker, and has not started another. *)
Joined == main \in {"launch", "joinMonitor", "read", "blocked", "close"} => worker_ = "none"

(* The children are launched one after the other. *)
InOrder ==
  /\ main \in {"join", "launch"} => launched < MaxRuns
  /\ child_pid_ \in {-1, 0, launched}
  /\ \A f \in Fds : file[f] \in Runs => file[f] <= launched
  /\ \A r \in Runs : r > launched => ended[r] = "no"

(* The terminal of the last child has one descriptor here, master_fd_, unless *)
(* it is descriptor 0; the worker has closed it when it is about to forget it. *)
OneTerminal ==
  /\ master_fd_ # 0 => launched # 0
  /\ launched # 0 => \A f \in Fds \ {0} : file[f] = launched => f = master_fd_
  /\ worker_ = "zero" => launched # 0 /\ file[master_fd_] # launched

(* shutdown has waited for the child when it forgets it. *)
WaitedFor ==
  /\ child_pid_ \in Runs => proc[child_pid_] # "none"
  /\ main = "clear" /\ child_pid_ \in Runs => proc[child_pid_] = "reaped"
  /\ \A r \in Runs : ended[r] = "shutdown" => proc[r] = "reaped"

(* No descriptor of a child that was shut down is left, but in the shutdown. *)
Released ==
  \A r \in Runs :
    ended[r] = "shutdown" /\ (r # launched \/ main \in {"idle", "join", "launch"})
      => \A f \in Fds \ {0} : file[f] # r

Inv == UsesOwn /\ Joined /\ InOrder /\ OneTerminal /\ WaitedFor /\ Released

-----------------------------------------------------------------------------
(* What a descriptor refers to is of one kind. *)
LEMMA Kinds ==
  /\ Runs \subseteq Nat \ {0} /\ 0 \in Fds /\ Fds \subseteq Nat
  /\ Closed \notin Runs \cup Strangers \cup {Stdin}
  /\ Stdin \notin Runs /\ Strangers \cap Runs = {}
  BY ExecutorAssumption DEF Runs, Fds, Closed, Stdin, Strangers

LEMMA InvInit == Init => Inv
  BY Kinds, ExecutorAssumption
  DEF Init, Inv, UsesOwn, TypeOK, Joined, InOrder, OneTerminal, WaitedFor, Released, Closed

LEMMA ExitInv == ASSUME Inv, NEW r \in Runs, Exit(r) PROVE Inv'
<1> USE Kinds DEF Inv, Exit, members, past
<1>1. UsesOwn' /\ Joined' /\ InOrder' /\ OneTerminal'
  <2>1. tty' \in [Runs -> BOOLEAN]
    BY DEF UsesOwn, TypeOK
  <2>2. UsesOwn' /\ Joined'
    <3>1. proc' \in [Runs -> {"none", "forked", "up", "dying", "zombie", "reaped"}]
      BY DEF UsesOwn, TypeOK
    <3>2. TypeOK'
      BY <2>1, <3>1 DEF UsesOwn, TypeOK
    <3>3. UsesOwn'
      BY <3>2 DEF UsesOwn
    <3>4. Joined'
      BY DEF Joined
    <3> QED
      BY <3>3, <3>4
  <2>3. InOrder'
    BY DEF InOrder
  <2>4. OneTerminal'
    BY DEF OneTerminal
  <2> QED
    BY <2>2, <2>3, <2>4
<1>2. WaitedFor' /\ Released'
  BY DEF UsesOwn, TypeOK, WaitedFor, Released
<1> QED
  BY <1>1, <1>2

LEMMA OpenStrangerInv ==
  ASSUME Inv, NEW s \in Strangers, OpenStranger(s)
  PROVE  Inv'
<1> USE Kinds DEF Inv
<1>1. PICK f \in Fds : file[f] = Closed /\ file' = [file EXCEPT ![f] = s]
  BY DEF OpenStranger, Open, Unused
<1>2. UNCHANGED <<members, worker_, monitor, main, child, past, wrong>>
  BY DEF OpenStranger
<1>3. s \notin Runs /\ launched \in Nat /\ launched # s
  BY ExecutorAssumption DEF UsesOwn, TypeOK, Strangers, Runs
<1>4. UsesOwn'
  BY <1>1, <1>2, <1>3 DEF UsesOwn, TypeOK, OneTerminal, members, child, past, Closed
<1>5. Joined' /\ InOrder' /\ OneTerminal' /\ WaitedFor'
  BY <1>1, <1>2, <1>3
  DEF UsesOwn, TypeOK, Joined, InOrder, OneTerminal, WaitedFor, members, child, past
<1>6. Released'
  BY <1>1, <1>2, <1>3 DEF UsesOwn, TypeOK, Released, members, child, past
<1> QED
  BY <1>4, <1>5, <1>6

LEMMA ExecuteInv == Inv /\ Execute => Inv'
<1> SUFFICES ASSUME Inv, Execute PROVE Inv'
  OBVIOUS
<1> USE Kinds DEF Inv, Execute, child, past
<1>1. isrunning_' \in BOOLEAN /\ main' \in {"launch", "join"}
  BY DEF UsesOwn, TypeOK
<1>2. worker_ # "none" => main' = "join"
  OBVIOUS
<1>3. UsesOwn' /\ Joined'
  BY <1>1, <1>2 DEF UsesOwn, TypeOK, Joined
<1>4. InOrder' /\ OneTerminal' /\ WaitedFor' /\ Released'
  BY <1>1 DEF InOrder, OneTerminal, WaitedFor, Released
<1> QED
  BY <1>3, <1>4

(* The new child's terminal gets a descriptor that nothing had, and becomes the *)
(* last child's; what the previous one still has open here is forgotten.        *)
LEMMA LaunchInv == Inv /\ Launch => Inv'
<1> SUFFICES ASSUME Inv, Launch PROVE Inv'
  OBVIOUS
<1> DEFINE new == launched + 1
<1> USE Kinds DEF Inv
<1>1. PICK f \in Fds : /\ file[f] = Closed /\ file' = [file EXCEPT ![f] = new]
                       /\ master_fd_' = f
  BY DEF Launch, Open, Unused
<1>0. PICK forked \in BOOLEAN :
        /\ proc' = [r \in Runs |-> IF r = new /\ forked THEN "forked"
                                   ELSE IF r = child_pid_ /\ proc[r] = "up" THEN "dying"
                                   ELSE proc[r]]
        /\ ended' = [r \in Runs |-> IF r = child_pid_ THEN "replaced" ELSE ended[r]]
        /\ tty' = [tty EXCEPT ![new] = forked]
        /\ child_pid_' = (IF forked THEN new ELSE -1) /\ launched' = new
  BY DEF Launch
<1>2. /\ child_pid_' \in {-1, new} /\ launched' = new /\ isrunning_' = TRUE /\ worker_' = "loop"
      /\ main = "launch" /\ main' = "idle" /\ UNCHANGED <<exit_code_, monitor, wrong>>
  BY <1>0 DEF Launch
<1>3. /\ proc' \in [Runs -> {"none", "forked", "up", "dying", "zombie", "reaped"}]
      /\ \A r \in Runs : proc[r] = "reaped" /\ r # new => proc'[r] = "reaped"
      /\ child_pid_' \in Runs => proc'[child_pid_'] = "forked"
      /\ ended' = [r \in Runs |-> IF r = child_pid_ THEN "replaced" ELSE ended[r]]
      /\ tty' \in [Runs -> BOOLEAN]
  <2>1. new \in Nat /\ -1 \notin Runs
    BY ExecutorAssumption DEF UsesOwn, TypeOK, Runs
  <2>2. proc' \in [Runs -> {"none", "forked", "up", "dying", "zombie", "reaped"}]
    BY <1>0 DEF UsesOwn, TypeOK
  <2>3. \A r \in Runs : proc[r] = "reaped" /\ r # new => proc'[r] = "reaped"
    BY <1>0
  <2>4. child_pid_' \in Runs => proc'[child_pid_'] = "forked"
    BY <1>0, <2>1
  <2>5. tty' \in [Runs -> BOOLEAN]
    BY <1>0 DEF UsesOwn, TypeOK
  <2> QED
    BY <1>0, <2>2, <2>3, <2>4, <2>5
<1>4. worker_ = "none"
  BY <1>2 DEF Joined
<1>5. new \in Runs /\ new # child_pid_ /\ launched \in Nat
  BY <1>2, ExecutorAssumption DEF UsesOwn, TypeOK, InOrder, Runs
<1>6. \A g \in Fds : file[g] # new
  BY <1>5 DEF InOrder, UsesOwn, TypeOK
<1>7. TypeOK'
  BY <1>1, <1>2, <1>3, <1>5, ExecutorAssumption DEF UsesOwn, TypeOK, Runs
<1>8. UsesOwn'
  BY <1>1, <1>2, <1>7 DEF UsesOwn, TypeOK
<1>9. Joined' /\ InOrder'
  <2>1. \A g \in Fds : file'[g] \in Runs => file'[g] <= new
    <3> SUFFICES ASSUME NEW g \in Fds, file'[g] \in Runs PROVE file'[g] <= new
      OBVIOUS
    <3>1. CASE g = f
      BY <1>1, <1>5, <3>1 DEF UsesOwn, TypeOK
    <3>2. CASE g # f
      <4>1. file'[g] = file[g]
        BY <1>1, <3>2 DEF UsesOwn, TypeOK
      <4>2. file[g] \in Nat /\ file[g] <= launched
        BY <4>1 DEF InOrder
      <4> QED
        BY <4>1, <4>2, <1>5
    <3> QED
      BY <3>1, <3>2
  <2>2. \A r \in Runs : r > new => ended'[r] = "no"
    BY <1>3, <1>5 DEF UsesOwn, TypeOK, InOrder
  <2> QED
    BY <1>2, <2>1, <2>2 DEF Joined, InOrder
<1>10. OneTerminal'
  BY <1>1, <1>2, <1>5, <1>6 DEF UsesOwn, TypeOK, OneTerminal
<1>11. WaitedFor'
  BY <1>2, <1>3, <1>5 DEF UsesOwn, TypeOK, WaitedFor, InOrder
<1>12. Released'
  <2> SUFFICES ASSUME NEW r \in Runs, ended'[r] = "shutdown", NEW g \in Fds \ {0}
               PROVE  file'[g] # r
    BY DEF Released
  <2>1. ended[r] = "shutdown" /\ r # new
    BY <1>3, <1>5 DEF InOrder
  <2>2. file[g] # r
    BY <2>1, <1>2 DEF Released
  <2> QED
    BY <2>1, <2>2, <1>1 DEF UsesOwn, TypeOK
<1> QED
  BY <1>8, <1>9, <1>10, <1>11, <1>12

(* Only a terminal can be hung up, so only a terminal is closed for it. *)
LEMMA WorkerReadFailsInv == Inv /\ WorkerReadFails => Inv'
<1> SUFFICES ASSUME Inv, WorkerReadFails PROVE Inv'
  OBVIOUS
<1> USE Kinds DEF Inv
<1>1. /\ worker_ \in {"read", "blocked"} /\ worker_' \in {"loop", "zero"} /\ isrunning_' = FALSE
      /\ UNCHANGED <<master_fd_, child_pid_, exit_code_, monitor, main, proc, tty, launched, ended>>
  BY DEF WorkerReadFails, WorkerAt, child, past
<1>2. \/ master_fd_ = 0 /\ worker_' = "loop" /\ UNCHANGED <<file, wrong>>
      \/ /\ master_fd_ # 0 /\ worker_' = "zero" /\ wrong' = wrong
         /\ file' = [file EXCEPT ![master_fd_] = Closed]
  BY DEF WorkerReadFails, HungUp, Close
<1>3. UsesOwn'
  <2>1. TypeOK'
    BY <1>1, <1>2 DEF UsesOwn, TypeOK
  <2> QED
    BY <1>1, <1>2, <2>1 DEF UsesOwn
<1>4. Joined' /\ InOrder'
  BY <1>1, <1>2 DEF UsesOwn, TypeOK, Joined, InOrder, Closed
<1>5. OneTerminal'
  BY <1>1, <1>2 DEF UsesOwn, TypeOK, OneTerminal, Closed
<1>6. WaitedFor' /\ Released'
  BY <1>1, <1>2 DEF UsesOwn, TypeOK, WaitedFor, Released, Closed
<1> QED
  BY <1>3, <1>4, <1>5, <1>6

LEMMA ShutdownClearInv == Inv /\ ShutdownClear => Inv'
<1> SUFFICES ASSUME Inv, ShutdownClear PROVE Inv'
  OBVIOUS
<1> USE Kinds DEF Inv, ShutdownClear, child
<1>1. UsesOwn' /\ Joined' /\ OneTerminal'
  BY DEF UsesOwn, TypeOK, Joined, OneTerminal
<1>2. InOrder'
  BY DEF UsesOwn, TypeOK, InOrder
<1>3. WaitedFor'
  BY DEF UsesOwn, TypeOK, WaitedFor
<1>4. Released'
  BY DEF UsesOwn, TypeOK, Released, InOrder
<1> QED
  BY <1>1, <1>2, <1>3, <1>4

LEMMA ShutdownReadFailsInv == Inv /\ ShutdownReadFails => Inv'
<1> SUFFICES ASSUME Inv, ShutdownReadFails PROVE Inv'
  OBVIOUS
<1> USE Kinds DEF Inv
<1>1. /\ main \in {"read", "blocked"} /\ main' = "close" /\ master_fd_' = 0 /\ isrunning_' = FALSE
      /\ file' = [file EXCEPT ![master_fd_] = Closed] /\ wrong' = wrong
      /\ UNCHANGED <<child_pid_, exit_code_, worker_, monitor, child, past>>
  BY DEF ShutdownReadFails, HungUp, Close
<1> QED
  BY <1>1 DEF UsesOwn, TypeOK, Joined, InOrder, OneTerminal, WaitedFor, Released, Closed,
     child, past

(* What shutdown closes last is the terminal, or descriptor 0. *)
LEMMA ShutdownCloseInv == Inv /\ ShutdownClose => Inv'
<1> SUFFICES ASSUME Inv, ShutdownClose PROVE Inv'
  OBVIOUS
<1> USE Kinds DEF Inv
<1>1. /\ main = "close" /\ main' = "idle" /\ master_fd_' = 0
      /\ file' = [file EXCEPT ![master_fd_] = Closed]
      /\ UNCHANGED <<child_pid_, isrunning_, exit_code_, worker_, monitor, child, past>>
  BY DEF ShutdownClose, Close
<1>2. worker_ = "none"
  BY <1>1 DEF Joined
<1>3. wrong' \subseteq {0}
  <2>1. wrong' = IF file[master_fd_] \in Runs \cup {Closed} THEN wrong
                 ELSE wrong \cup {master_fd_}
    BY DEF ShutdownClose, Close
  <2>2. master_fd_ # 0 => file[master_fd_] \in Runs \cup {Closed}
    BY <1>2 DEF UsesOwn, TypeOK, Closed, Runs
  <2> QED
    BY <2>1, <2>2 DEF UsesOwn
<1>4. UsesOwn' /\ Joined'
  <2>1. wrong' \subseteq Fds
    BY <1>3
  <2> QED
    BY <1>1, <1>2, <1>3, <2>1 DEF UsesOwn, TypeOK, Joined, child, past
<1>5. InOrder' /\ OneTerminal' /\ WaitedFor'
  BY <1>1, <1>2 DEF UsesOwn, TypeOK, InOrder, OneTerminal, WaitedFor, Closed, child, past
<1>6. Released'
  BY <1>1, <1>2 DEF UsesOwn, TypeOK, OneTerminal, Released, Closed, child, past
<1> QED
  BY <1>4, <1>5, <1>6

LEMMA InvNext == Inv /\ [Next]_vars => Inv'
<1> SUFFICES ASSUME Inv, [Next]_vars PROVE Inv'
  OBVIOUS
<1> USE Kinds DEF Inv, UsesOwn, TypeOK, Joined, InOrder, OneTerminal, WaitedFor, Released,
    members, child, past
<1>1. ASSUME NEW r \in Runs, Setsid(r) \/ HangUp(r) PROVE Inv'
  <2>1. CASE Setsid(r)
    BY <2>1 DEF Setsid
  <2>2. CASE HangUp(r)
    BY <2>2 DEF HangUp
  <2> QED
    BY <1>1, <2>1, <2>2
<1>2. CASE WorkerLoop
  BY <1>2 DEF WorkerLoop, WorkerAt
<1>3. CASE WorkerRead \/ WorkerInterrupted \/ WorkerGetsData
  <2>1. CASE WorkerRead
    BY <2>1 DEF WorkerRead, WorkerAt
  <2>2. CASE WorkerInterrupted
    BY <2>2 DEF WorkerInterrupted, WorkerAt
  <2>3. CASE WorkerGetsData
    BY <2>3 DEF WorkerGetsData, WorkerAt
  <2> QED
    BY <1>3, <2>1, <2>2, <2>3
<1>4. CASE WorkerZero
  BY <1>4 DEF WorkerZero, WorkerAt
<1>5. CASE MonitorSees
  BY <1>5 DEF MonitorSees
<1>6. CASE MonitorTimeout
  BY <1>6 DEF MonitorTimeout
<1>7. CASE MonitorChecks \/ MonitorKill
  <2>1. CASE MonitorChecks
    BY <2>1 DEF MonitorChecks
  <2>2. CASE MonitorKill /\ main' = main
    BY <2>2 DEF MonitorKill, Signal
  <2>3. CASE MonitorKill /\ main' = "killed"
    BY <2>3 DEF MonitorKill, Signal
  <2> QED
    BY <1>7, <2>1, <2>2, <2>3 DEF MonitorKill
<1>8. CASE Wait
  BY <1>8 DEF Wait, Waited, WaitsFor
<1>9. CASE Shutdown
  BY <1>9 DEF Shutdown, Signal
<1>10. CASE ExecuteJoin
  BY <1>10 DEF ExecuteJoin
<1>11. CASE ShutdownWait
  BY <1>11 DEF ShutdownWait, Waited, WaitsFor
<1>12. CASE ShutdownJoinWorker
  BY <1>12 DEF ShutdownJoinWorker
<1>13. CASE ShutdownJoinMonitor
  BY <1>13 DEF ShutdownJoinMonitor
<1>14. CASE ShutdownRead \/ ShutdownInterrupted \/ ShutdownGetsData
  <2>1. CASE ShutdownRead
    BY <2>1 DEF ShutdownRead
  <2>2. CASE ShutdownInterrupted
    BY <2>2 DEF ShutdownInterrupted
  <2>3. CASE ShutdownGetsData
    BY <2>3 DEF ShutdownGetsData
  <2> QED
    BY <1>14, <2>1, <2>2, <2>3
<1>15. CASE UNCHANGED vars
  BY <1>15 DEF vars
<1> HIDE DEF Inv, UsesOwn, TypeOK, Joined, InOrder, OneTerminal, WaitedFor, Released,
    members, child, past
<1> QED
  BY <1>1, <1>2, <1>3, <1>4, <1>5, <1>6, <1>7, <1>8, <1>9, <1>10, <1>11, <1>12, <1>13, <1>14, <1>15,
     ExitInv, OpenStrangerInv, ExecuteInv, LaunchInv, WorkerReadFailsInv, ShutdownClearInv,
     ShutdownReadFailsInv, ShutdownCloseInv
  DEF Next, Worker, Monitor, Main

-----------------------------------------------------------------------------
(* The inductive invariant holds in every reachable state. *)
LEMMA InvAlways == Spec => []Inv
  BY InvInit, InvNext, PTL DEF Spec

(* Whatever the worker, the monitor and shutdown close in which order, master_fd_ *)
(* names the last child's terminal or nothing, and no file that is not one of the *)
(* executor's terminals is ever closed, except descriptor 0.                      *)
THEOREM OwnFilesOnly == Spec => []UsesOwn
  BY InvAlways, PTL DEF Inv

(* When shutdown has returned, the child has been waited for and nothing of its  *)
(* terminal is left open in the program, also after later launches.              *)
THEOREM ShutdownIsClean == Spec => []CleanAfterShutdown
<1>1. Inv => CleanAfterShutdown
  BY DEF Inv, WaitedFor, Released, CleanAfterShutdown
<1> QED
  BY <1>1, InvAlways, PTL

-----------------------------------------------------------------------------
(***************************************************************************)
(* The event pool and its thread pool, which execute the program's other   *)
(* tasks.                                                                  *)
(***************************************************************************)
(* Who is in a loop of the event pool has the mutex of its deque, and is at an *)
(* element of it or past the last one. Nobody is when the pool goes.           *)
Loops ==
  /\ \A c \in Callers :
       /\ doing[c].op = "run" <=> ready_task_deque_mutex_ = c
       /\ doing[c].op = "spin" <=> event_deque_mutex_ = c
       /\ doing[c].op = "run" => doing[c].k \in 1 .. Len(ready_task_deque_) + 1
       /\ doing[c].op = "spin" => doing[c].k \in 1 .. Len(event_deque_)
       /\ ~Usable => doing[c] = Out /\ call[c] = Idle
  /\ \A c \in Callers :
       call[c] \in [op : {"idle", "notify", "spin"}, worker : Workers]
  /\ \A c \in Callers : call[c].op = "spin" => call[c].worker < workers_
  /\ ready_task_deque_mutex_ \in Callers \cup {Nobody}

(* The tasks are numbered as they are made. *)
Numbered ==
  /\ invokes \in [Tasks -> Events \cup {0}]
  /\ \A t \in Tasks : t > made => invokes[t] = 0

(* The index of the first ready task that is not handed over. *)
From ==
  IF \E c \in Callers : doing[c].op = "run"
  THEN doing[CHOOSE c \in Callers : doing[c].op = "run"].k ELSE 1
Handed(e) == {t \in Tasks : invokes[t] = e}

Filled == destructor.at # "done" \/ event_deque_ # <<>>

Settled ==
  /\ fired \in [Events -> Nat] /\ cleared \in [Events -> Nat]
  /\ Filled =>
       \A e \in Events : fired[e] = InReady(e, From) + Cardinality(Handed(e)) + cleared[e]

(* What is ready or handed over belongs to an event of the deque. *)
Pushed(e) == \E i \in DOMAIN event_deque_ : event_deque_[i] = e
Owned ==
  /\ event_deque_ \in Seq(Events) /\ ready_task_deque_ \in Seq(Events)
  /\ Filled =>
       /\ \A i \in DOMAIN ready_task_deque_ : Pushed(ready_task_deque_[i])
       /\ \A t \in Tasks : invokes[t] # 0 => Pushed(invokes[t])

(* The destructor has joined the workers it has passed. *)
Joining ==
  /\ destructor \in [at : {"none", "notify", "join", "watcher", "done", "crashed"}, worker : Nat]
  /\ \A w \in Workers : run_[w] # "none" => w < workers_
  /\ destructor.at = "notify" => workers_ = 0 \/ destructor.worker < workers_
  /\ destructor.at = "join" =>
       /\ destructor.worker < workers_
       /\ \A w \in Workers : w < destructor.worker => run_[w] = "exited"
  /\ Destroyed => \A w \in Workers : run_[w] \in {"none", "exited"}

(* The tasks between head and tail, and nothing else, are queued, once; those *)
(* that run were taken from there.                                            *)
At(w, i) == buffer[w][(head[w] + i) % Capacity]
Queues ==
  /\ \A w \in Workers, i \in 0 .. Capacity - 1 :
       i < size(w) => At(w, i) \in Tasks /\ phase[At(w, i)] = "queued"
  /\ \A v, w \in Workers, i, j \in 0 .. Capacity - 1 :
       i < size(v) /\ j < size(w) /\ At(v, i) = At(w, j) => v = w /\ i = j
  /\ task \in [Workers -> Tasks \cup {NoTask}]
  /\ \A w \in Workers : task[w] # NoTask => phase[task[w]] \in {"running", "done"}
  /\ \A t \in Tasks : phase[t] = "new" <=> t > made
  /\ \A t \in Tasks : phase[t] = "running" => \E w \in Workers : task[w] = t

PoolTypes ==
  /\ worker_lock_ \in Callers \cup {Nobody} /\ is_working_ \in BOOLEAN
  /\ workers_ \in 0 .. Reserve + 1 /\ made \in 0 .. MaxTasks
  /\ buffer \in [Workers -> [0 .. Capacity - 1 -> Tasks \cup {NoTask}]]
  /\ head \in [Workers -> 0 .. Capacity - 1] /\ tail \in [Workers -> 0 .. Capacity - 1]
  /\ run_ \in [Workers -> {"none", "top", "size", "run", "lock", "block", "asleep", "exited"}]
  /\ \A w \in Workers : task[w] # NoTask <=> run_[w] = "run"
  /\ phase \in [Tasks -> {"new", "dropped", "queued", "running", "done"}]

PoolInv == EventTypeOK /\ Loops /\ Numbered /\ Settled /\ Owned /\ Joining /\ Queues

-----------------------------------------------------------------------------
(* Indices of a queue. *)
LEMMA Modulo ==
  ASSUME NEW x \in Nat, x < 2 * Capacity
  PROVE  x % Capacity = IF x < Capacity THEN x ELSE x - Capacity
<1> DEFINE q == x \div Capacity
<1>1. /\ Capacity \in Nat /\ Capacity > 0
  BY PoolAssumption
<1>2. /\ x = Capacity * q + (x % Capacity) /\ q \in Int
      /\ x % Capacity \in 0 .. Capacity - 1
  BY <1>1
<1> HIDE DEF q
<1>3. q >= 2 => Capacity * q >= 2 * Capacity
  BY <1>1, <1>2
<1>4. q <= -1 => Capacity * q <= -Capacity
  BY <1>1, <1>2
<1>5. q \in {0, 1}
  BY <1>1, <1>2, <1>3, <1>4
<1>6. Capacity * 0 = 0 /\ Capacity * 1 = Capacity
  BY <1>1
<1> QED
  BY <1>1, <1>2, <1>5, <1>6

LEMMA SlotIs ==
  ASSUME NEW h \in 0 .. Capacity - 1, NEW i \in 0 .. Capacity - 1
  PROVE  /\ (h + i) % Capacity = IF h + i < Capacity THEN h + i ELSE h + i - Capacity
         /\ (h + i) % Capacity \in 0 .. Capacity - 1
<1>1. Capacity \in Nat /\ Capacity > 0
  BY PoolAssumption
<1>2. (h + i) % Capacity = IF h + i < Capacity THEN h + i ELSE h + i - Capacity
  BY <1>1, Modulo
<1> QED
  BY <1>1, <1>2

LEMMA NextIs ==
  ASSUME NEW i \in 0 .. Capacity - 1
  PROVE  /\ Advance(i) = IF i + 1 = Capacity THEN 0 ELSE i + 1
         /\ Advance(i) \in 0 .. Capacity - 1
<1>1. Capacity \in Nat /\ Capacity > 0
  BY PoolAssumption
<1>2. (i + 1) % Capacity = IF i + 1 < Capacity THEN i + 1 ELSE i + 1 - Capacity
  BY <1>1, Modulo
<1> QED
  BY <1>1, <1>2 DEF Advance

LEMMA SizeIs ==
  ASSUME NEW h \in 0 .. Capacity - 1, NEW t \in 0 .. Capacity - 1
  PROVE  /\ (t + Capacity - h) % Capacity = IF t >= h THEN t - h ELSE t + Capacity - h
         /\ (t + Capacity - h) % Capacity \in 0 .. Capacity - 1
<1>1. Capacity \in Nat /\ Capacity > 0
  BY PoolAssumption
<1>2. t + Capacity - h \in Nat /\ t + Capacity - h < 2 * Capacity
  BY <1>1
<1>3. (t + Capacity - h) % Capacity = IF t >= h THEN t - h ELSE t + Capacity - h
  <2>1. PICK x \in Nat : x = t + Capacity - h
    BY <1>2
  <2>2. x % Capacity = IF x < Capacity THEN x ELSE x - Capacity
    BY <1>2, <2>1, Modulo
  <2>3. x % Capacity = IF t >= h THEN t - h ELSE t + Capacity - h
    BY <1>1, <2>1, <2>2
  <2> QED
    BY <2>1, <2>3, Zenon
<1> QED
  BY <1>1, <1>3

LEMMA QueueIs ==
  ASSUME PoolTypes, NEW w \in Workers
  PROVE  /\ head[w] \in 0 .. Capacity - 1 /\ tail[w] \in 0 .. Capacity - 1
         /\ buffer[w] \in [0 .. Capacity - 1 -> Tasks \cup {NoTask}]
         /\ size(w) = IF tail[w] >= head[w] THEN tail[w] - head[w] ELSE tail[w] + Capacity - head[w]
         /\ size(w) \in 0 .. Capacity - 1
         /\ Full(w) <=> size(w) = Capacity - 1
         /\ Capacity \in Nat /\ Capacity > 0
<1>1. /\ head[w] \in 0 .. Capacity - 1 /\ tail[w] \in 0 .. Capacity - 1
      /\ buffer[w] \in [0 .. Capacity - 1 -> Tasks \cup {NoTask}]
      /\ Capacity \in Nat /\ Capacity > 0
  BY PoolAssumption DEF PoolTypes
<1>2. /\ size(w) = IF tail[w] >= head[w] THEN tail[w] - head[w] ELSE tail[w] + Capacity - head[w]
      /\ size(w) \in 0 .. Capacity - 1
  BY <1>1, SizeIs DEF size
<1>3. Advance(tail[w]) = IF tail[w] + 1 = Capacity THEN 0 ELSE tail[w] + 1
  BY <1>1, NextIs
<1>4. Full(w) <=> size(w) = Capacity - 1
  BY <1>1, <1>2, <1>3 DEF Full
<1> QED
  BY <1>1, <1>2, <1>4

(* push_back into a queue with room makes the task the last one; *)
LEMMA Pushes ==
  ASSUME PoolTypes, PoolTypes', NEW w \in Workers, NEW t \in Tasks, ~Full(w),
         buffer' = [buffer EXCEPT ![w][tail[w]] = t],
         tail' = [tail EXCEPT ![w] = Advance(@)], head' = head
  PROVE  /\ size(w) < Capacity - 1 /\ size(w)' = size(w) + 1
         /\ \A i \in 0 .. Capacity - 1 : i < size(w) => At(w, i)' = At(w, i)
         /\ \A i \in 0 .. Capacity - 1 : i = size(w) => At(w, i)' = t
         /\ \A v \in Workers \ {w} :
              size(v)' = size(v) /\ \A i \in 0 .. Capacity - 1 : At(v, i)' = At(v, i)
<1>1. /\ head[w] \in 0 .. Capacity - 1 /\ tail[w] \in 0 .. Capacity - 1
      /\ size(w) = IF tail[w] >= head[w] THEN tail[w] - head[w] ELSE tail[w] + Capacity - head[w]
      /\ size(w) \in 0 .. Capacity - 1
      /\ Full(w) <=> size(w) = Capacity - 1
      /\ Capacity \in Nat /\ Capacity > 0
  BY QueueIs
<1>2. buffer \in [Workers -> [0 .. Capacity - 1 -> Tasks \cup {NoTask}]]
      /\ tail \in [Workers -> 0 .. Capacity - 1]
  BY DEF PoolTypes
<1>3. /\ buffer'[w] = [buffer[w] EXCEPT ![tail[w]] = t]
      /\ tail'[w] = Advance(tail[w])
      /\ \A v \in Workers \ {w} : buffer'[v] = buffer[v] /\ tail'[v] = tail[v]
  BY <1>2
<1>4. tail'[w] = IF tail[w] + 1 = Capacity THEN 0 ELSE tail[w] + 1
  BY <1>1, <1>3, NextIs
<1>5. size(w)' = IF tail'[w] >= head[w] THEN tail'[w] - head[w] ELSE tail'[w] + Capacity - head[w]
  <2>1. tail'[w] \in 0 .. Capacity - 1 /\ head'[w] = head[w]
    BY <1>1, <1>4
  <2> QED
    BY <1>1, <2>1, SizeIs DEF size
<1>6. size(w)' = size(w) + 1
  BY <1>1, <1>4, <1>5
<1>7. ASSUME NEW i \in 0 .. Capacity - 1, i <= size(w)
      PROVE  At(w, i)' = IF i < size(w) THEN At(w, i) ELSE t
  <2>1. /\ (head[w] + i) % Capacity = IF head[w] + i < Capacity THEN head[w] + i
             ELSE head[w] + i - Capacity
        /\ (head[w] + i) % Capacity \in 0 .. Capacity - 1
    BY <1>1, SlotIs
  <2>2. (head[w] + i) % Capacity = tail[w] <=> i = size(w)
    BY <1>1, <1>7, <2>1
  <2>3. buffer'[w][(head[w] + i) % Capacity] = IF i = size(w) THEN t
          ELSE buffer[w][(head[w] + i) % Capacity]
    BY <1>2, <1>3, <2>1, <2>2
  <2> QED
    BY <1>1, <1>7, <2>3 DEF At
<1>8. \A v \in Workers \ {w} :
        size(v)' = size(v) /\ \A i \in 0 .. Capacity - 1 : At(v, i)' = At(v, i)
  BY <1>3 DEF size, At
<1> QED
  BY <1>1, <1>6, <1>7, <1>8

(* pop_front takes the first one. *)
LEMMA Pops ==
  ASSUME PoolTypes, PoolTypes', NEW w \in Workers, size(w) > 0,
         head' = [head EXCEPT ![w] = Advance(@)], buffer' = buffer, tail' = tail
  PROVE  /\ size(w)' = size(w) - 1
         /\ buffer[w][head[w]] = At(w, 0)
         /\ \A i \in 0 .. Capacity - 1 : i + 1 < size(w) => At(w, i)' = At(w, i + 1)
         /\ \A v \in Workers \ {w} :
              size(v)' = size(v) /\ \A i \in 0 .. Capacity - 1 : At(v, i)' = At(v, i)
<1>1. /\ head[w] \in 0 .. Capacity - 1 /\ tail[w] \in 0 .. Capacity - 1
      /\ size(w) = IF tail[w] >= head[w] THEN tail[w] - head[w] ELSE tail[w] + Capacity - head[w]
      /\ size(w) \in 0 .. Capacity - 1
      /\ Capacity \in Nat /\ Capacity > 0
  BY QueueIs
<1>2. /\ head'[w] = Advance(head[w]) /\ \A v \in Workers \ {w} : head'[v] = head[v]
  BY DEF PoolTypes
<1>3. /\ head'[w] = IF head[w] + 1 = Capacity THEN 0 ELSE head[w] + 1
      /\ head'[w] \in 0 .. Capacity - 1
  BY <1>1, <1>2, NextIs
<1>4. size(w)' = IF tail[w] >= head'[w] THEN tail[w] - head'[w] ELSE tail[w] + Capacity - head'[w]
  BY <1>1, <1>3, SizeIs DEF size
<1>5. size(w)' = size(w) - 1
  BY <1>1, <1>3, <1>4
<1>6. buffer[w][head[w]] = At(w, 0)
  <2>1. (head[w] + 0) % Capacity = head[w]
    BY <1>1, SlotIs
  <2> QED
    BY <2>1 DEF At
<1>7. ASSUME NEW i \in 0 .. Capacity - 1, i + 1 < size(w) PROVE At(w, i)' = At(w, i + 1)
  <2>1. /\ (head[w] + (i + 1)) % Capacity
             = IF head[w] + (i + 1) < Capacity THEN head[w] + (i + 1)
               ELSE head[w] + (i + 1) - Capacity
    BY <1>1, <1>7, SlotIs
  <2>2. (head'[w] + i) % Capacity = IF head'[w] + i < Capacity THEN head'[w] + i
          ELSE head'[w] + i - Capacity
    BY <1>3, SlotIs
  <2>3. (head'[w] + i) % Capacity = (head[w] + (i + 1)) % Capacity
    BY <1>1, <1>3, <1>7, <2>1, <2>2
  <2> QED
    BY <2>3 DEF At
<1>8. \A v \in Workers \ {w} :
        size(v)' = size(v) /\ \A i \in 0 .. Capacity - 1 : At(v, i)' = At(v, i)
  BY <1>2 DEF size, At
<1> QED
  BY <1>5, <1>6, <1>7, <1>8


-----------------------------------------------------------------------------
(* Where a worker's thread is when it neither runs a task nor is gone. *)
Looping == {"top", "size", "lock", "block", "asleep"}

(* The steps that leave the queues and the tasks alone. *)
Stir ==
  \/ \E c \in Callers : Notify(c) \/ SpinVisit(c) \/ SpinOnce(c)
  \/ \E w \in Workers : Top(w) \/ NoMore(w) \/ WaitLock(w) \/ WaitBlock(w) \/ SpuriousWake(w)
  \/ task_watcher_ \/ Destroy \/ DestroyNotify \/ DestroyJoin \/ DestroyWatcher
  \/ UNCHANGED poolVars

LEMMA WorkersAre ==
  /\ Reserve \in Nat /\ Reserve > 0 /\ Workers \subseteq Nat /\ Tasks \subseteq Nat \ {0}
  /\ \A w \in Nat : w <= Reserve => w \in Workers
  /\ NoTask \notin Tasks /\ MaxTasks \in Nat
  BY PoolAssumption DEF Workers, Tasks, NoTask

(* Only the threads that loop move in such a step, and they do not start a task. *)
LEMMA Moves ==
  ASSUME PoolInv, Stir
  PROVE  /\ UNCHANGED <<workers_, queue, task, made, phase>>
         /\ run_' \in [Workers -> {"none", "top", "size", "run", "lock", "block", "asleep", "exited"}]
         /\ \A w \in Workers : \/ run_'[w] = run_[w]
                               \/ run_[w] \in Looping /\ run_'[w] \in Looping \cup {"exited"}
<1> USE DEF callSide, closing, queue
<1>1. run_ \in [Workers -> {"none", "top", "size", "run", "lock", "block", "asleep", "exited"}]
  BY DEF PoolInv, EventTypeOK
<1>2. ASSUME NEW w \in Workers PROVE
        /\ Woken(w) \in [Workers -> {"none", "top", "size", "run", "lock", "block", "asleep", "exited"}]
        /\ \A v \in Workers : \/ Woken(w)[v] = run_[v]
                              \/ run_[v] \in Looping /\ Woken(w)[v] \in Looping \cup {"exited"}
  BY <1>1 DEF Woken, Looping
<1>3. ASSUME NEW c \in Callers, Notify(c) \/ SpinVisit(c) \/ SpinOnce(c)
      PROVE  UNCHANGED <<workers_, queue, task, made, phase>> /\ (run_' = run_
               \/ \E w \in Workers : run_' = Woken(w))
  <2>1. call[c].worker \in Workers
    BY DEF PoolInv, Loops
  <2> QED
    BY <1>3, <2>1 DEF Notify, SpinVisit, SpinOnce
<1>4. ASSUME NEW w \in Workers, Top(w) \/ NoMore(w) \/ WaitLock(w) \/ WaitBlock(w)
               \/ SpuriousWake(w)
      PROVE  /\ UNCHANGED <<workers_, queue, task, made, phase>>
             /\ run_[w] \in Looping
                  /\ \E s \in Looping \cup {"exited"} : run_' = [run_ EXCEPT ![w] = s]
  BY <1>4 DEF Top, NoMore, WaitLock, WaitBlock, SpuriousWake, Goto, Looping
<1>5. CASE \E c \in Callers : Notify(c) \/ SpinVisit(c) \/ SpinOnce(c)
  BY <1>1, <1>2, <1>3, <1>5
<1>6. CASE \E w \in Workers : Top(w) \/ NoMore(w) \/ WaitLock(w) \/ WaitBlock(w) \/ SpuriousWake(w)
  <2>1. PICK w \in Workers : Top(w) \/ NoMore(w) \/ WaitLock(w) \/ WaitBlock(w) \/ SpuriousWake(w)
    BY <1>6
  <2>2. PICK s \in Looping \cup {"exited"} : run_' = [run_ EXCEPT ![w] = s]
    BY <1>4, <2>1
  <2> QED
    BY <1>1, <1>4, <2>1, <2>2 DEF Looping
<1>7. CASE task_watcher_ \/ Destroy \/ DestroyJoin \/ DestroyWatcher \/ UNCHANGED poolVars
  BY <1>1, <1>7 DEF task_watcher_, Destroy, DestroyJoin, DestroyWatcher, poolVars
<1>8. CASE DestroyNotify
  <2>1. workers_ # 0 => destructor.worker \in Workers
    BY <1>8, WorkersAre DEF PoolInv, EventTypeOK, Joining, DestroyNotify
  <2>2. UNCHANGED <<workers_, queue, task, made, phase>>
    BY <1>8 DEF DestroyNotify
  <2>3. run_' = run_ \/ \E w \in Workers : run_' = Woken(w)
    BY <1>8, <2>1 DEF DestroyNotify
  <2> QED
    BY <1>1, <1>2, <2>2, <2>3
<1> QED
  BY <1>5, <1>6, <1>7, <1>8 DEF Stir

LEMMA PoolTypesIn == EventTypeOK => PoolTypes
  BY DEF EventTypeOK, PoolTypes

LEMMA StirInv == ASSUME PoolInv, Stir PROVE PoolTypes' /\ Queues' /\ Joining'
<1>1. /\ PoolTypes /\ Loops /\ Queues /\ Joining
  BY PoolTypesIn DEF PoolInv
<1>2. /\ UNCHANGED <<workers_, queue, task, made, phase>>
      /\ run_' \in [Workers -> {"none", "top", "size", "run", "lock", "block", "asleep", "exited"}]
      /\ \A w \in Workers : \/ run_'[w] = run_[w]
                            \/ run_[w] \in Looping /\ run_'[w] \in Looping \cup {"exited"}
  BY Moves
<1>3. is_working_' \in BOOLEAN /\ worker_lock_' \in Callers \cup {Nobody}
  BY <1>1 DEF PoolTypes, Stir, Notify, SpinVisit, SpinOnce, Top, NoMore, WaitLock, WaitBlock,
         SpuriousWake, task_watcher_, Destroy, DestroyNotify, DestroyJoin, DestroyWatcher, poolVars,
         callSide, closing, queue
<1>4. PoolTypes'
  <2>1. \A w \in Workers : run_'[w] = "run" <=> run_[w] = "run"
    BY <1>2 DEF Looping
  <2> QED
    BY <1>1, <1>2, <1>3, <2>1 DEF PoolTypes, queue
<1>5. Queues'
  BY <1>1, <1>2 DEF Queues, queue, At, size
<1>6. Joining'
  <2>0. workers_ \in Nat /\ destructor.worker \in Nat /\ workers_ <= Reserve + 1 /\ Reserve \in Nat
    BY <1>1, WorkersAre DEF PoolTypes, Joining
  <2>1. \A w \in Workers : /\ run_'[w] = "none" <=> run_[w] = "none"
                           /\ run_[w] = "exited" => run_'[w] = "exited"
    BY <1>2 DEF Looping
  <2>2. /\ \A w \in Workers : run_'[w] # "none" => w < workers_'
    BY <1>1, <1>2, <2>1 DEF Joining
  <2>3. CASE destructor' = destructor
    BY <1>1, <1>2, <2>1, <2>2, <2>3 DEF Joining, Destroyed
  <2>4. CASE Destroy
    BY <1>1, <1>2, <2>0, <2>2, <2>4 DEF Joining, Destroyed, Destroy
  <2>5. CASE DestroyNotify
    <3>1. CASE workers_ = 0
      <4>1. \A w \in Workers : run_'[w] = "none"
        BY <1>1, <2>1, <3>1, WorkersAre DEF Joining
      <4> QED
        BY <2>5, <3>1, <2>2, <4>1 DEF Joining, Destroyed, DestroyNotify
    <3>2. CASE workers_ # 0
      BY <1>1, <1>2, <2>0, <2>1, <2>2, <2>5, <3>2, WorkersAre
      DEF Joining, Destroyed, DestroyNotify, Following
    <3> QED
      BY <3>1, <3>2
  <2>6. CASE DestroyJoin
    <3>1. run_' = run_ /\ destructor.at = "join" /\ destructor.worker < workers_
      BY <1>1, <2>6 DEF DestroyJoin, Joining
    <3>2. destructor.worker \in Workers
      BY <2>0, <3>1, WorkersAre
    <3>3. CASE run_[destructor.worker] = "none"
                 /\ destructor' = [destructor EXCEPT !.at = "crashed"]
      BY <1>1, <2>2, <3>3 DEF Joining, Destroyed
    <3>4. CASE run_[destructor.worker] = "exited" /\ destructor' = Following("watcher")
      <4>1. \A w \in Workers : w < destructor.worker + 1 => run_[w] = "exited"
        BY <1>1, <2>0, <3>1, <3>4, WorkersAre DEF Joining
      <4>2. CASE destructor.worker + 1 < workers_
        BY <1>1, <1>2, <2>0, <2>2, <3>1, <3>4, <4>1, <4>2 DEF Joining, Destroyed, Following
      <4>3. CASE ~(destructor.worker + 1 < workers_)
        <5>1. destructor' = [at |-> "watcher", worker |-> 0]
          BY <3>4, <4>3 DEF Following
        <5>2. \A w \in Workers : run_[w] \in {"none", "exited"}
          BY <1>1, <2>0, <3>1, <4>1, <4>3, WorkersAre DEF Joining
        <5> QED
          BY <2>2, <3>1, <5>1, <5>2 DEF Joining, Destroyed
      <4> QED
        BY <4>2, <4>3
    <3> QED
      BY <2>6, <3>3, <3>4 DEF DestroyJoin
  <2>7. CASE DestroyWatcher
    BY <1>1, <1>2, <2>1, <2>2, <2>7 DEF Joining, Destroyed, DestroyWatcher
  <2> QED
    BY <2>3, <2>4, <2>5, <2>6, <2>7
    DEF Stir, Notify, SpinVisit, SpinOnce, Top, NoMore, WaitLock, WaitBlock, SpuriousWake,
        task_watcher_, poolVars, closing
<1> QED
  BY <1>4, <1>5, <1>6

LEMMA PopFrontInv ==
  ASSUME PoolInv, NEW w \in Workers, PopFront(w)
  PROVE  /\ PoolTypes' /\ Queues' /\ Joining'
         /\ At(w, 0) \in Tasks /\ phase[At(w, 0)] = "queued"
         /\ task' = [task EXCEPT ![w] = At(w, 0)] /\ phase' = [phase EXCEPT ![At(w, 0)] = "running"]
         /\ ~Destroyed /\ task[w] = NoTask
<1>1. /\ PoolTypes /\ Loops /\ Queues /\ Joining
  BY PoolTypesIn DEF PoolInv
<1>2. PICK t : t = buffer[w][head[w]]
  OBVIOUS
<1>3. /\ size(w) > 0 /\ run_[w] = "size" /\ run_' = [run_ EXCEPT ![w] = "run"]
      /\ task' = [task EXCEPT ![w] = t] /\ head' = [head EXCEPT ![w] = Advance(@)]
      /\ phase' = [phase EXCEPT ![t] = "running"]
      /\ UNCHANGED <<callSide, closing, buffer, tail>>
  BY <1>2 DEF PopFront, pop_front, Goto
<1>4. /\ head[w] \in 0 .. Capacity - 1 /\ size(w) \in 0 .. Capacity - 1
      /\ Capacity \in Nat /\ Capacity > 0
  BY <1>1, QueueIs
<1>5. At(w, 0) = t
  <2>1. (head[w] + 0) % Capacity = head[w]
    BY <1>4, SlotIs
  <2> QED
    BY <1>2, <2>1 DEF At
<1>6. t \in Tasks /\ phase[t] = "queued"
  BY <1>1, <1>3, <1>4, <1>5 DEF Queues
<1>7. PoolTypes'
  <2>1. Advance(head[w]) \in 0 .. Capacity - 1
    BY <1>4, NextIs
  <2>2. \A v \in Workers : task'[v] # NoTask <=> run_'[v] = "run"
    BY <1>1, <1>3, <1>6, WorkersAre DEF PoolTypes, Queues
  <2> QED
    BY <1>1, <1>3, <1>6, <2>1, <2>2 DEF PoolTypes, callSide, closing
<1>8. /\ size(w)' = size(w) - 1
      /\ \A i \in 0 .. Capacity - 1 : i + 1 < size(w) => At(w, i)' = At(w, i + 1)
      /\ \A v \in Workers \ {w} :
           size(v)' = size(v) /\ \A i \in 0 .. Capacity - 1 : At(v, i)' = At(v, i)
  BY <1>1, <1>3, <1>7, Pops
<1>9. Queues'
  <2>1. \A v \in Workers, i \in 0 .. Capacity - 1 : i < size(v)' =>
          \E j \in 0 .. Capacity - 1 :
            /\ j < size(v) /\ At(v, i)' = At(v, j) /\ (v = w => j = i + 1) /\ (v # w => j = i)
    BY <1>4, <1>8
  <2>2. ASSUME NEW v \in Workers, NEW i \in 0 .. Capacity - 1, i < size(v)'
        PROVE  At(v, i)' \in Tasks /\ phase'[At(v, i)'] = "queued"
    <3>1. PICK j \in 0 .. Capacity - 1 :
            /\ j < size(v) /\ At(v, i)' = At(v, j) /\ (v = w => j = i + 1) /\ (v # w => j = i)
      BY <2>1, <2>2
    <3>2. At(v, j) \in Tasks /\ phase[At(v, j)] = "queued"
      BY <1>1, <3>1 DEF Queues
    <3>3. At(v, j) # t
      <4>1. ~(v = w /\ j = 0)
        BY <3>1
      <4>2. 0 \in 0 .. Capacity - 1 /\ 0 < size(w)
        BY <1>3, <1>4
      <4>3. At(v, j) = At(w, 0) => v = w /\ j = 0
        BY <1>1, <3>1, <4>2 DEF Queues
      <4> QED
        BY <1>5, <4>1, <4>3
    <3> QED
      BY <1>1, <1>3, <3>1, <3>2, <3>3 DEF PoolTypes
  <2>3. ASSUME NEW u \in Workers, NEW v \in Workers, NEW i \in 0 .. Capacity - 1,
                 NEW j \in 0 .. Capacity - 1,
               i < size(u)', j < size(v)', At(u, i)' = At(v, j)'
        PROVE  u = v /\ i = j
    <3>1. PICK k \in 0 .. Capacity - 1 :
            /\ k < size(u) /\ At(u, i)' = At(u, k) /\ (u = w => k = i + 1) /\ (u # w => k = i)
      BY <2>1, <2>3
    <3>2. PICK l \in 0 .. Capacity - 1 :
            /\ l < size(v) /\ At(v, j)' = At(v, l) /\ (v = w => l = j + 1) /\ (v # w => l = j)
      BY <2>1, <2>3
    <3>3. At(u, k) = At(v, l)
      BY <2>3, <3>1, <3>2
    <3>4. u = v /\ k = l
      BY <1>1, <3>1, <3>2, <3>3 DEF Queues
    <3> QED
      BY <3>1, <3>2, <3>4
  <2>4. /\ task' \in [Workers -> Tasks \cup {NoTask}]
        /\ \A v \in Workers : task'[v] # NoTask => phase'[task'[v]] \in {"running", "done"}
    BY <1>1, <1>3, <1>6 DEF Queues, PoolTypes
  <2>5. \A s \in Tasks : phase'[s] = "new" <=> s > made'
    BY <1>1, <1>3, <1>6 DEF Queues, PoolTypes, callSide
  <2>6. ASSUME NEW s \in Tasks, phase'[s] = "running" PROVE \E v \in Workers : task'[v] = s
    <3>1. CASE s = t
      BY <1>1, <1>3, <3>1 DEF Queues
    <3>2. CASE s # t
      <4>1. phase[s] = "running"
        BY <1>1, <1>3, <2>6, <3>2 DEF PoolTypes
      <4>2. PICK v \in Workers : task[v] = s
        BY <1>1, <4>1 DEF Queues
      <4>3. v # w
        BY <1>1, <1>3, <4>2, WorkersAre DEF PoolTypes
      <4> QED
        BY <1>1, <1>3, <4>2, <4>3 DEF Queues
    <3> QED
      BY <3>1, <3>2
  <2> QED
    BY <2>2, <2>3, <2>4, <2>5, <2>6 DEF Queues
<1>10. Joining' /\ ~Destroyed /\ task[w] = NoTask
  BY <1>1, <1>3 DEF Joining, PoolTypes, Destroyed, closing, callSide
<1> QED
  BY <1>3, <1>5, <1>6, <1>7, <1>9, <1>10

LEMMA TaskReturnsInv ==
  ASSUME PoolInv, NEW w \in Workers, TaskReturns(w)
  PROVE  /\ PoolTypes' /\ Queues' /\ Joining'
         /\ task[w] \in Tasks /\ ~Destroyed
         /\ task' = [task EXCEPT ![w] = NoTask] /\ phase' = [phase EXCEPT ![task[w]] = "done"]
<1>1. /\ PoolTypes /\ Loops /\ Queues /\ Joining
  BY PoolTypesIn DEF PoolInv
<1>2. PICK t : t = task[w]
  OBVIOUS
<1>3. /\ run_[w] = "run" /\ run_' = [run_ EXCEPT ![w] = "top"]
      /\ task' = [task EXCEPT ![w] = NoTask] /\ phase' = [phase EXCEPT ![t] = "done"]
      /\ UNCHANGED <<callSide, closing, queue>>
  BY <1>2 DEF TaskReturns, Goto
<1>4. t \in Tasks /\ phase[t] \in {"running", "done"}
  BY <1>1, <1>2, <1>3 DEF Queues, PoolTypes
<1>5. PoolTypes'
  <2>1. \A v \in Workers : task'[v] # NoTask <=> run_'[v] = "run"
    BY <1>1, <1>3 DEF PoolTypes, Queues
  <2> QED
    BY <1>1, <1>3, <1>4, <2>1 DEF PoolTypes, callSide, closing, queue
<1>6. Queues'
  <2>1. \A v \in Workers, i \in 0 .. Capacity - 1 : At(v, i)' = At(v, i) /\ size(v)' = size(v)
    BY <1>3 DEF At, size, queue
  <2>2. \A v \in Workers, i \in 0 .. Capacity - 1 :
          i < size(v)' => At(v, i)' \in Tasks /\ phase'[At(v, i)'] = "queued"
    <3> SUFFICES ASSUME NEW v \in Workers, NEW i \in 0 .. Capacity - 1, i < size(v)
                 PROVE  At(v, i) \in Tasks /\ phase'[At(v, i)] = "queued"
      BY <2>1
    <3>1. At(v, i) \in Tasks /\ phase[At(v, i)] = "queued"
      BY <1>1 DEF Queues
    <3> QED
      BY <1>1, <1>3, <1>4, <3>1 DEF PoolTypes
  <2>3. \A u, v \in Workers, i, j \in 0 .. Capacity - 1 :
          i < size(u)' /\ j < size(v)' /\ At(u, i)' = At(v, j)' => u = v /\ i = j
    BY <1>1, <2>1 DEF Queues
  <2>4. /\ task' \in [Workers -> Tasks \cup {NoTask}]
        /\ \A v \in Workers : task'[v] # NoTask => phase'[task'[v]] \in {"running", "done"}
    BY <1>1, <1>3, <1>4 DEF Queues, PoolTypes
  <2>5. \A s \in Tasks : phase'[s] = "new" <=> s > made'
    BY <1>1, <1>3, <1>4 DEF Queues, PoolTypes, callSide
  <2>6. ASSUME NEW s \in Tasks, phase'[s] = "running" PROVE \E v \in Workers : task'[v] = s
    <3>1. phase[s] = "running" /\ s # t
      BY <1>1, <1>3, <1>4, <2>6 DEF PoolTypes
    <3>2. PICK v \in Workers : task[v] = s
      BY <1>1, <3>1 DEF Queues
    <3>3. v # w
      BY <1>2, <3>1, <3>2
    <3> QED
      BY <1>1, <1>3, <3>2, <3>3 DEF Queues
  <2> QED
    BY <2>2, <2>3, <2>4, <2>5, <2>6 DEF Queues
<1>7. Joining' /\ ~Destroyed
  BY <1>1, <1>3 DEF Joining, PoolTypes, Destroyed, closing, callSide
<1> QED
  BY <1>2, <1>3, <1>4, <1>5, <1>6, <1>7

(* The task that add_task_to makes is the next number. *)
LEMMA AddInv ==
  ASSUME PoolInv, NEW c \in Callers, NEW how \in [overload : {"ptr", "bind"}, index : Nat],
         Usable, add_task_to(c, how)
  PROVE  /\ PoolTypes' /\ Queues' /\ Joining'
         /\ Target(how) \in Workers /\ made + 1 \in Tasks /\ phase[made + 1] = "new" /\ ~Destroyed
<1>1. /\ PoolTypes /\ Loops /\ Queues /\ Joining
  BY PoolTypesIn DEF PoolInv
<1>2. PICK w : w = Target(how)
  OBVIOUS
<1>3. PICK t : t = made + 1
  OBVIOUS
<1>4. /\ how.overload = "ptr" => how.index <= Reserve
      /\ made < MaxTasks /\ made' = t
      /\ push_back(w, t)
      /\ workers_' = IF workers_ <= w THEN w + 1 ELSE workers_
      /\ run_' = [run_ EXCEPT ![w] = IF @ = "none" THEN "top" ELSE @]
      /\ worker_lock_' = c
      /\ UNCHANGED <<closing, head, task>>
  BY <1>2, <1>3 DEF add_task_to
<1>5. w \in Workers /\ w \in Nat /\ w <= Reserve
  <2>1. how.overload \in {"ptr", "bind"} /\ how.index \in Nat
    OBVIOUS
  <2>2. CASE how.overload = "bind"
    <3>1. how.index % Reserve \in 0 .. Reserve - 1
      BY <2>1, WorkersAre
    <3> QED
      BY <1>2, <2>2, <3>1, WorkersAre DEF Target
  <2>3. CASE how.overload = "ptr"
    BY <1>2, <1>4, <2>1, <2>3, WorkersAre DEF Target
  <2> QED
    BY <2>1, <2>2, <2>3
<1>6. t \in Tasks /\ phase[t] = "new" /\ made \in Nat
  <2>1. made \in Nat /\ t \in Tasks
    BY <1>1, <1>3, <1>4, WorkersAre DEF PoolTypes, Tasks
  <2> QED
    BY <1>1, <1>3, <2>1 DEF Queues
<1>7. \E p \in {"dropped", "queued"} : phase' = [phase EXCEPT ![t] = p]
  BY <1>4 DEF push_back
<1>8. PoolTypes'
  <2>1. /\ head[w] \in 0 .. Capacity - 1 /\ tail[w] \in 0 .. Capacity - 1
    BY <1>1, <1>5, QueueIs
  <2>2. Advance(tail[w]) \in 0 .. Capacity - 1
    BY <2>1, NextIs
  <2>3. /\ buffer' \in [Workers -> [0 .. Capacity - 1 -> Tasks \cup {NoTask}]]
        /\ tail' \in [Workers -> 0 .. Capacity - 1]
    <3>1. CASE Full(w)
      BY <1>1, <1>4, <3>1 DEF PoolTypes, push_back
    <3>2. CASE ~Full(w)
      <4>1. buffer' = [buffer EXCEPT ![w][tail[w]] = t] /\ tail' = [tail EXCEPT ![w] = Advance(@)]
        BY <1>4, <3>2 DEF push_back
      <4> QED
        BY <1>1, <1>5, <1>6, <2>1, <2>2, <4>1 DEF PoolTypes
    <3> QED
      BY <3>1, <3>2
  <2>4. phase' \in [Tasks -> {"new", "dropped", "queued", "running", "done"}]
    BY <1>1, <1>6, <1>7 DEF PoolTypes
  <2>5. /\ run_' \in [Workers -> {"none", "top", "size", "run", "lock", "block", "asleep", "exited"}]
        /\ \A v \in Workers : task'[v] # NoTask <=> run_'[v] = "run"
    BY <1>1, <1>4, <1>5 DEF PoolTypes
  <2>6. workers_' \in 0 .. Reserve + 1 /\ made' \in 0 .. MaxTasks
    BY <1>1, <1>3, <1>4, <1>5, WorkersAre DEF PoolTypes
  <2> QED
    BY <1>1, <1>4, <2>3, <2>4, <2>5, <2>6 DEF PoolTypes, closing
<1>9. \A s \in Tasks : s # t => phase'[s] = phase[s]
  BY <1>1, <1>6, <1>7 DEF PoolTypes
<1>10. /\ \A v \in Workers, i \in 0 .. Capacity - 1 :
            i < size(v)' => At(v, i)' \in Tasks /\ phase'[At(v, i)'] = "queued"
       /\ \A u, v \in Workers, i, j \in 0 .. Capacity - 1 :
            i < size(u)' /\ j < size(v)' /\ At(u, i)' = At(v, j)' => u = v /\ i = j
  <2>1. \A v \in Workers, i \in 0 .. Capacity - 1 :
          i < size(v) => /\ At(v, i) \in Tasks /\ phase[At(v, i)] = "queued"
                         /\ At(v, i) # t /\ phase'[At(v, i)] = "queued"
    BY <1>1, <1>6, <1>9 DEF Queues
  <2>2. CASE Full(w)
    <3>1. \A v \in Workers, i \in 0 .. Capacity - 1 : At(v, i)' = At(v, i) /\ size(v)' = size(v)
      BY <1>4, <2>2 DEF push_back, At, size
    <3> QED
      BY <1>1, <2>1, <3>1 DEF Queues
  <2>3. CASE ~Full(w)
    <3>1. /\ buffer' = [buffer EXCEPT ![w][tail[w]] = t] /\ tail' = [tail EXCEPT ![w] = Advance(@)]
          /\ phase' = [phase EXCEPT ![t] = "queued"] /\ head' = head
      BY <1>4, <2>3 DEF push_back
    <3>2. /\ size(w)' = size(w) + 1
          /\ \A i \in 0 .. Capacity - 1 : i < size(w) => At(w, i)' = At(w, i)
          /\ \A i \in 0 .. Capacity - 1 : i = size(w) => At(w, i)' = t
          /\ \A v \in Workers \ {w} :
               size(v)' = size(v) /\ \A i \in 0 .. Capacity - 1 : At(v, i)' = At(v, i)
      BY <1>1, <1>5, <1>6, <1>8, <2>3, <3>1, Pushes
    <3>3. size(w) \in Nat
      BY <1>1, <1>5, QueueIs
    <3>4. phase'[t] = "queued"
      BY <1>1, <1>6, <3>1 DEF PoolTypes
    <3>5. ASSUME NEW v \in Workers, NEW i \in 0 .. Capacity - 1, i < size(v)'
          PROVE  \/ i < size(v) /\ At(v, i)' = At(v, i)
                 \/ v = w /\ i = size(w) /\ At(v, i)' = t
      BY <3>2, <3>3, <3>5
    <3>6. ASSUME NEW v \in Workers, NEW i \in 0 .. Capacity - 1, i < size(v)'
          PROVE  At(v, i)' \in Tasks /\ phase'[At(v, i)'] = "queued"
      BY <1>6, <2>1, <3>4, <3>5, <3>6
    <3>7. ASSUME NEW u \in Workers, NEW v \in Workers, NEW i \in 0 .. Capacity - 1,
                   NEW j \in 0 .. Capacity - 1,
                 i < size(u)', j < size(v)', At(u, i)' = At(v, j)'
          PROVE  u = v /\ i = j
      <4>1. \/ i < size(u) /\ At(u, i)' = At(u, i)
            \/ u = w /\ i = size(w) /\ At(u, i)' = t
        BY <3>5, <3>7
      <4>2. \/ j < size(v) /\ At(v, j)' = At(v, j)
            \/ v = w /\ j = size(w) /\ At(v, j)' = t
        BY <3>5, <3>7
      <4>3. CASE i < size(u) /\ At(u, i)' = At(u, i) /\ j < size(v) /\ At(v, j)' = At(v, j)
        <5>1. At(u, i) = At(v, j)
          BY <3>7, <4>3
        <5> QED
          BY <1>1, <4>3, <5>1 DEF Queues
      <4>4. (i < size(u) => At(u, i) # t) /\ (j < size(v) => At(v, j) # t)
        BY <2>1
      <4> QED
        BY <3>7, <4>1, <4>2, <4>3, <4>4
    <3> QED
      BY <3>6, <3>7
  <2> QED
    BY <2>2, <2>3
<1>11. Queues'
  <2>1. /\ task' \in [Workers -> Tasks \cup {NoTask}]
        /\ \A v \in Workers : task'[v] # NoTask => phase'[task'[v]] \in {"running", "done"}
    <3> SUFFICES ASSUME NEW v \in Workers, task[v] # NoTask
                 PROVE  phase'[task[v]] \in {"running", "done"}
      BY <1>1, <1>4 DEF Queues
    <3>1. task[v] \in Tasks /\ phase[task[v]] \in {"running", "done"}
      BY <1>1 DEF Queues
    <3> QED
      BY <1>6, <1>9, <3>1
  <2>2. ASSUME NEW s \in Tasks PROVE phase'[s] = "new" <=> s > made'
    <3>1. s \in Nat /\ (phase[s] = "new" <=> s > made)
      BY <1>1, WorkersAre DEF Queues
    <3>2. CASE s = t
      BY <1>1, <1>3, <1>4, <1>6, <1>7, <3>2 DEF PoolTypes
    <3>3. CASE s # t
      BY <1>3, <1>4, <1>6, <1>9, <3>1, <3>3
    <3> QED
      BY <3>2, <3>3
  <2>3. ASSUME NEW s \in Tasks, phase'[s] = "running" PROVE \E v \in Workers : task'[v] = s
    <3>1. s # t
      BY <1>1, <1>6, <1>7, <2>3 DEF PoolTypes
    <3> QED
      BY <1>1, <1>4, <1>9, <2>3, <3>1 DEF Queues
  <2> QED
    BY <1>10, <2>1, <2>2, <2>3 DEF Queues
<1>12. Joining' /\ ~Destroyed
  <2>1. destructor' = destructor /\ destructor.at = "none"
    BY <1>4 DEF closing, Usable
  <2>2. ASSUME NEW v \in Workers, run_'[v] # "none" PROVE v < workers_'
    <3>1. v \in Nat /\ workers_ \in Nat
      BY <1>1, WorkersAre DEF PoolTypes
    <3>2. CASE v = w
      BY <1>4, <1>5, <3>1, <3>2
    <3>3. CASE v # w
      <4>1. v < workers_
        BY <1>1, <1>4, <1>5, <2>2, <3>3 DEF PoolTypes, Joining
      <4> QED
        BY <1>4, <1>5, <3>1, <4>1
    <3> QED
      BY <3>2, <3>3
  <2> QED
    BY <1>1, <2>1, <2>2 DEF Joining, Destroyed
<1> QED
  BY <1>2, <1>3, <1>5, <1>6, <1>8, <1>11, <1>12

-----------------------------------------------------------------------------
(* The steps that leave the event pool's own state alone. *)
PoolOnly == \/ Pool \/ DestroyPool \/ \E c \in Callers : Direct(c)
            \/ UNCHANGED eventPoolVars

(* In such a step a task is added, started or returns, or the tasks stay. *)
LEMMA PoolOnlyIs ==
  ASSUME PoolOnly
  PROVE  /\ UNCHANGED eventVars
         /\ \/ Stir
            \/ \E w \in Workers : PopFront(w) \/ TaskReturns(w)
            \/ Usable /\ \E c \in Callers, how \in [overload : {"ptr", "bind"}, index : Nat] : add_task_to(c, how)
<1>1. CASE Pool
  BY <1>1 DEF Pool, PoolStep, Work, Stir
<1>2. CASE DestroyPool
  BY <1>2 DEF DestroyPool, Stir
<1>3. CASE \E c \in Callers : Direct(c)
  <2>1. PICK c \in Callers : Direct(c)
    BY <1>3
  <2>2. Usable /\ UNCHANGED eventVars
    BY <2>1 DEF Direct, Free
  <2>3. CASE SpinOnce(c)
    BY <2>2, <2>3 DEF Stir
  <2>4. CASE \E how \in Calls : add_task_to(c, how)
    BY <2>2, <2>4, PoolAssumption
  <2> QED
    BY <2>1, <2>3, <2>4 DEF Direct
<1>4. CASE UNCHANGED eventPoolVars
  BY <1>4 DEF eventPoolVars, Stir
<1> QED
  BY <1>1, <1>2, <1>3, <1>4 DEF PoolOnly

LEMMA PoolOnlyInv == ASSUME PoolInv, PoolOnly PROVE PoolTypes' /\ Queues' /\ Joining'
  BY PoolOnlyIs, StirInv, PopFrontInv, TaskReturnsInv, AddInv

LEMMA PoolOnlyMakes ==
  ASSUME PoolInv, PoolOnly
  PROVE  /\ made \in Nat /\ made' \in Nat /\ made <= made'
         /\ workers_ \in Nat /\ workers_' \in Nat /\ workers_ <= workers_'
         /\ destructor.at = "done" => destructor' = destructor
<1>1. PoolTypes
  BY PoolTypesIn DEF PoolInv
<1>2. made \in Nat /\ workers_ \in Nat /\ made' \in Nat /\ workers_' \in Nat
  BY <1>1, PoolOnlyInv, WorkersAre DEF PoolTypes
<1>3. CASE Stir
  <2>1. made' = made /\ workers_' = workers_
    BY <1>3, Moves
  <2>2. destructor.at = "done" => destructor' = destructor
    BY <1>3 DEF Stir, Notify, SpinVisit, SpinOnce, Top, NoMore, WaitLock, WaitBlock, SpuriousWake,
           task_watcher_, Destroy, DestroyNotify, DestroyJoin, DestroyWatcher, poolVars, closing
  <2> QED
    BY <1>2, <2>1, <2>2
<1>4. CASE \E w \in Workers : PopFront(w) \/ TaskReturns(w)
  BY <1>2, <1>4 DEF PopFront, TaskReturns, callSide, closing
<1>5. CASE \E c \in Callers, how \in [overload : {"ptr", "bind"}, index : Nat] : Usable
             /\ add_task_to(c, how)
  <2>1. PICK c \in Callers, how \in [overload : {"ptr", "bind"}, index : Nat] : Usable
               /\ add_task_to(c, how)
    BY <1>5
  <2>2. Target(how) \in Nat
    BY <2>1, AddInv, WorkersAre
  <2> QED
    BY <1>2, <2>1, <2>2 DEF add_task_to, closing
<1> QED
  BY <1>3, <1>4, <1>5, PoolOnlyIs

LEMMA PoolOnlyLoops ==
  ASSUME PoolInv, PoolOnly
  PROVE  Loops'
<1>1. /\ PoolTypes /\ Loops /\ Joining
  BY PoolTypesIn DEF PoolInv
<1>2. /\ UNCHANGED <<doing, event_deque_, ready_task_deque_, event_deque_mutex_,
           ready_task_deque_mutex_>>
      /\ workers_ \in Nat /\ workers_' \in Nat /\ workers_ <= workers_'
      /\ \A w \in Workers : w \in Nat
  BY PoolOnlyIs, PoolOnlyMakes, WorkersAre DEF eventVars
<1> DEFINE Kind(x) == /\ x \in [op : {"idle", "notify", "spin"}, worker : Workers]
                      /\ x.op = "spin" => x.worker < workers_'
<1>3. Kind(Idle) /\ \A c \in Callers : Kind(call[c])
  <2>1. \A c \in Callers : call[c].worker \in Nat
    BY <1>1, <1>2 DEF Loops
  <2>2. \A c \in Callers : call[c].op = "spin" => call[c].worker < workers_
    BY <1>1 DEF Loops
  <2>3. \A c \in Callers : call[c].op = "spin" => call[c].worker < workers_'
    BY <1>2, <2>1, <2>2
  <2> QED
    BY <1>1, <2>3, WorkersAre DEF Loops, Idle
<1>4. ASSUME NEW d \in Callers PROVE Kind(call'[d]) /\ (~Usable' => call'[d] = Idle)
  <2>1. CASE call' = call
    <3>1. CASE Usable /\ ~Usable'
      <4>1. Destroy
        BY <3>1 DEF PoolOnly, Pool, PoolStep, Work, Direct, DestroyPool, eventPoolVars, poolVars,
               Usable, Notify, SpinVisit, SpinOnce, Top, NoMore, WaitLock, WaitBlock, SpuriousWake,
               PopFront, TaskReturns, add_task_to, task_watcher_, DestroyNotify, DestroyJoin,
               DestroyWatcher, closing
      <4> QED
        BY <1>3, <2>1, <4>1 DEF Destroy
    <3>2. CASE ~Usable \/ Usable'
      BY <1>1, <1>3, <2>1, <3>2 DEF Loops
    <3> QED
      BY <3>1, <3>2
  <2>2. CASE \E c \in Callers : Notify(c)
    <3>1. PICK c \in Callers : Notify(c)
      BY <2>2
    <3>2. call' = [call EXCEPT ![c] = Idle] /\ Usable' = Usable
      BY <3>1 DEF Notify, closing, Usable
    <3>3. call'[d] = call[d] \/ call'[d] = Idle
      BY <3>2
    <3> QED
      BY <1>1, <1>3, <3>2, <3>3 DEF Loops
  <2>3. CASE \E c \in Callers : SpinVisit(c)
    <3>1. PICK c \in Callers : SpinVisit(c)
      BY <2>3
    <3>2. PICK w : w = call[c].worker
      OBVIOUS
    <3>3. /\ call' = [call EXCEPT ![c] = IF w + 1 = workers_ THEN Idle
               ELSE [@ EXCEPT !.worker = w + 1]]
          /\ Usable' = Usable /\ workers_' = workers_ /\ call[c].op = "spin"
      BY <3>1, <3>2 DEF SpinVisit, closing, Usable
    <3>4. call[c] \in [op : {"idle", "notify", "spin"}, worker : Workers] /\ w \in Nat
            /\ w < workers_
      BY <1>1, <1>2, <3>2, <3>3 DEF Loops
    <3>5. Usable /\ Usable'
      BY <1>1, <3>3 DEF Loops, Idle
    <3>6. CASE w + 1 = workers_
      BY <1>3, <3>3, <3>5, <3>6
    <3>7. CASE w + 1 # workers_
      <4>1. w + 1 \in Workers /\ w + 1 < workers_
        BY <1>1, <1>2, <3>4, <3>7, WorkersAre DEF PoolTypes
      <4>2. Kind([call[c] EXCEPT !.worker = w + 1])
        BY <3>3, <3>4, <4>1
      <4> QED
        BY <1>3, <3>3, <3>5, <3>7, <4>2
    <3> QED
      BY <3>6, <3>7
  <2>4. CASE \E c \in Callers : SpinOnce(c) /\ Usable
    <3>1. PICK c \in Callers : SpinOnce(c) /\ Usable
      BY <2>4
    <3>2. /\ call' = [call EXCEPT ![c] = [op |-> "spin", worker |-> 0]] /\ Usable'
          /\ workers_' = workers_ /\ workers_ > 0
      BY <3>1 DEF SpinOnce, closing, Usable
    <3>3. Kind([op |-> "spin", worker |-> 0])
      BY <1>2, <3>2, WorkersAre
    <3> QED
      BY <1>3, <3>2, <3>3
  <2>5. CASE \E c \in Callers, how \in [overload : {"ptr", "bind"}, index : Nat] : Usable
               /\ add_task_to(c, how)
    <3>1. PICK c \in Callers, how \in [overload : {"ptr", "bind"}, index : Nat] : Usable
                 /\ add_task_to(c, how)
      BY <2>5
    <3>2. PICK w \in Workers : w = Target(how)
      BY <3>1, AddInv
    <3>3. call' = [call EXCEPT ![c] = [op |-> "notify", worker |-> w]] /\ Usable'
      BY <3>1, <3>2 DEF add_task_to, closing, Usable
    <3>4. Kind([op |-> "notify", worker |-> w])
      OBVIOUS
    <3> QED
      BY <1>3, <3>3, <3>4
  <2>6. CASE \E c \in Callers : Direct(c)
    BY <2>4, <2>5, <2>6, PoolAssumption DEF Direct, Free
  <2> QED
    BY <2>1, <2>2, <2>3, <2>6
    DEF PoolOnly, Pool, PoolStep, Work, DestroyPool, eventPoolVars, poolVars, Destroy, Top, NoMore,
        WaitLock, WaitBlock, SpuriousWake, PopFront, TaskReturns, task_watcher_, DestroyNotify,
        DestroyJoin, DestroyWatcher, callSide
<1>5. ASSUME NEW c \in Callers, ~Usable' PROVE doing[c] = Out
  <2>1. CASE DestroyPool
    BY <2>1 DEF DestroyPool, Free
  <2>2. CASE ~DestroyPool
    <3>1. ~Usable
      BY <1>5, <2>2 DEF PoolOnly, Pool, PoolStep, Work, Direct, Free, eventPoolVars, poolVars,
             Usable, Notify, SpinVisit, Top, NoMore, WaitLock, WaitBlock, SpuriousWake, PopFront,
             TaskReturns, task_watcher_, DestroyNotify, DestroyJoin, DestroyWatcher, closing,
             SpinOnce, add_task_to
    <3> QED
      BY <1>1, <3>1 DEF Loops
  <2> QED
    BY <2>1, <2>2
<1> QED
  BY <1>1, <1>2, <1>4, <1>5 DEF Loops

LEMMA PoolOnlyKeeps == ASSUME PoolInv, PoolOnly PROVE PoolInv'
<1>1. /\ EventTypeOK /\ Loops /\ Numbered /\ Settled /\ Owned
  BY DEF PoolInv
<1>2. PoolTypes' /\ Queues' /\ Joining' /\ Loops'
  BY PoolOnlyInv, PoolOnlyLoops
<1>3. UNCHANGED <<event_deque_, ready_task_deque_, event_deque_mutex_, ready_task_deque_mutex_,
                  doing, invokes, fired, cleared>>
  BY PoolOnlyIs DEF eventVars
<1>4. EventTypeOK'
  BY <1>1, <1>2, <1>3 DEF PoolTypes, EventTypeOK
<1>5. Numbered'
  BY <1>1, <1>3, PoolOnlyMakes, WorkersAre DEF Numbered
<1>6. Filled' => Filled
  BY <1>3, PoolOnlyMakes DEF Filled
<1>7. Settled' /\ Owned'
  BY <1>1, <1>3, <1>6 DEF Settled, Owned, InReady, Handed, From, Pushed
<1> QED
  BY <1>2, <1>4, <1>5, <1>7 DEF PoolInv

-----------------------------------------------------------------------------
(* Counting what is ready and what is handed over. *)
LEMMA Counts ==
  ASSUME Owned, NEW e \in Events, NEW k \in Nat
  PROVE  /\ InReady(e, k) \in Nat
         /\ k > Len(ready_task_deque_) => InReady(e, k) = 0
         /\ k \in 1 .. Len(ready_task_deque_) =>
              InReady(e, k) = InReady(e, k + 1) + (IF ready_task_deque_[k] = e THEN 1 ELSE 0)
<1>1. PICK n \in Nat : n = Len(ready_task_deque_)
  BY DEF Owned
<1> DEFINE S(j) == {i \in j .. n : ready_task_deque_[i] = e}
<1>2. \A j \in Nat : IsFiniteSet(S(j)) /\ Cardinality(S(j)) \in Nat
  <2> SUFFICES ASSUME NEW j \in Nat PROVE IsFiniteSet(S(j)) /\ Cardinality(S(j)) \in Nat
    OBVIOUS
  <2>1. IsFiniteSet(j .. n)
    BY <1>1, FS_Interval
  <2>2. IsFiniteSet(S(j))
    BY <2>1, FS_Subset
  <2> QED
    BY <2>2, FS_CardinalityType
<1>3. InReady(e, k) = Cardinality(S(k)) /\ InReady(e, k + 1) = Cardinality(S(k + 1))
  BY <1>1 DEF InReady
<1>4. ASSUME k > n PROVE Cardinality(S(k)) = 0
  <2>1. S(k) = {}
    BY <1>1, <1>4
  <2> QED
    BY <2>1, FS_EmptySet
<1>5. ASSUME k \in 1 .. n
      PROVE  Cardinality(S(k)) = Cardinality(S(k + 1)) + (IF ready_task_deque_[k] = e THEN 1 ELSE 0)
  <2>1. CASE ready_task_deque_[k] = e
    <3>1. S(k) = S(k + 1) \cup {k} /\ k \notin S(k + 1)
      BY <1>1, <1>5, <2>1
    <3>2. IsFiniteSet(S(k + 1)) /\ k + 1 \in Nat
      BY <1>2
    <3>3. PICK A : A = S(k + 1)
      OBVIOUS
    <3>4. Cardinality(A \cup {k}) = Cardinality(A) + 1
      BY <3>1, <3>2, <3>3, FS_AddElement
    <3>5. S(k) = A \cup {k}
      BY <3>1, <3>3
    <3> QED
      BY <2>1, <3>3, <3>4, <3>5
  <2>2. CASE ready_task_deque_[k] # e
    <3>1. S(k) = S(k + 1)
      BY <1>1, <1>5, <2>2
    <3>2. Cardinality(S(k + 1)) \in Nat
      BY <1>2
    <3> HIDE DEF S
    <3> QED
      BY <2>2, <3>1, <3>2
  <2> QED
    BY <2>1, <2>2
<1> HIDE DEF S
<1> QED
  BY <1>1, <1>2, <1>3, <1>4, <1>5

LEMMA CountsAppended ==
  ASSUME Owned, NEW e \in Events, NEW f \in Events, ready_task_deque_' = Append(ready_task_deque_,
           f)
  PROVE  InReady(e, 1)' = InReady(e, 1) + (IF f = e THEN 1 ELSE 0)
<1>1. PICK n \in Nat : n = Len(ready_task_deque_)
  BY DEF Owned
<1>2. Len(ready_task_deque_') = n + 1 /\ ready_task_deque_'[n + 1] = f
      /\ \A i \in 1 .. n : ready_task_deque_'[i] = ready_task_deque_[i]
  BY <1>1 DEF Owned
<1> DEFINE S == {i \in 1 .. n : ready_task_deque_[i] = e}
           T == {i \in 1 .. n + 1 : ready_task_deque_'[i] = e}
<1>3. InReady(e, 1) = Cardinality(S) /\ InReady(e, 1)' = Cardinality(T)
  BY <1>1, <1>2 DEF InReady
<1>4. IsFiniteSet(S) /\ Cardinality(S) \in Nat
  <2>1. IsFiniteSet(1 .. n)
    BY <1>1, FS_Interval
  <2>2. IsFiniteSet(S)
    BY <2>1, FS_Subset
  <2> QED
    BY <2>2, FS_CardinalityType
<1>5. CASE f = e
  <2>1. T = S \cup {n + 1} /\ n + 1 \notin S
    BY <1>1, <1>2, <1>5
  <2> HIDE DEF S, T
  <2> QED
    BY <1>3, <1>4, <1>5, <2>1, FS_AddElement
<1>6. CASE f # e
  <2>1. T = S
    BY <1>1, <1>2, <1>6
  <2> HIDE DEF S, T
  <2> QED
    BY <1>3, <1>4, <1>6, <2>1
<1> QED
  BY <1>5, <1>6

LEMMA HandedIs ==
  ASSUME NEW e \in Events
  PROVE  IsFiniteSet(Handed(e)) /\ Cardinality(Handed(e)) \in Nat
<1>1. IsFiniteSet(Tasks)
  BY WorkersAre, FS_Interval DEF Tasks
<1>2. IsFiniteSet(Handed(e))
  BY <1>1, FS_Subset DEF Handed
<1> QED
  BY <1>2, FS_CardinalityType

(* Only the holder of the mutex is in the loop of run_and_clear_all_ready_task. *)
LEMMA FromIs ==
  ASSUME PoolInv
  PROVE  /\ ready_task_deque_mutex_ = Nobody => From = 1
         /\ \A c \in Callers : doing[c].op = "run" => From = doing[c].k
         /\ Nobody \notin Callers /\ 0 \notin Events
<1>1. Loops
  BY DEF PoolInv
<1>2. Nobody \notin Callers /\ 0 \notin Events
  BY PoolAssumption, EventAssumption
<1>3. ready_task_deque_mutex_ = Nobody => From = 1
  BY <1>1, <1>2 DEF Loops, From
<1>4. ASSUME NEW c \in Callers, doing[c].op = "run" PROVE From = doing[c].k
  <2>1. \A d \in Callers : doing[d].op = "run" <=> d = c
    BY <1>1, <1>4 DEF Loops
  <2>2. (CHOOSE d \in Callers : doing[d].op = "run") = c
    BY <2>1
  <2> QED
    BY <1>4, <2>2 DEF From
<1> QED
  BY <1>2, <1>3, <1>4

-----------------------------------------------------------------------------
(* The steps of the event pool that do not enter the pool. *)
LEMMA Aside ==
  ASSUME PoolInv, UNCHANGED poolVars
  PROVE  /\ PoolTypes' /\ Queues' /\ Joining'
         /\ UNCHANGED <<call, workers_, made, phase, destructor>> /\ Usable' = Usable
<1>1. Stir
  BY DEF Stir
<1> QED
  BY <1>1, StirInv DEF poolVars, Usable

LEMMA PushEventKeeps == ASSUME PoolInv, NEW c \in Callers, push_event(c) PROVE PoolInv'
<1>1. /\ EventTypeOK /\ Loops /\ Numbered /\ Settled /\ Owned
  BY DEF PoolInv
<1>2. PICK e \in Events : event_deque_' = Append(event_deque_, e)
  BY DEF push_event
<1>3. /\ UNCHANGED <<poolVars, ready_task_deque_, event_deque_mutex_, ready_task_deque_mutex_,
                     doing, invokes, fired, cleared>>
      /\ event_deque_mutex_ = Nobody /\ Usable
  BY DEF push_event, Free
<1>4. /\ PoolTypes' /\ Queues' /\ Joining'
      /\ UNCHANGED <<call, workers_, made, phase, destructor>> /\ Usable' = Usable
  BY <1>3, Aside
<1>5. Loops'
  <2>1. \A d \in Callers : doing[d].op # "spin"
    BY <1>1, <1>3, FromIs DEF Loops
  <2> QED
    BY <1>1, <1>3, <1>4, <2>1 DEF Loops
<1>6. Owned'
  <2>1. event_deque_' \in Seq(Events) /\ \A f : Pushed(f) => Pushed(f)'
    BY <1>1, <1>2 DEF Owned, Pushed
  <2>2. Filled
    BY <1>3 DEF Filled, Usable
  <2> QED
    BY <1>1, <1>3, <2>1, <2>2 DEF Owned
<1>7. Settled'
  BY <1>1, <1>3 DEF Settled, Filled, Usable, InReady, Handed, From
<1>8. Numbered' /\ EventTypeOK'
  BY <1>1, <1>3, <1>4 DEF Numbered, EventTypeOK, PoolTypes
<1> QED
  BY <1>4, <1>5, <1>6, <1>7, <1>8 DEF PoolInv

LEMMA SpinKeeps == ASSUME PoolInv, NEW c \in Callers, Spin(c) PROVE PoolInv'
<1>1. /\ EventTypeOK /\ Loops /\ Numbered /\ Settled /\ Owned
  BY DEF PoolInv
<1>2. /\ UNCHANGED <<poolVars, event_deque_, ready_task_deque_, ready_task_deque_mutex_, invokes,
           fired, cleared>>
      /\ event_deque_mutex_ = Nobody /\ event_deque_mutex_' = c /\ Usable /\ doing[c] = Out
      /\ doing' = [doing EXCEPT ![c] = [op |-> "spin", k |-> 1]]
      /\ event_deque_ # <<>>
  BY DEF Spin, Free
<1>3. /\ PoolTypes' /\ Queues' /\ Joining'
      /\ UNCHANGED <<call, workers_, made, phase, destructor>> /\ Usable' = Usable
  BY <1>2, Aside
<1>4. /\ doing'[c] = [op |-> "spin", k |-> 1]
      /\ \A d \in Callers : d # c => doing'[d] = doing[d] /\ doing[d].op # "spin"
  BY <1>1, <1>2, FromIs DEF EventTypeOK, Loops
<1>5. Loops'
  <2>1. 1 \in 1 .. Len(event_deque_)
    BY <1>1, <1>2 DEF Owned
  <2> QED
    BY <1>1, <1>2, <1>3, <1>4, <2>1 DEF Loops, Out
<1>6. EventTypeOK'
  BY <1>1, <1>2, <1>3 DEF EventTypeOK, PoolTypes
<1>7. Numbered' /\ Owned'
  BY <1>1, <1>2, <1>3 DEF Numbered, Owned, Filled, Pushed
<1>8. Settled'
  <2>1. From' = From
    <3>1. \A d \in Callers : doing'[d].op = "run" <=> doing[d].op = "run"
      BY <1>2, <1>4 DEF Out
    <3>2. \A d \in Callers : doing[d].op = "run" => doing'[d].k = doing[d].k
      BY <1>2, <1>4 DEF Out
    <3> QED
      BY <3>1, <3>2 DEF From
  <2> QED
    BY <1>1, <1>2, <1>3, <2>1 DEF Settled, Filled, InReady, Handed
<1> QED
  BY <1>3, <1>5, <1>6, <1>7, <1>8 DEF PoolInv

LEMMA SpinEventKeeps == ASSUME PoolInv, NEW c \in Callers, SpinEvent(c) PROVE PoolInv'
<1>1. /\ EventTypeOK /\ Loops /\ Numbered /\ Settled /\ Owned
  BY DEF PoolInv
<1>2. PICK k : k = doing[c].k
  OBVIOUS
<1>3. PICK e : e = event_deque_[k]
  OBVIOUS
<1>4. /\ doing[c].op = "spin"
      /\ \/ UNCHANGED <<ready_task_deque_, fired>>
         \/ /\ ready_task_deque_mutex_ = Nobody
            /\ ready_task_deque_' = Append(ready_task_deque_, e)
            /\ fired' = [fired EXCEPT ![e] = @ + 1]
      /\ doing' = [doing EXCEPT ![c] = IF k = Len(event_deque_) THEN Out
           ELSE [@ EXCEPT !.k = k + 1]]
      /\ event_deque_mutex_' = (IF k = Len(event_deque_) THEN Nobody ELSE c)
      /\ UNCHANGED <<poolVars, event_deque_, ready_task_deque_mutex_, invokes, cleared>>
  BY <1>2, <1>3 DEF SpinEvent
<1>5. /\ PoolTypes' /\ Queues' /\ Joining'
      /\ UNCHANGED <<call, workers_, made, phase, destructor>> /\ Usable' = Usable
  BY <1>4, Aside
<1>6. /\ k \in 1 .. Len(event_deque_) /\ e \in Events /\ Usable /\ event_deque_mutex_ = c
      /\ doing[c] = [op |-> "spin", k |-> k]
  <2>1. k \in 1 .. Len(event_deque_) /\ Usable /\ event_deque_mutex_ = c
    BY <1>1, <1>2, <1>4 DEF Loops, Out
  <2>2. doing[c] = [op |-> "spin", k |-> k]
    BY <1>1, <1>2, <1>4 DEF EventTypeOK
  <2> QED
    BY <1>1, <1>3, <2>1, <2>2 DEF Owned
<1>7. /\ doing'[c] = (IF k = Len(event_deque_) THEN Out ELSE [op |-> "spin", k |-> k + 1])
      /\ \A d \in Callers : d # c => doing'[d] = doing[d] /\ doing[d].op # "spin"
      /\ doing' \in [Callers -> [op : {"out", "spin", "run"}, k : Nat]]
  <2>1. k \in Nat
    BY <1>1, <1>6 DEF Owned
  <2> QED
    BY <1>1, <1>4, <1>6, <2>1 DEF EventTypeOK, Loops, Out
<1>8. ready_task_deque_' \in Seq(Events) /\ (ready_task_deque_mutex_ # Nobody
        => ready_task_deque_' = ready_task_deque_)
  <2>1. ready_task_deque_ \in Seq(Events)
    BY <1>1 DEF Owned
  <2>2. Append(ready_task_deque_, e) \in Seq(Events)
    BY <1>6, <2>1
  <2>3. CASE UNCHANGED ready_task_deque_
    BY <2>1, <2>3
  <2>4. CASE /\ ready_task_deque_mutex_ = Nobody
             /\ ready_task_deque_' = Append(ready_task_deque_, e)
    BY <2>2, <2>4
  <2> QED
    BY <1>4, <2>3, <2>4
<1>9. Loops'
  <2>1. k # Len(event_deque_) => k + 1 \in 1 .. Len(event_deque_)
    BY <1>1, <1>6 DEF Owned
  <2>2. ASSUME NEW d \in Callers
        PROVE  /\ doing'[d].op = "run" <=> ready_task_deque_mutex_' = d
               /\ doing'[d].op = "spin" <=> event_deque_mutex_' = d
               /\ doing'[d].op = "run" => doing'[d].k \in 1 .. Len(ready_task_deque_') + 1
               /\ doing'[d].op = "spin" => doing'[d].k \in 1 .. Len(event_deque_')
    <3>1. CASE d = c
      <4>1. doing'[c].op # "run" /\ ready_task_deque_mutex_ # c
        BY <1>1, <1>6, <1>7 DEF Loops, Out
      <4> QED
        BY <1>4, <1>7, <2>1, <3>1, <4>1, FromIs DEF Out
    <3>2. CASE d # c
      <4>1. /\ doing[d].op = "run" <=> ready_task_deque_mutex_ = d
            /\ doing[d].op = "run" => doing[d].k \in 1 .. Len(ready_task_deque_) + 1
        BY <1>1 DEF Loops
      <4>2. doing[d].op = "run" => ready_task_deque_' = ready_task_deque_
        BY <1>8, <4>1, FromIs
      <4> QED
        BY <1>4, <1>7, <3>2, <4>1, <4>2, FromIs
    <3> QED
      BY <3>1, <3>2
  <2> QED
    BY <1>1, <1>4, <1>5, <1>6, <2>2 DEF Loops
<1>10. EventTypeOK'
  <2>1. \A i \in DOMAIN ready_task_deque_' : ready_task_deque_'[i] \in Events
    BY <1>8
  <2> QED
    BY <1>5, <1>7, <2>1 DEF EventTypeOK, PoolTypes
<1>11. Numbered'
  BY <1>1, <1>4, <1>5 DEF Numbered
<1>12. Filled /\ Filled'
  BY <1>5, <1>6 DEF Filled, Usable
<1>13. Owned'
  <2>1. Pushed(e) /\ \A f : Pushed(f)' <=> Pushed(f)
    BY <1>1, <1>3, <1>4, <1>6 DEF Pushed, Owned
  <2>2. \A i \in DOMAIN ready_task_deque_' : Pushed(ready_task_deque_'[i])
    <3>1. CASE ready_task_deque_' = ready_task_deque_
      BY <1>1, <1>12, <3>1 DEF Owned
    <3>2. CASE ready_task_deque_' = Append(ready_task_deque_, e)
      <4>1. \A i \in DOMAIN ready_task_deque_' :
              ready_task_deque_'[i] = e \/ (i \in DOMAIN ready_task_deque_
                /\ ready_task_deque_'[i] = ready_task_deque_[i])
        BY <1>1, <1>6, <3>2 DEF Owned
      <4> QED
        BY <1>1, <1>12, <2>1, <4>1 DEF Owned
    <3> QED
      BY <1>4, <3>1, <3>2
  <2> QED
    BY <1>1, <1>4, <1>8, <1>12, <2>1, <2>2 DEF Owned
<1>14. From' = From
  <2>1. \A d \in Callers : doing'[d].op = "run" <=> doing[d].op = "run"
    BY <1>6, <1>7 DEF Out
  <2>2. \A d \in Callers : doing[d].op = "run" => doing'[d].k = doing[d].k
    BY <1>6, <1>7 DEF Out
  <2> QED
    BY <2>1, <2>2 DEF From
<1>15. Settled'
  <2>1. \A f \in Events : Handed(f)' = Handed(f)
    BY <1>4 DEF Handed
  <2>2. CASE UNCHANGED <<ready_task_deque_, fired>>
    BY <1>1, <1>4, <1>12, <1>14, <2>1, <2>2 DEF Settled, InReady
  <2>3. CASE /\ ready_task_deque_mutex_ = Nobody
             /\ ready_task_deque_' = Append(ready_task_deque_, e)
             /\ fired' = [fired EXCEPT ![e] = @ + 1]
    <3>1. From = 1 /\ From' = 1
      BY <1>14, <2>3, FromIs
    <3>2. fired' \in [Events -> Nat] /\ cleared' = cleared /\ cleared \in [Events -> Nat]
      BY <1>1, <1>4, <1>6, <2>3 DEF Settled
    <3>3. ASSUME NEW f \in Events
          PROVE  fired'[f] = InReady(f, 1)' + Cardinality(Handed(f)) + cleared[f]
      <4>1. InReady(f, 1)' = InReady(f, 1) + (IF e = f THEN 1 ELSE 0) /\ InReady(f, 1) \in Nat
        BY <1>1, <1>6, <2>3, CountsAppended, Counts
      <4>2. fired[f] = InReady(f, 1) + Cardinality(Handed(f)) + cleared[f]
        BY <1>1, <1>12, <3>1 DEF Settled
      <4>3. Cardinality(Handed(f)) \in Nat /\ cleared[f] \in Nat
        BY <1>1, HandedIs DEF Settled
      <4>4. fired'[f] = fired[f] + (IF e = f THEN 1 ELSE 0)
        BY <1>1, <1>6, <2>3, <4>2, <4>3, <4>1 DEF Settled
      <4> QED
        BY <4>1, <4>2, <4>3, <4>4
    <3> QED
      BY <1>1, <1>12, <2>1, <3>1, <3>2, <3>3 DEF Settled
  <2> QED
    BY <1>4, <2>2, <2>3
<1> QED
  BY <1>5, <1>9, <1>10, <1>11, <1>13, <1>15 DEF PoolInv

LEMMA RunReadyKeeps == ASSUME PoolInv, NEW c \in Callers, RunReady(c) PROVE PoolInv'
<1>1. /\ EventTypeOK /\ Loops /\ Numbered /\ Settled /\ Owned
  BY DEF PoolInv
<1>2. /\ UNCHANGED <<poolVars, event_deque_, ready_task_deque_, event_deque_mutex_, invokes, fired,
           cleared>>
      /\ ready_task_deque_mutex_ = Nobody /\ ready_task_deque_mutex_' = c /\ Usable
           /\ doing[c] = Out
      /\ doing' = [doing EXCEPT ![c] = [op |-> "run", k |-> 1]]
  BY DEF RunReady, Free
<1>3. /\ PoolTypes' /\ Queues' /\ Joining'
      /\ UNCHANGED <<call, workers_, made, phase, destructor>> /\ Usable' = Usable
  BY <1>2, Aside
<1>4. /\ doing'[c] = [op |-> "run", k |-> 1]
      /\ \A d \in Callers : d # c => doing'[d] = doing[d] /\ doing[d].op # "run"
  BY <1>1, <1>2, FromIs DEF EventTypeOK, Loops
<1>5. Loops'
  <2>1. 1 \in 1 .. Len(ready_task_deque_) + 1
    BY <1>1 DEF Owned
  <2> QED
    BY <1>1, <1>2, <1>3, <1>4, <2>1 DEF Loops, Out
<1>6. EventTypeOK'
  BY <1>1, <1>2, <1>3 DEF EventTypeOK, PoolTypes
<1>7. Numbered' /\ Owned'
  BY <1>1, <1>2, <1>3 DEF Numbered, Owned, Filled, Pushed
<1>8. Settled'
  <2>1. From = 1 /\ From' = 1
    <3>1. \A d \in Callers : doing'[d].op = "run" <=> d = c
      BY <1>4
    <3>2. (CHOOSE d \in Callers : doing'[d].op = "run") = c
      BY <3>1
    <3> QED
      BY <1>2, <1>4, <3>2, FromIs DEF From
  <2> QED
    BY <1>1, <1>2, <1>3, <2>1 DEF Settled, Filled, InReady, Handed
<1> QED
  BY <1>3, <1>5, <1>6, <1>7, <1>8 DEF PoolInv

LEMMA RunAddKeeps == ASSUME PoolInv, NEW c \in Callers, RunAdd(c) PROVE PoolInv'
<1>1. /\ EventTypeOK /\ Loops /\ Numbered /\ Settled /\ Owned
  BY DEF PoolInv
<1>2. PICK k : k = doing[c].k
  OBVIOUS
<1>3. PICK t : t = made + 1
  OBVIOUS
<1>4. PICK how \in [overload : {"ptr", "bind"}, index : Nat] : how = [overload |-> "bind", index |-> 0]
  OBVIOUS
<1>5. /\ doing[c].op = "run" /\ k <= Len(ready_task_deque_)
      /\ add_task_to(c, how)
      /\ invokes' = [invokes EXCEPT ![t] = ready_task_deque_[k]]
      /\ doing' = [doing EXCEPT ![c].k = k + 1]
      /\ UNCHANGED <<event_deque_, ready_task_deque_, event_deque_mutex_, ready_task_deque_mutex_,
           fired, cleared>>
  BY <1>2, <1>3, <1>4 DEF RunAdd
<1>6. Usable
  BY <1>1, <1>5 DEF Loops, Out
<1>7. /\ PoolTypes' /\ Queues' /\ Joining'
      /\ Target(how) \in Workers /\ t \in Tasks /\ phase[t] = "new"
  BY <1>3, <1>5, <1>6, AddInv
<1>8. /\ made' = t /\ made \in Nat /\ Usable' /\ destructor' = destructor
      /\ call' = [call EXCEPT ![c] = [op |-> "notify", worker |-> Target(how)]]
      /\ workers_' >= workers_ /\ workers_ \in Nat /\ workers_' \in Nat
  <2>1. workers_ \in Nat /\ made \in Nat
    BY <1>1, WorkersAre DEF EventTypeOK
  <2>2. Target(how) \in Nat
    BY <1>7, WorkersAre
  <2> QED
    BY <1>3, <1>5, <1>6, <2>1, <2>2 DEF add_task_to, closing, Usable
<1>9. /\ doing[c] = [op |-> "run", k |-> k] /\ k \in 1 .. Len(ready_task_deque_) /\ k \in Nat
      /\ Len(ready_task_deque_) \in Nat
      /\ ready_task_deque_mutex_ = c /\ ready_task_deque_[k] \in Events
  <2>1. k \in 1 .. Len(ready_task_deque_) /\ k \in Nat /\ Len(ready_task_deque_) \in Nat
    BY <1>1, <1>2, <1>5 DEF Loops, Owned
  <2>2. doing[c] = [op |-> "run", k |-> k]
    BY <1>1, <1>2, <1>5 DEF EventTypeOK
  <2> QED
    BY <1>1, <1>5, <2>1, <2>2 DEF Owned, Loops
<1>10. /\ doing'[c] = [op |-> "run", k |-> k + 1]
       /\ \A d \in Callers : d # c => doing'[d] = doing[d] /\ doing[d].op # "run"
       /\ doing' \in [Callers -> [op : {"out", "spin", "run"}, k : Nat]]
  BY <1>1, <1>5, <1>9 DEF EventTypeOK, Loops
<1>11. Loops'
  <2>1. ASSUME NEW d \in Callers
        PROVE  /\ call'[d] \in [op : {"idle", "notify", "spin"}, worker : Workers]
               /\ call'[d].op = "spin" => call'[d].worker < workers_'
    <3>1. PICK w \in Workers : w = Target(how)
      BY <1>7
    <3>2. call'[d] = call[d] \/ call'[d] = [op |-> "notify", worker |-> w]
      BY <1>8, <3>1
    <3>3. /\ call[d] \in [op : {"idle", "notify", "spin"}, worker : Workers]
               /\ call[d].worker \in Nat
          /\ call[d].op = "spin" => call[d].worker < workers_
      BY <1>1, WorkersAre DEF Loops
    <3> QED
      BY <1>8, <3>1, <3>2, <3>3
  <2>2. ASSUME NEW d \in Callers
        PROVE  /\ doing'[d].op = "run" <=> ready_task_deque_mutex_' = d
               /\ doing'[d].op = "spin" <=> event_deque_mutex_' = d
               /\ doing'[d].op = "run" => doing'[d].k \in 1 .. Len(ready_task_deque_') + 1
               /\ doing'[d].op = "spin" => doing'[d].k \in 1 .. Len(event_deque_')
    BY <1>1, <1>5, <1>9, <1>10 DEF Loops
  <2> QED
    BY <1>1, <1>5, <1>8, <2>1, <2>2 DEF Loops
<1>12. EventTypeOK'
  BY <1>1, <1>5, <1>7, <1>10 DEF EventTypeOK, PoolTypes
<1>13. /\ invokes' \in [Tasks -> Events \cup {0}] /\ invokes'[t] = ready_task_deque_[k]
            /\ invokes[t] = 0
       /\ \A s \in Tasks : s # t => invokes'[s] = invokes[s]
  <2>1. t > made
    BY <1>3, <1>8
  <2> QED
    BY <1>1, <1>5, <1>7, <1>9, <2>1 DEF Numbered
<1>14. Numbered'
  <2>1. ASSUME NEW s \in Tasks, s > made' PROVE invokes'[s] = 0
    <3>1. s \in Nat
      BY WorkersAre
    <3>2. s > made /\ s # t
      BY <1>3, <1>8, <2>1, <3>1
    <3> QED
      BY <1>1, <1>13, <3>2 DEF Numbered
  <2> QED
    BY <1>13, <2>1 DEF Numbered
<1>15. Filled /\ Filled'
  BY <1>6, <1>8 DEF Filled, Usable
<1>16. Owned'
  <2>1. Pushed(ready_task_deque_[k]) /\ \A f : Pushed(f)' <=> Pushed(f)
    BY <1>1, <1>5, <1>9, <1>15 DEF Owned, Pushed
  <2> QED
    BY <1>1, <1>5, <1>13, <1>15, <2>1 DEF Owned
<1>17. From = k /\ From' = k + 1
  <2>1. \A d \in Callers : doing'[d].op = "run" <=> d = c
    BY <1>10
  <2>2. (CHOOSE d \in Callers : doing'[d].op = "run") = c
    BY <2>1
  <2> QED
    BY <1>5, <1>9, <1>10, <2>2, FromIs DEF From
<1>18. Settled'
  <2>1. ASSUME NEW e \in Events
        PROVE  fired[e] = InReady(e, k + 1) + Cardinality(Handed(e)') + cleared[e]
    <3>1. /\ InReady(e, k) = InReady(e, k + 1) + (IF ready_task_deque_[k] = e THEN 1 ELSE 0)
          /\ InReady(e, k + 1) \in Nat
      BY <1>1, <1>9, Counts
    <3>2. IsFiniteSet(Handed(e)) /\ Cardinality(Handed(e)) \in Nat /\ cleared[e] \in Nat
      BY <1>1, HandedIs DEF Settled
    <3>3. fired[e] = InReady(e, k) + Cardinality(Handed(e)) + cleared[e]
      BY <1>1, <1>15, <1>17 DEF Settled
    <3>4. Cardinality(Handed(e)') = Cardinality(Handed(e)) + (IF ready_task_deque_[k] = e THEN 1
            ELSE 0)
      <4>1. t \notin Handed(e)
        BY <1>13, FromIs DEF Handed
      <4>2. CASE ready_task_deque_[k] = e
        <5>1. Handed(e)' = Handed(e) \cup {t}
          BY <1>7, <1>13, <4>2 DEF Handed
        <5>2. Cardinality(Handed(e) \cup {t}) = Cardinality(Handed(e)) + 1
          BY <3>2, <4>1, FS_AddElement
        <5> QED
          BY <4>2, <5>1, <5>2
      <4>3. CASE ready_task_deque_[k] # e
        <5>1. Handed(e)' = Handed(e)
          BY <1>7, <1>13, <4>3, FromIs DEF Handed
        <5> QED
          BY <3>2, <4>3, <5>1
      <4> QED
        BY <4>2, <4>3
    <3> QED
      BY <3>1, <3>2, <3>3, <3>4
  <2>2. \A e \in Events : InReady(e, From)' = InReady(e, k + 1)
    BY <1>5, <1>17 DEF InReady
  <2> QED
    BY <1>1, <1>5, <2>1, <2>2 DEF Settled
<1> QED
  BY <1>7, <1>11, <1>12, <1>14, <1>16, <1>18 DEF PoolInv

LEMMA RunClearKeeps == ASSUME PoolInv, NEW c \in Callers, RunClear(c) PROVE PoolInv'
<1>1. /\ EventTypeOK /\ Loops /\ Numbered /\ Settled /\ Owned
  BY DEF PoolInv
<1>2. /\ doing[c].op = "run" /\ doing[c].k > Len(ready_task_deque_)
      /\ ready_task_deque_' = <<>> /\ ready_task_deque_mutex_' = Nobody
      /\ doing' = [doing EXCEPT ![c] = Out]
      /\ UNCHANGED <<poolVars, event_deque_, event_deque_mutex_, invokes, fired, cleared>>
  BY DEF RunClear
<1>3. /\ PoolTypes' /\ Queues' /\ Joining'
      /\ UNCHANGED <<call, workers_, made, phase, destructor>> /\ Usable' = Usable
  BY <1>2, Aside
<1>4. /\ doing'[c] = Out
      /\ \A d \in Callers : d # c => doing'[d] = doing[d] /\ doing[d].op # "run"
      /\ ready_task_deque_mutex_ = c /\ Usable /\ doing[c].k \in Nat
  BY <1>1, <1>2 DEF EventTypeOK, Loops, Out
<1>5. \A d \in Callers : doing'[d].op # "run"
  BY <1>4 DEF Out
<1>6. Loops'
  <2>1. event_deque_mutex_ # c
    BY <1>1, <1>2 DEF Loops
  <2> QED
    BY <1>1, <1>2, <1>3, <1>4, <1>5, <2>1, FromIs DEF Loops, Out
<1>7. EventTypeOK'
  <2>1. Out \in [op : {"out", "spin", "run"}, k : Nat]
    BY DEF Out
  <2> QED
    BY <1>1, <1>2, <1>3, <2>1 DEF EventTypeOK, PoolTypes
<1>8. Numbered' /\ Owned'
  BY <1>1, <1>2, <1>3 DEF Numbered, Owned, Filled, Pushed
<1>9. Settled'
  <2>1. From = doing[c].k /\ From' = 1
    BY <1>2, <1>5, FromIs DEF From
  <2>2. Owned'
    BY <1>8
  <2>3. \A e \in Events : InReady(e, From) = 0
    BY <1>1, <1>2, <1>4, <2>1, Counts
  <2>4. \A e \in Events : InReady(e, 1)' = 0
    <3> SUFFICES ASSUME NEW e \in Events PROVE InReady(e, 1)' = 0
      OBVIOUS
    <3>1. {i \in 1 .. Len(ready_task_deque_') : ready_task_deque_'[i] = e} = {}
      BY <1>2
    <3> QED
      BY <3>1, FS_EmptySet DEF InReady
  <2> QED
    BY <1>1, <1>2, <1>3, <2>1, <2>3, <2>4 DEF Settled, Filled, Handed
<1> QED
  BY <1>3, <1>6, <1>7, <1>8, <1>9 DEF PoolInv

LEMMA ClearAllKeeps == ASSUME PoolInv, NEW c \in Callers, clear_all_ready_task(c) PROVE PoolInv'
<1>1. /\ EventTypeOK /\ Loops /\ Numbered /\ Settled /\ Owned
  BY DEF PoolInv
<1>2. /\ ready_task_deque_mutex_ = Nobody /\ Usable
      /\ cleared' = [e \in Events |-> cleared[e] + InReady(e, 1)]
      /\ ready_task_deque_' = <<>>
      /\ UNCHANGED <<poolVars, event_deque_, event_deque_mutex_, ready_task_deque_mutex_, doing,
           invokes, fired>>
  BY DEF clear_all_ready_task, Free
<1>3. /\ PoolTypes' /\ Queues' /\ Joining'
      /\ UNCHANGED <<call, workers_, made, phase, destructor>> /\ Usable' = Usable
  BY <1>2, Aside
<1>4. Loops'
  <2>1. \A d \in Callers : doing[d].op # "run"
    BY <1>1, <1>2, FromIs DEF Loops
  <2> QED
    BY <1>1, <1>2, <1>3, <2>1 DEF Loops
<1>5. EventTypeOK'
  BY <1>1, <1>2, <1>3 DEF EventTypeOK, PoolTypes
<1>6. Numbered' /\ Owned'
  BY <1>1, <1>2, <1>3 DEF Numbered, Owned, Filled, Pushed
<1>7. Settled'
  <2>1. From = 1 /\ From' = 1
    BY <1>2, FromIs DEF From
  <2>2. Filled
    BY <1>2 DEF Filled, Usable
  <2>3. ASSUME NEW e \in Events
        PROVE  /\ fired[e] = InReady(e, 1)' + Cardinality(Handed(e)) + (cleared[e] + InReady(e, 1))
               /\ cleared[e] + InReady(e, 1) \in Nat
    <3>1. InReady(e, 1) \in Nat /\ Cardinality(Handed(e)) \in Nat /\ cleared[e] \in Nat
      BY <1>1, Counts, HandedIs DEF Settled
    <3>2. fired[e] = InReady(e, 1) + Cardinality(Handed(e)) + cleared[e]
      BY <1>1, <2>1, <2>2 DEF Settled
    <3>3. {i \in 1 .. Len(ready_task_deque_') : ready_task_deque_'[i] = e} = {}
      BY <1>2
    <3>4. InReady(e, 1)' = 0
      BY <3>3, FS_EmptySet DEF InReady
    <3> QED
      BY <3>1, <3>2, <3>4
  <2>4. \A e \in Events : Handed(e)' = Handed(e)
    BY <1>2 DEF Handed
  <2>5. cleared' \in [Events -> Nat] /\ \A e \in Events : cleared'[e] = cleared[e] + InReady(e, 1)
    BY <1>2, <2>3
  <2>6. fired' \in [Events -> Nat] /\ fired' = fired
    BY <1>1, <1>2 DEF Settled
  <2>7. \A e \in Events : fired'[e] = InReady(e, From)' + Cardinality(Handed(e)') + cleared'[e]
    <3> SUFFICES ASSUME NEW e \in Events
                 PROVE  fired'[e] = InReady(e, From)' + Cardinality(Handed(e)') + cleared'[e]
      OBVIOUS
    <3>1. InReady(e, From)' = InReady(e, 1)'
      BY <2>1 DEF InReady
    <3> QED
      BY <2>3, <2>4, <2>5, <2>6, <3>1
  <2> QED
    BY <2>5, <2>6, <2>7 DEF Settled
<1> QED
  BY <1>3, <1>4, <1>5, <1>6, <1>7 DEF PoolInv

LEMMA FreeDequesKeeps == ASSUME PoolInv, FreeDeques PROVE PoolInv'
<1>1. /\ EventTypeOK /\ Loops /\ Numbered /\ Settled /\ Owned
  BY DEF PoolInv
<1>2. /\ destructor.at = "done"
      /\ event_deque_' = <<>> /\ ready_task_deque_' = <<>>
      /\ UNCHANGED <<poolVars, event_deque_mutex_, ready_task_deque_mutex_, doing, invokes, fired,
           cleared>>
  BY DEF FreeDeques
<1>3. /\ PoolTypes' /\ Queues' /\ Joining'
      /\ UNCHANGED <<call, workers_, made, phase, destructor>> /\ Usable' = Usable
  BY <1>2, Aside
<1>4. Loops'
  <2>1. \A d \in Callers : doing[d] = Out
    BY <1>1, <1>2 DEF Loops, Usable
  <2> QED
    BY <1>1, <1>2, <1>3, <2>1 DEF Loops, Out
<1>5. ~Filled'
  BY <1>2, <1>3 DEF Filled
<1>6. EventTypeOK' /\ Numbered' /\ Owned' /\ Settled'
  BY <1>1, <1>2, <1>3, <1>5 DEF EventTypeOK, PoolTypes, Numbered, Owned, Settled
<1> QED
  BY <1>3, <1>4, <1>6 DEF PoolInv

LEMMA PoolInvNext == ASSUME PoolInv, [EventNext]_eventPoolVars PROVE PoolInv'
<1>1. CASE \E c \in Callers : \/ push_event(c) \/ Spin(c) \/ SpinEvent(c)
                               \/ RunReady(c) \/ RunAdd(c) \/ RunClear(c) \/ clear_all_ready_task(c)
  BY <1>1, PushEventKeeps, SpinKeeps, SpinEventKeeps, RunReadyKeeps, RunAddKeeps, RunClearKeeps,
    ClearAllKeeps
<1>2. CASE FreeDeques
  BY <1>2, FreeDequesKeeps
<1>3. CASE PoolOnly
  BY <1>3, PoolOnlyKeeps
<1> QED
  BY <1>1, <1>2, <1>3 DEF EventNext, PoolOnly

LEMMA PoolInvInit == EventInit => PoolInv
<1> SUFFICES ASSUME EventInit PROVE PoolInv
  OBVIOUS
<1>1. /\ Reserve \in Nat /\ Reserve > 0 /\ Capacity \in Nat /\ Capacity > 0 /\ MaxTasks \in Nat
      /\ 0 \in Workers /\ Nobody \notin Callers /\ 0 \notin Events /\ 0 \notin Tasks
  BY PoolAssumption, EventAssumption, WorkersAre DEF Tasks
<1>2. \A w \in Workers : size(w) = 0
  <2>1. (0 + Capacity - 0) % Capacity = 0
    BY <1>1, SizeIs
  <2> QED
    BY <2>1 DEF EventInit, PoolInit, size
<1>3. EventTypeOK
  BY <1>1 DEF EventTypeOK, EventInit, PoolInit, NoTask, Out
<1>4. Loops
  BY <1>1 DEF Loops, EventInit, PoolInit, Out, Idle, Usable
<1>5. Numbered
  BY DEF Numbered, EventInit
<1>6. Owned
  BY DEF Owned, EventInit
<1>7. Settled
  <2>1. \A c \in Callers : doing[c].op # "run"
    BY DEF EventInit, Out
  <2>2. \A e \in Events : InReady(e, From) = 0
    <3> SUFFICES ASSUME NEW e \in Events PROVE InReady(e, From) = 0
      OBVIOUS
    <3>1. From = 1
      BY <2>1 DEF From
    <3>2. {i \in 1 .. Len(ready_task_deque_) : ready_task_deque_[i] = e} = {}
      BY DEF EventInit
    <3> QED
      BY <3>1, <3>2, FS_EmptySet DEF InReady
  <2>3. \A e \in Events : Cardinality(Handed(e)) = 0
    <3> SUFFICES ASSUME NEW e \in Events PROVE Cardinality(Handed(e)) = 0
      OBVIOUS
    <3>1. Handed(e) = {}
      BY <1>1 DEF Handed, EventInit
    <3> QED
      BY <3>1, FS_EmptySet
  <2> QED
    BY <2>2, <2>3 DEF Settled, EventInit
<1>8. Joining
  BY DEF Joining, EventInit, PoolInit, Destroyed
<1>9. Queues
  <2>1. \A w \in Workers, i \in 0 .. Capacity - 1 : ~(i < size(w))
    BY <1>1, <1>2
  <2>2. \A t \in Tasks : phase[t] = "new" /\ t > made
    BY <1>1, WorkersAre DEF EventInit, PoolInit
  <2> QED
    BY <2>1, <2>2 DEF Queues, EventInit, PoolInit, NoTask
<1> QED
  BY <1>3, <1>4, <1>5, <1>6, <1>7, <1>8, <1>9 DEF PoolInv

LEMMA PoolInvAlways == EventSpec => []PoolInv
  BY PoolInvInit, PoolInvNext, PTL DEF EventSpec

(* The task of an event that was found true is handed to the pool once or     *)
(* cleared once, whatever the interleaving of spin_once with                  *)
(* run_and_clear_all_ready_task and of both with the workers, and the raw     *)
(* pointer a running pool task was given (event.cpp:30) is owned by a deque,  *)
(* because ~EventPool joins the workers before the deques go.                 *)
THEOREM ReadyTasksAreHandedOnce == EventSpec => []ReadyIsHandedOnce
<1>1. PoolInv => ReadyIsHandedOnce
  <2> SUFFICES ASSUME PoolInv PROVE ReadyIsHandedOnce
    OBVIOUS
  <2>1. EventTypeOK /\ Settled /\ Owned /\ Joining /\ Queues
    BY DEF PoolInv
  <2>2. event_deque_ # <<>> =>
          \A e \in Events : fired[e] = InReady(e, From) + Cardinality({t \in Tasks : invokes[t] = e}) + cleared[e]
    BY <2>1 DEF Settled, Filled, Handed
  <2>3. \A t \in Tasks : (invokes[t] # 0 /\ phase[t] = "running") =>
          \E i \in DOMAIN event_deque_ : event_deque_[i] = invokes[t]
    <3> SUFFICES ASSUME NEW t \in Tasks, invokes[t] # 0, phase[t] = "running"
          PROVE Pushed(invokes[t])
      BY DEF Pushed
    <3>1. PICK w \in Workers : task[w] = t
      BY <2>1 DEF Queues
    <3>2. run_[w] = "run"
      BY <2>1, <3>1, WorkersAre DEF EventTypeOK
    <3>3. Filled
      BY <2>1, <3>2 DEF Joining, Destroyed, Filled
    <3> QED
      BY <2>1, <3>3 DEF Owned
  <2> QED
    BY <2>1, <2>2, <2>3 DEF ReadyIsHandedOnce, From
<1> QED
  BY <1>1, PoolInvAlways, PTL

-----------------------------------------------------------------------------
(* The pool as TaskService sees it. *)
LEMMA AcceptedIs ==
  ASSUME PoolInv, NEW w \in Workers, ~Destroyed
  PROVE  /\ Accepted[w] \in Seq(Tasks) /\ Len(Accepted[w]) = size(w)
         /\ \A i \in 1 .. size(w) : i - 1 \in 0 .. Capacity - 1 /\ Accepted[w][i] = At(w, i - 1)
<1>1. PoolTypes /\ Queues
  BY PoolTypesIn DEF PoolInv
<1>2. /\ size(w) \in 0 .. Capacity - 1 /\ Capacity \in Nat /\ head[w] \in 0 .. Capacity - 1
  BY <1>1, QueueIs
<1>3. PICK n \in Nat : n = size(w)
  BY <1>2
<1>4. Accepted[w] = [i \in 1 .. n |-> buffer[w][(head[w] + i - 1) % Capacity]]
  BY <1>3 DEF Accepted
<1>5. ASSUME NEW i \in 1 .. n
      PROVE  /\ i - 1 \in 0 .. Capacity - 1
             /\ buffer[w][(head[w] + i - 1) % Capacity] = At(w, i - 1)
             /\ buffer[w][(head[w] + i - 1) % Capacity] \in Tasks
  <2>1. i - 1 \in 0 .. Capacity - 1 /\ i - 1 < size(w)
    BY <1>2, <1>3
  <2>2. head[w] + (i - 1) = head[w] + i - 1
    BY <1>2
  <2>3. buffer[w][(head[w] + i - 1) % Capacity] = At(w, i - 1)
    BY <2>2 DEF At
  <2>4. At(w, i - 1) \in Tasks
    BY <1>1, <2>1 DEF Queues
  <2> QED
    BY <2>1, <2>3, <2>4
<1>6. Accepted[w] \in [1 .. n -> Tasks] /\ \A i \in 1 .. n : Accepted[w][i] = At(w, i - 1)
  BY <1>4, <1>5
<1>7. Accepted[w] \in Seq(Tasks) /\ Len(Accepted[w]) = n
  BY <1>6
<1> QED
  BY <1>3, <1>5, <1>6, <1>7

(* What moves neither a queue nor a task changes nothing unless it closes the pool. *)
LEMMA StirServes == ASSUME PoolInv, Stir PROVE Service!Next \/ UNCHANGED Service!vars
<1>1. UNCHANGED <<queue, task, phase>>
  BY Moves
<1>2. UNCHANGED <<Executing, Unmade, Returned>>
  BY <1>1 DEF Executing, Unmade, Returned
<1>3. CASE Destroyed' = Destroyed
  <2>1. Accepted' = Accepted
    BY <1>1, <1>3 DEF Accepted, size, queue
  <2> QED
    BY <1>2, <1>3, <2>1 DEF Service!vars
<1>4. CASE Destroyed' # Destroyed
  <2>1. Destroyed' /\ ~Destroyed
    <3>1. CASE destructor' = destructor
      BY <1>4, <3>1 DEF Destroyed
    <3>2. CASE DestroyWatcher
      <4>1. destructor \in [at : {"none", "notify", "join", "watcher", "done", "crashed"}, worker : Nat]
        BY DEF PoolInv, Joining
      <4>2. destructor.at = "watcher" /\ destructor'.at = "done"
        BY <3>2, <4>1 DEF DestroyWatcher
      <4> QED
        BY <1>4, <4>2 DEF Destroyed
    <3>3. CASE Destroy \/ DestroyNotify \/ DestroyJoin
      BY <1>4, <3>3 DEF Destroyed, Destroy, DestroyNotify, DestroyJoin
    <3> QED
      BY <3>1, <3>2, <3>3
      DEF Stir, Notify, SpinVisit, SpinOnce, Top, NoMore, WaitLock, WaitBlock, SpuriousWake,
          task_watcher_, poolVars, closing
  <2>2. \A w \in Workers : Executing[w] = {}
    <3>1. PoolTypes' /\ Joining'
      BY StirInv
    <3>2. \A w \in Workers : task'[w] = NoTask
      BY <2>1, <3>1 DEF PoolTypes, Joining
    <3> QED
      BY <1>1, <3>2 DEF Executing
  <2>3. Accepted' = [w \in Workers |-> <<>>]
    BY <2>1 DEF Accepted
  <2>4. Service!Close
    BY <1>2, <2>1, <2>2, <2>3 DEF Service!Close
  <2> QED
    BY <2>4 DEF Service!Next
<1> QED
  BY <1>3, <1>4

LEMMA PopFrontServes == ASSUME PoolInv, NEW w \in Workers, PopFront(w) PROVE Service!Start(w)
<1>1. /\ PoolTypes /\ PoolTypes' /\ Queues /\ Queues' /\ Joining'
      /\ At(w, 0) \in Tasks /\ phase[At(w, 0)] = "queued"
      /\ task' = [task EXCEPT ![w] = At(w, 0)] /\ phase' = [phase EXCEPT ![At(w, 0)] = "running"]
      /\ ~Destroyed /\ task[w] = NoTask
  BY PopFrontInv, PoolTypesIn DEF PoolInv
<1>2. PICK t \in Tasks : t = At(w, 0)
  BY <1>1
<1>3. /\ size(w) > 0 /\ buffer' = buffer /\ tail' = tail /\ head' = [head EXCEPT ![w] = Advance(@)]
      /\ Destroyed' = Destroyed
  BY DEF PopFront, pop_front, closing, Destroyed
<1>4. /\ size(w)' = size(w) - 1
      /\ \A i \in 0 .. Capacity - 1 : i + 1 < size(w) => At(w, i)' = At(w, i + 1)
      /\ \A v \in Workers \ {w} : size(v)' = size(v) /\ head'[v] = head[v]
  BY <1>1, <1>3, Pops DEF PoolTypes
<1>5. size(w) \in 0 .. Capacity - 1 /\ Capacity \in Nat
  BY <1>1, QueueIs
<1>6. /\ Accepted[w] \in Seq(Tasks) /\ Len(Accepted[w]) = size(w)
      /\ \A i \in 1 .. size(w) : Accepted[w][i] = At(w, i - 1)
  BY <1>1, AcceptedIs
<1>7. Accepted[w] # <<>> /\ Head(Accepted[w]) = t
  BY <1>2, <1>3, <1>5, <1>6
<1>8. Accepted'[w] = Tail(Accepted[w])
  <2>1. PICK n \in Nat : n = size(w) - 1 /\ n = size(w)'
    BY <1>3, <1>4, <1>5
  <2>2. Accepted'[w] = [i \in 1 .. n |-> buffer'[w][(head'[w] + i - 1) % Capacity]]
    BY <1>1, <1>3, <2>1 DEF Accepted
  <2>3. ASSUME NEW i \in 1 .. n PROVE buffer'[w][(head'[w] + i - 1) % Capacity] = Accepted[w][i + 1]
    <3>1. i - 1 \in 0 .. Capacity - 1 /\ (i - 1) + 1 < size(w) /\ i + 1 \in 1 .. size(w)
      BY <1>5, <2>1
    <3>2. At(w, i - 1)' = At(w, i) /\ Accepted[w][i + 1] = At(w, i)
      <4>1. (i - 1) + 1 = i /\ (i + 1) - 1 = i
        OBVIOUS
      <4> QED
        BY <1>4, <1>6, <3>1, <4>1
    <3>3. head'[w] \in Nat
      BY <1>1 DEF PoolTypes
    <3>4. head'[w] + (i - 1) = head'[w] + i - 1
      BY <3>3
    <3> QED
      BY <3>2, <3>4 DEF At
  <2>4. Tail(Accepted[w]) \in Seq(Tasks) /\ Len(Tail(Accepted[w])) = n
        /\ \A i \in 1 .. n : Tail(Accepted[w])[i] = Accepted[w][i + 1]
    BY <1>6, <1>7, <2>1, HeadTailProperties
  <2>5. Tail(Accepted[w]) = [i \in 1 .. n |-> Accepted[w][i + 1]]
    BY <2>4
  <2> QED
    BY <2>2, <2>3, <2>5
<1>9. Accepted' = [Accepted EXCEPT ![w] = Tail(@)]
  <2>1. ASSUME NEW v \in Workers \ {w} PROVE Accepted'[v] = Accepted[v]
    <3>1. PICK h, n : h = head[v] /\ h = head'[v] /\ n = size(v) /\ n = size(v)'
      BY <1>4
    <3>2. Accepted'[v] = IF Destroyed THEN <<>>
            ELSE [i \in 1 .. n |-> buffer[v][(h + i - 1) % Capacity]]
      BY <1>3, <3>1 DEF Accepted
    <3>3. Accepted[v] = IF Destroyed THEN <<>>
            ELSE [i \in 1 .. n |-> buffer[v][(h + i - 1) % Capacity]]
      BY <3>1 DEF Accepted
    <3> QED
      BY <3>2, <3>3
  <2> QED
    BY <1>8, <2>1 DEF Accepted
<1>10. /\ Executing[w] = {} /\ Executing' = [Executing EXCEPT ![w] = {t}]
  <2>1. t # NoTask /\ task'[w] = t /\ \A v \in Workers \ {w} : task'[v] = task[v]
    BY <1>1, <1>2, WorkersAre DEF Queues
  <2>2. Executing[w] = {} /\ Executing'[w] = {t}
          /\ \A v \in Workers \ {w} : Executing'[v] = Executing[v]
    BY <1>1, <2>1 DEF Executing
  <2> QED
    BY <2>2 DEF Executing
<1>11. UNCHANGED <<Unmade, Returned>>
  <2>1. \A s \in Tasks : (phase'[s] = "new" <=> phase[s] = "new") /\ (phase'[s] = "done"
          <=> phase[s] = "done")
    BY <1>1, <1>2 DEF PoolTypes
  <2> QED
    BY <2>1 DEF Unmade, Returned
<1> QED
  BY <1>3, <1>7, <1>9, <1>10, <1>11 DEF Service!Start

LEMMA TaskReturnsServes == ASSUME PoolInv, NEW w \in Workers, TaskReturns(w) PROVE Service!Finish(w)
<1>1. /\ PoolTypes /\ Queues /\ task[w] \in Tasks
      /\ task' = [task EXCEPT ![w] = NoTask] /\ phase' = [phase EXCEPT ![task[w]] = "done"]
  BY TaskReturnsInv, PoolTypesIn DEF PoolInv
<1>2. PICK t \in Tasks : t = task[w] /\ phase[t] # "new"
  BY <1>1, WorkersAre DEF Queues
<1>3. Accepted' = Accepted /\ Destroyed' = Destroyed
  BY DEF TaskReturns, Accepted, size, queue, closing, Destroyed
<1>4. /\ Executing[w] = {t} /\ Executing' = [Executing EXCEPT ![w] = {}]
  <2>1. t # NoTask /\ task'[w] = NoTask /\ \A v \in Workers \ {w} : task'[v] = task[v]
    BY <1>1, <1>2, WorkersAre DEF Queues
  <2>2. Executing[w] = {t} /\ Executing'[w] = {}
          /\ \A v \in Workers \ {w} : Executing'[v] = Executing[v]
    BY <1>2, <2>1 DEF Executing
  <2> QED
    BY <2>2 DEF Executing
<1>5. Unmade' = Unmade /\ Returned' = Returned \cup {t}
  <2>1. phase'[t] = "done" /\ \A s \in Tasks : s # t => phase'[s] = phase[s]
    BY <1>1, <1>2 DEF PoolTypes
  <2> QED
    BY <1>2, <2>1 DEF Unmade, Returned
<1> QED
  BY <1>3, <1>4, <1>5 DEF Service!Finish

LEMMA AddServes ==
  ASSUME PoolInv, NEW c \in Callers, NEW how \in [overload : {"ptr", "bind"}, index : Nat],
         Usable, add_task_to(c, how)
  PROVE  Service!Accept(made + 1, Target(how)) \/ Service!Lose(made + 1, Target(how))
<1>1. /\ PoolTypes /\ PoolTypes'
      /\ Target(how) \in Workers /\ made + 1 \in Tasks /\ phase[made + 1] = "new" /\ ~Destroyed
  BY AddInv, PoolTypesIn DEF PoolInv
<1>2. PICK w \in Workers : w = Target(how)
  BY <1>1
<1>3. PICK t \in Tasks : t = made + 1
  BY <1>1
<1>4. /\ push_back(w, t) /\ head' = head /\ task' = task /\ Destroyed' = Destroyed
  BY <1>2, <1>3 DEF add_task_to, closing, Destroyed
<1>5. Executing' = Executing
  BY <1>4 DEF Executing
<1>6. t \in Unmade /\ Unmade' = Unmade \ {t} /\ Returned' = Returned
  <2>1. PICK p \in {"dropped", "queued"} : phase' = [phase EXCEPT ![t] = p]
    BY <1>4 DEF push_back
  <2>2. phase'[t] = p /\ \A s \in Tasks : s # t => phase'[s] = phase[s]
    BY <1>1, <2>1 DEF PoolTypes
  <2> QED
    BY <1>1, <1>3, <2>2 DEF Unmade, Returned
<1>7. /\ Accepted[w] \in Seq(Tasks) /\ Len(Accepted[w]) = size(w)
      /\ \A i \in 1 .. size(w) : Accepted[w][i] = At(w, i - 1)
  BY <1>1, AcceptedIs
<1>8. size(w) \in 0 .. Capacity - 1 /\ Capacity \in Nat /\ (Full(w) <=> size(w) = Capacity - 1)
  BY <1>1, QueueIs
<1>9. CASE Full(w)
  <2>1. Accepted' = Accepted
    BY <1>4, <1>9 DEF push_back, Accepted, size
  <2> QED
    BY <1>1, <1>2, <1>3, <1>4, <1>5, <1>6, <1>7, <1>8, <1>9, <2>1 DEF Service!Lose
<1>10. CASE ~Full(w)
  <2>1. /\ buffer' = [buffer EXCEPT ![w][tail[w]] = t] /\ tail' = [tail EXCEPT ![w] = Advance(@)]
    BY <1>4, <1>10 DEF push_back
  <2>2. /\ size(w) < Capacity - 1 /\ size(w)' = size(w) + 1
        /\ \A i \in 0 .. Capacity - 1 : i < size(w) => At(w, i)' = At(w, i)
        /\ \A i \in 0 .. Capacity - 1 : i = size(w) => At(w, i)' = t
    BY <1>1, <1>4, <1>10, <2>1, Pushes
  <2>3. \A v \in Workers \ {w} : size(v)' = size(v) /\ buffer'[v] = buffer[v]
    BY <1>1, <1>4, <1>10, <2>1, Pushes DEF PoolTypes
  <2>4. Accepted'[w] = Append(Accepted[w], t)
    <3>1. PICK n \in Nat : n = size(w) /\ n + 1 = size(w)' /\ n < Capacity - 1
      BY <1>8, <2>2
    <3>2. Accepted'[w] = [i \in 1 .. n + 1 |-> buffer'[w][(head'[w] + i - 1) % Capacity]]
      BY <1>1, <1>4, <3>1 DEF Accepted
    <3>3. ASSUME NEW i \in 1 .. n + 1
          PROVE  buffer'[w][(head'[w] + i - 1) % Capacity] = Append(Accepted[w], t)[i]
      <4>1. i - 1 \in 0 .. Capacity - 1 /\ i - 1 <= n
        BY <1>8, <3>1
      <4>2. head'[w] \in Nat
        BY <1>1 DEF PoolTypes
      <4>3. head'[w] + (i - 1) = head'[w] + i - 1
        BY <4>2
      <4>4. buffer'[w][(head'[w] + i - 1) % Capacity] = At(w, i - 1)'
        BY <4>3 DEF At
      <4>5. CASE i = n + 1
        <5>1. At(w, i - 1)' = t
          BY <2>2, <3>1, <4>1, <4>5
        <5> QED
          BY <1>7, <3>1, <4>4, <4>5, <5>1, AppendProperties
      <4>6. CASE i # n + 1
        <5>1. i - 1 < size(w) /\ i \in 1 .. size(w)
          BY <3>1, <4>6
        <5>2. At(w, i - 1)' = At(w, i - 1) /\ Accepted[w][i] = At(w, i - 1)
          BY <1>7, <2>2, <4>1, <5>1
        <5> QED
          BY <1>7, <4>4, <5>1, <5>2, AppendProperties
      <4> QED
        BY <4>5, <4>6
    <3>4. Append(Accepted[w], t) \in Seq(Tasks) /\ Len(Append(Accepted[w], t)) = n + 1
      <4>1. PICK s \in Seq(Tasks) : s = Accepted[w] /\ Len(s) = n
        BY <1>7, <3>1
      <4>2. Append(s, t) \in Seq(Tasks) /\ Len(Append(s, t)) = Len(s) + 1
        BY AppendProperties
      <4> QED
        BY <4>1, <4>2
    <3>5. Append(Accepted[w], t) = [i \in 1 .. n + 1 |-> Append(Accepted[w], t)[i]]
      BY <3>4
    <3> QED
      BY <3>2, <3>3, <3>5
  <2>5. Accepted' = [Accepted EXCEPT ![w] = Append(@, t)]
    <3>1. \A v \in Workers \ {w} : Accepted'[v] = Accepted[v]
      BY <1>4, <2>3 DEF Accepted
    <3> QED
      BY <2>4, <3>1 DEF Accepted
  <2> QED
    BY <1>1, <1>2, <1>3, <1>4, <1>5, <1>6, <1>7, <2>2, <2>5 DEF Service!Accept
<1> QED
  BY <1>9, <1>10

LEMMA ServiceStep == ASSUME PoolInv, [EventNext]_eventPoolVars PROVE Service!Next
                       \/ UNCHANGED Service!vars
<1>1. CASE Stir
  BY <1>1, StirServes
<1>2. CASE \E w \in Workers : PopFront(w) \/ TaskReturns(w)
  BY <1>2, PopFrontServes, TaskReturnsServes DEF Service!Next
<1>3. CASE \E c \in Callers, how \in [overload : {"ptr", "bind"}, index : Nat] : Usable
             /\ add_task_to(c, how)
  <2>1. PICK c \in Callers, how \in [overload : {"ptr", "bind"}, index : Nat] : Usable
               /\ add_task_to(c, how)
    BY <1>3
  <2> QED
    BY <2>1, AddInv, AddServes DEF Service!Next
<1>4. CASE PoolOnly
  BY <1>1, <1>2, <1>3, <1>4, PoolOnlyIs
<1>5. CASE \E c \in Callers : RunAdd(c)
  <2>1. PICK c \in Callers : RunAdd(c)
    BY <1>5
  <2>2. PICK how \in [overload : {"ptr", "bind"}, index : Nat] : how = [overload |-> "bind", index |-> 0]
    OBVIOUS
  <2>3. add_task_to(c, how) /\ Usable
    BY <2>1, <2>2 DEF RunAdd, PoolInv, Loops, Out
  <2> QED
    BY <1>3, <2>3
<1>6. CASE \E c \in Callers : \/ push_event(c) \/ Spin(c) \/ SpinEvent(c)
                               \/ RunReady(c) \/ RunClear(c) \/ clear_all_ready_task(c)
  <2>1. UNCHANGED poolVars
    BY <1>6 DEF push_event, Spin, SpinEvent, RunReady, RunClear, clear_all_ready_task
  <2> QED
    BY <1>1, <2>1 DEF Stir
<1>7. CASE FreeDeques
  BY <1>1, <1>7 DEF FreeDeques, Stir
<1> QED
  BY <1>4, <1>5, <1>6, <1>7 DEF EventNext, PoolOnly

(* The pool is the service TaskService describes, for every number of callers, *)
(* workers, slots and tasks: an accepted task is run in order and once, one is *)
(* lost only at a full queue (push_back, threadpool.hpp:32), and once the      *)
(* destructor has joined the workers none is under way or starts.              *)
THEOREM ImplementsTaskService == EventSpec => Implements
<1>1. EventInit => Service!Init
  <2> SUFFICES ASSUME EventInit PROVE Service!Init
    OBVIOUS
  <2>1. ~Destroyed
    BY DEF EventInit, PoolInit, Destroyed
  <2>2. \A w \in Workers : Accepted[w] = <<>>
    <3> SUFFICES ASSUME NEW w \in Workers PROVE Accepted[w] = <<>>
      OBVIOUS
    <3>1. PoolInv
      BY PoolInvInit
    <3>2. Accepted[w] \in Seq(Tasks) /\ Len(Accepted[w]) = size(w)
      BY <2>1, <3>1, AcceptedIs
    <3>3. size(w) = 0
      <4>1. 0 \in 0 .. Capacity - 1 /\ head[w] = 0 /\ tail[w] = 0
        BY PoolAssumption DEF EventInit, PoolInit
      <4> QED
        BY <4>1, SizeIs DEF size
    <3> QED
      BY <3>2, <3>3
  <2>3. Accepted = [w \in Workers |-> <<>>]
    BY <2>2 DEF Accepted
  <2>4. Executing = [w \in Workers |-> {}] /\ Unmade = Tasks /\ Returned = {}
    BY DEF Executing, Unmade, Returned, EventInit, PoolInit
  <2> QED
    BY <2>1, <2>3, <2>4 DEF Service!Init
<1>2. PoolInv /\ [EventNext]_eventPoolVars => [Service!Next]_(Service!vars)
  BY ServiceStep
<1> QED
  BY <1>1, <1>2, PoolInvAlways, PTL DEF EventSpec, Implements, Service!Spec
=============================================================================
