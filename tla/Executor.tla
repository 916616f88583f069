------------------------------ MODULE Executor ------------------------------
(***************************************************************************)
(* The executor (coin-commons/executor/executor.cpp): a child process      *)
(* behind a pseudo terminal, a worker thread that reads the terminal, and  *)
(* during a shutdown with a time-out a thread that watches the clock. One  *)
(* thread of the program calls execute, shutdown and wait (the destructor  *)
(* is a shutdown without time-out). isrunning_, master_fd_, child_pid_ are *)
(* plain members that all of them use.                                     *)
(*                                                                         *)
(* A failed fork leaves -1 in child_pid_ and a terminal that nobody has;   *)
(* waitpid(-1) then waits for any child there is. kill(0, SIGKILL) kills   *)
(* the process group of the program, the program with it.                  *)
(*                                                                         *)
(* Child r is the r-th one launched and stands for its pid too. Output,    *)
(* callbacks, the working directory and the environment are left out: a    *)
(* read that returns data changes nothing here.                            *)
(***************************************************************************)
EXTENDS Integers

CONSTANTS MaxRuns,      \* bound: children launched
          MaxFd,        \* descriptors are 0 .. MaxFd
          MaxStrangers  \* bound: files that other code of the program opens

Runs == 1 .. MaxRuns
Fds == 0 .. MaxFd

\* What a descriptor can refer to, besides the terminal of a child.
Closed == 0
Stdin == MaxRuns + 1
Strangers == (MaxRuns + 2) .. (MaxRuns + 1 + MaxStrangers)

ASSUME ExecutorAssumption ==
  /\ MaxRuns \in Nat \ {0}
  /\ MaxStrangers \in Nat
  /\ MaxFd \in Nat /\ MaxFd >= MaxRuns + MaxStrangers

VARIABLES file,         \* what each descriptor refers to
          master_fd_, child_pid_, isrunning_, exit_code_,
          worker_,      \* where worker_thread_ is
          monitor,      \* where the thread of shutdown is
          main,         \* what the program's thread is doing, "killed" when
                        \* the program is dead
          proc, tty,    \* each child; whether anybody has its terminal open
          launched,     \* children launched so far
          ended,        \* what ended the executor's interest in a child
          wrong         \* descriptors closed that were no terminal of the executor

members == <<master_fd_, child_pid_, isrunning_, exit_code_>>
child == <<proc, tty>>
past == <<launched, ended>>
vars == <<file, members, worker_, monitor, main, child, past, wrong>>

Init ==
  /\ file = [f \in Fds |-> IF f = 0 THEN Stdin ELSE Closed]
  /\ master_fd_ = 0 /\ child_pid_ = 0 /\ isrunning_ = TRUE /\ exit_code_ = 0
  /\ worker_ = "none" /\ monitor = "none" /\ main = "idle"
  /\ proc = [r \in Runs |-> "none"] /\ tty = [r \in Runs |-> FALSE]
  /\ launched = 0 /\ ended = [r \in Runs |-> "no"] /\ wrong = {}

Unused == {f \in Fds : file[f] = Closed}

(* A new file gets the lowest descriptor; one is left, MaxFd being what it is. *)
Open(f, what) ==
  f \in Unused /\ (\A g \in Unused : f <= g) /\ file' = [file EXCEPT ![f] = what]

Close(f) == /\ file' = [file EXCEPT ![f] = Closed]
            /\ wrong' = IF file[f] \in Runs \cup {Closed} THEN wrong ELSE wrong \cup {f}

(* kill(-r, signal) reaches nobody before the child has called setsid; a child *)
(* may ignore SIGINT.                                                          *)
Signal(r, signal) ==
  IF r > 0 /\ proc[r] = "up"
  THEN \/ proc' = [proc EXCEPT ![r] = "dying"]
       \/ signal = "SIGINT" /\ UNCHANGED proc
  ELSE UNCHANGED proc

-----------------------------------------------------------------------------
Setsid(r) ==
  /\ proc[r] = "forked"
  /\ proc' = [proc EXCEPT ![r] = "up"]
  /\ UNCHANGED <<file, members, worker_, monitor, main, tty, past, wrong>>

(* The end of a child; descendants of it may keep the terminal. *)
Exit(r) ==
  /\ proc[r] \in {"up", "dying"}
  /\ proc' = [proc EXCEPT ![r] = "zombie"]
  /\ tty' \in {tty, [tty EXCEPT ![r] = FALSE]}
  /\ UNCHANGED <<file, members, worker_, monitor, main, past, wrong>>

(* The terminal is given up by the last who has it, a child that goes on included. *)
HangUp(r) ==
  /\ proc[r] \notin {"none", "forked"} /\ tty[r]
  /\ tty' = [tty EXCEPT ![r] = FALSE]
  /\ UNCHANGED <<file, members, worker_, monitor, main, proc, past, wrong>>

OpenStranger(s) ==
  /\ main # "killed" /\ \A f \in Fds : file[f] # s
  /\ \E f \in Fds : Open(f, s)
  /\ UNCHANGED <<members, worker_, monitor, main, child, past, wrong>>

-----------------------------------------------------------------------------
(* execute: a worker of an earlier child is told to stop *)
Execute ==
  /\ main = "idle" /\ launched < MaxRuns
  /\ isrunning_' = (IF worker_ = "none" THEN isrunning_ ELSE FALSE)
  /\ main' = IF worker_ = "none" THEN "launch" ELSE "join"
  /\ UNCHANGED <<file, master_fd_, child_pid_, exit_code_, worker_, monitor, child, past, wrong>>

ExecuteJoin ==
  /\ main = "join" /\ worker_ = "done"
  /\ worker_' = "none" /\ main' = "launch"
  /\ UNCHANGED <<file, members, monitor, child, past, wrong>>

(* and its child killed, but not waited for; then openpty and fork, which *)
(* may fail.                                                              *)
Launch ==
  /\ main = "launch"
  /\ \E forked \in BOOLEAN :
       LET old == child_pid_
           new == launched + 1
       IN /\ proc' = [r \in Runs |-> IF r = new /\ forked THEN "forked"
                                      ELSE IF r = old /\ proc[r] = "up" THEN "dying"
                                      ELSE proc[r]]
          /\ ended' = [r \in Runs |-> IF r = old THEN "replaced" ELSE ended[r]]
          /\ tty' = [tty EXCEPT ![new] = forked]
          /\ \E f \in Fds : Open(f, new) /\ master_fd_' = f
          /\ child_pid_' = IF forked THEN new ELSE -1
          /\ launched' = new
  /\ isrunning_' = TRUE /\ worker_' = "loop" /\ main' = "idle"
  /\ UNCHANGED <<exit_code_, monitor, wrong>>

-----------------------------------------------------------------------------
WorkerAt(where) == main # "killed" /\ worker_ \in where

(* while(isrunning_) of worker_thread_ *)
WorkerLoop ==
  /\ WorkerAt({"loop"})
  /\ worker_' = IF isrunning_ THEN "read" ELSE "done"
  /\ UNCHANGED <<file, members, monitor, main, child, past, wrong>>

(* read_master_ finds data or waits a second for it in vain; *)
WorkerRead ==
  /\ WorkerAt({"read"})
  /\ worker_' = "loop"
  /\ UNCHANGED <<file, members, monitor, main, child, past, wrong>>

(* or a signal ends select, and read waits for data without a time-out. *)
WorkerInterrupted ==
  /\ WorkerAt({"read"})
  /\ worker_' = "blocked"
  /\ UNCHANGED <<file, members, monitor, main, child, past, wrong>>

WorkerGetsData ==
  /\ WorkerAt({"blocked"})
  /\ worker_' = "loop"
  /\ UNCHANGED <<file, members, monitor, main, child, past, wrong>>

(* Nobody has the terminal any more: read fails. *)
HungUp(f) == file[f] \in Runs /\ ~tty[file[f]]

(* Mutant: the member is not reset. *)
WorkerKeepsDescriptor ==
  /\ WorkerAt({"read", "blocked"}) /\ HungUp(master_fd_)
  /\ isrunning_' = FALSE
  /\ worker_' = "loop" /\ Close(master_fd_)
  /\ UNCHANGED <<master_fd_, child_pid_, exit_code_, monitor, main, child, past>>

WorkerReadFails ==
  /\ WorkerAt({"read", "blocked"}) /\ HungUp(master_fd_)
  /\ isrunning_' = FALSE
  /\ IF master_fd_ = 0
     THEN worker_' = "loop" /\ UNCHANGED <<file, wrong>>
     ELSE worker_' = "zero" /\ Close(master_fd_)
  /\ UNCHANGED <<master_fd_, child_pid_, exit_code_, monitor, main, child, past>>

WorkerZero ==
  /\ WorkerAt({"zero"})
  /\ master_fd_' = 0 /\ worker_' = "loop"
  /\ UNCHANGED <<file, child_pid_, isrunning_, exit_code_, monitor, main, child, past, wrong>>

-----------------------------------------------------------------------------
(* The thread of shutdown leaves early when isrunning_ goes false *)
MonitorSees ==
  /\ monitor = "watch" /\ ~isrunning_
  /\ monitor' = "done"
  /\ UNCHANGED <<file, members, worker_, main, child, past, wrong>>

(* Mutant: the flag is read the wrong way round. *)
MonitorGivesUp ==
  /\ monitor = "watch"
  /\ monitor' = IF isrunning_ THEN "done" ELSE "check"
  /\ UNCHANGED <<file, members, worker_, main, child, past, wrong>>

(* and looks at it once more when the time is over. *)
MonitorTimeout ==
  /\ monitor = "watch"
  /\ monitor' = IF isrunning_ THEN "check" ELSE "done"
  /\ UNCHANGED <<file, members, worker_, main, child, past, wrong>>

(* send_signal asks whether there is a child *)
MonitorChecks ==
  /\ monitor = "check"
  /\ monitor' = IF child_pid_ > 0 THEN "kill" ELSE "done"
  /\ UNCHANGED <<file, members, worker_, main, child, past, wrong>>

(* and kills the group of child_pid_, as it is now or, if the compiler has  *)
(* kept it, as it was: a child that shutdown has since waited for and       *)
(* forgotten (its pid is taken for unused). A child that has not called     *)
(* setsid is in the program's group.                                        *)
MonitorKill ==
  /\ monitor = "kill" /\ monitor' = "done"
  /\ \/ child_pid_ # 0 /\ Signal(child_pid_, "SIGKILL") /\ UNCHANGED main
     \/ child_pid_ = 0 /\ UNCHANGED <<proc, main>>
     \/ /\ child_pid_ = 0 /\ main' = "killed"
        /\ proc' = [r \in Runs |-> IF proc[r] = "forked" THEN "dying" ELSE proc[r]]
  /\ UNCHANGED <<file, members, worker_, tty, past, wrong>>

-----------------------------------------------------------------------------
(* waitpid returns at once when there is no such child, or it was waited    *)
(* for before. -1 stands for any child.                                     *)
WaitsFor(pid) == IF pid = -1 THEN Runs ELSE {pid} \cap Runs

Waited(pid) ==
  \/ /\ \A r \in WaitsFor(pid) : proc[r] \in {"none", "reaped"}
     /\ UNCHANGED <<proc, exit_code_>>
  \/ \E r \in WaitsFor(pid) :
       /\ proc[r] = "zombie"
       /\ proc' = [proc EXCEPT ![r] = "reaped"]
       /\ exit_code_' = r

(* wait(), called by the program; it may well wait for ever. *)
Wait ==
  /\ main = "idle" /\ child_pid_ # 0 /\ Waited(child_pid_)
  /\ UNCHANGED <<file, master_fd_, child_pid_, isrunning_, worker_, monitor, main, tty, past, wrong>>

Shutdown ==
  /\ main = "idle"
  /\ Signal(child_pid_, "SIGINT")
  /\ \E timeout \in BOOLEAN : monitor' = IF timeout THEN "watch" ELSE "none"
  /\ main' = "wait"
  /\ UNCHANGED <<file, members, worker_, tty, past, wrong>>

(* Mutant: a worker that stopped is taken for a child that ended. *)
ShutdownWaitUnlessStopped ==
  /\ main = "wait"
  /\ IF isrunning_ THEN Waited(child_pid_) ELSE UNCHANGED <<proc, exit_code_>>
  /\ main' = "clear"
  /\ UNCHANGED <<file, master_fd_, child_pid_, isrunning_, worker_, monitor, tty, past, wrong>>

ShutdownWait ==
  /\ main = "wait" /\ Waited(child_pid_)
  /\ main' = "clear"
  /\ UNCHANGED <<file, master_fd_, child_pid_, isrunning_, worker_, monitor, tty, past, wrong>>

(* Mutant: the flag is cleared when the threads are gone. *)
ShutdownClearLater ==
  /\ main = "clear"
  /\ child_pid_' = 0
  /\ ended' = [r \in Runs |-> IF r = child_pid_ THEN "shutdown" ELSE ended[r]]
  /\ main' = "joinWorker"
  /\ UNCHANGED <<file, master_fd_, isrunning_, exit_code_, worker_, monitor, child, launched, wrong>>

ShutdownClear ==
  /\ main = "clear"
  /\ isrunning_' = FALSE /\ child_pid_' = 0
  /\ ended' = [r \in Runs |-> IF r = child_pid_ THEN "shutdown" ELSE ended[r]]
  /\ main' = "joinWorker"
  /\ UNCHANGED <<file, master_fd_, exit_code_, worker_, monitor, child, launched, wrong>>

(* Mutant: the worker is let go. *)
ShutdownDetach ==
  /\ main = "joinWorker"
  /\ main' = "joinMonitor"
  /\ UNCHANGED <<file, members, worker_, monitor, child, past, wrong>>

ShutdownJoinWorker ==
  /\ main = "joinWorker" /\ worker_ \in {"none", "done"}
  /\ worker_' = "none" /\ main' = "joinMonitor"
  /\ UNCHANGED <<file, members, monitor, child, past, wrong>>

ShutdownJoinMonitor ==
  /\ main = "joinMonitor" /\ monitor \in {"none", "done"}
  /\ monitor' = "none"
  /\ main' = IF master_fd_ = 0 THEN "idle" ELSE "read"
  /\ UNCHANGED <<file, members, worker_, child, past, wrong>>

ShutdownRead ==
  /\ main = "read"
  /\ main' = "close"
  /\ UNCHANGED <<file, members, worker_, monitor, child, past, wrong>>

ShutdownInterrupted ==
  /\ main = "read"
  /\ main' = "blocked"
  /\ UNCHANGED <<file, members, worker_, monitor, child, past, wrong>>

ShutdownGetsData ==
  /\ main = "blocked"
  /\ main' = "close"
  /\ UNCHANGED <<file, members, worker_, monitor, child, past, wrong>>

(* read_master_ closes the terminal itself when it finds it hung up, *)
ShutdownReadFails ==
  /\ main \in {"read", "blocked"} /\ HungUp(master_fd_)
  /\ isrunning_' = FALSE
  /\ Close(master_fd_) /\ master_fd_' = 0
  /\ main' = "close"
  /\ UNCHANGED <<child_pid_, exit_code_, worker_, monitor, child, past>>

(* and master_fd_ is closed after that, which is 0 then. *)
ShutdownClose ==
  /\ main = "close"
  /\ Close(master_fd_) /\ master_fd_' = 0
  /\ main' = "idle"
  /\ UNCHANGED <<child_pid_, isrunning_, exit_code_, worker_, monitor, child, past>>

-----------------------------------------------------------------------------
Worker == WorkerLoop \/ WorkerRead \/ WorkerReadFails \/ WorkerZero
Monitor == MonitorSees \/ MonitorTimeout \/ MonitorChecks \/ MonitorKill
Main == \/ ExecuteJoin \/ Launch
        \/ ShutdownWait \/ ShutdownClear \/ ShutdownJoinWorker \/ ShutdownJoinMonitor
        \/ ShutdownRead \/ ShutdownReadFails \/ ShutdownClose

Next == \/ \E r \in Runs : Setsid(r) \/ Exit(r) \/ HangUp(r)
        \/ \E s \in Strangers : OpenStranger(s)
        \/ Execute \/ Wait \/ Shutdown
        \/ Worker \/ Monitor \/ Main
        \/ WorkerInterrupted \/ WorkerGetsData \/ ShutdownInterrupted \/ ShutdownGetsData

Spec == Init /\ [][Next]_vars

(* Threads run on and a killed child dies; no child has to end otherwise,  *)
(* or to write anything.                                                   *)
FairSpec == /\ Spec
            /\ WF_vars(Worker) /\ WF_vars(Monitor) /\ WF_vars(Main)
            /\ \A r \in Runs : WF_vars(proc[r] = "dying" /\ Exit(r))

-----------------------------------------------------------------------------
TypeOK ==
  /\ file \in [Fds -> Runs \cup Strangers \cup {Stdin, Closed}]
  /\ master_fd_ \in Fds /\ child_pid_ \in Runs \cup {-1, 0} /\ exit_code_ \in Runs \cup {0}
  /\ isrunning_ \in BOOLEAN
  /\ worker_ \in {"none", "loop", "read", "blocked", "zero", "done"}
  /\ monitor \in {"none", "watch", "check", "kill", "done"}
  /\ main \in {"idle", "join", "launch", "wait", "clear", "joinWorker", "joinMonitor",
               "read", "blocked", "close", "killed"}
  /\ proc \in [Runs -> {"none", "forked", "up", "dying", "zombie", "reaped"}]
  /\ tty \in [Runs -> BOOLEAN]
  /\ launched \in 0 .. MaxRuns /\ ended \in [Runs -> {"no", "shutdown", "replaced"}]
  /\ wrong \subseteq Fds

(* master_fd_ is the terminal of the child last launched whenever it is not 0,   *)
(* except between the worker's close and its reset (executor.cpp:463): send()    *)
(* and select do not reach a stranger's file, whoever has closed what meanwhile. *)
(* The worker's close and shutdown's never hit the same descriptor, which may be *)
(* somebody else's by then. Descriptor 0 is the exception: shutdown closes it    *)
(* after read_master_ has closed the terminal (executor.cpp:349).                *)
UsesOwn ==
  /\ TypeOK
  /\ (master_fd_ # 0 /\ worker_ # "zero") => file[master_fd_] = launched
  /\ wrong \subseteq {0}

(* A child that was shut down has been waited for, and no descriptor of its  *)
(* terminal is left but 0, which counts as none (executor.cpp:347).          *)
CleanAfterShutdown ==
  \A r \in Runs :
    ended[r] = "shutdown" =>
      /\ proc[r] = "reaped"
      /\ main = "idle" => \A f \in Fds \ {0} : file[f] # r

(* Once the child is bound to die, shutdown returns: it waits for nobody who *)
(* waits for it. There are two exceptions. A signal may have ended a select, *)
(* and then the read that follows lasts while descendants of the child keep  *)
(* the terminal. And the monitor may have found a child just before shutdown *)
(* forgot it: then its SIGKILL goes to the program's own group.              *)
Shutting == main \in {"wait", "clear", "joinWorker", "joinMonitor", "read", "blocked", "close"}
Doomed == \A r \in WaitsFor(child_pid_) : proc[r] \notin {"forked", "up"}
Blocked == (worker_ = "blocked" \/ main = "blocked") /\ ~HungUp(master_fd_)

ShutdownReturns == (Shutting /\ Doomed) ~> (main \in {"idle", "killed"} \/ Blocked)

(* With a time-out, a child that ignores SIGINT is killed, unless it has given up *)
(* its terminal, in which case the monitor leaves without killing it.             *)
TimeoutKills ==
  \A r \in Runs :
    (main = "wait" /\ monitor = "watch" /\ child_pid_ = r /\ proc[r] = "up")
      ~> (proc[r] # "up" \/ ~tty[r])
=============================================================================
