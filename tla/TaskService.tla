---------------------------- MODULE TaskService ----------------------------
(***************************************************************************)
(* What a pool of bound workers promises: a task is accepted by one worker *)
(* or lost when that worker has no room; accepted tasks start in the order *)
(* they came, one at a time, each once; once the pool is closed the tasks  *)
(* that have not started never do.                                         *)
(***************************************************************************)
EXTENDS Naturals, Sequences

CONSTANTS Tasks, Workers,
          Room                   \* how many tasks may wait at a worker

VARIABLES waiting,               \* per worker, the accepted tasks not started
          busy,                  \* per worker, the tasks it is executing
          fresh, done,           \* tasks not submitted yet; tasks executed
          closed

vars == <<waiting, busy, fresh, done, closed>>

Init == /\ waiting = [w \in Workers |-> <<>>]
        /\ busy = [w \in Workers |-> {}]
        /\ fresh = Tasks
        /\ done = {}
        /\ closed = FALSE

Accept(t, w) == /\ t \in fresh /\ ~closed
                /\ Len(waiting[w]) < Room
                /\ fresh' = fresh \ {t}
                /\ waiting' = [waiting EXCEPT ![w] = Append(@, t)]
                /\ UNCHANGED <<busy, done, closed>>

Lose(t, w) == /\ t \in fresh /\ ~closed
              /\ Len(waiting[w]) = Room
              /\ fresh' = fresh \ {t}
              /\ UNCHANGED <<waiting, busy, done, closed>>

Start(w) == /\ waiting[w] # <<>> /\ busy[w] = {}
            /\ busy' = [busy EXCEPT ![w] = {Head(waiting[w])}]
            /\ waiting' = [waiting EXCEPT ![w] = Tail(@)]
            /\ UNCHANGED <<fresh, done, closed>>

Finish(w) == /\ busy[w] # {}
             /\ busy' = [busy EXCEPT ![w] = {}]
             /\ done' = done \cup busy[w]
             /\ UNCHANGED <<waiting, fresh, closed>>

\* Closing waits for the tasks being executed, so none is ever cut short.
Close == /\ ~closed /\ \A w \in Workers : busy[w] = {}
         /\ closed' = TRUE
         /\ waiting' = [w \in Workers |-> <<>>]
         /\ UNCHANGED <<busy, fresh, done>>

Next == \/ \E t \in Tasks, w \in Workers : Accept(t, w) \/ Lose(t, w)
        \/ \E w \in Workers : Start(w) \/ Finish(w)
        \/ Close

Spec == Init /\ [][Next]_vars
=============================================================================
