----------------------------- MODULE LossyTopic -----------------------------
(***************************************************************************)
(* What a topic of the local channel promises its subscribers: callbacks   *)
(* see published messages in the order of publication; messages may be     *)
(* skipped, and one may be seen a second time before a newer one is.       *)
(***************************************************************************)
EXTENDS Integers

CONSTANT Subscribers

VARIABLES published,   \* messages published so far; they are 0 .. published-1
          last,        \* the message each subscriber saw last, -1 for none
          again        \* whether it has seen that one twice

vars == <<published, last, again>>

Init ==
  /\ published = 0
  /\ last = [s \in Subscribers |-> -1]
  /\ again = [s \in Subscribers |-> FALSE]

Publish == published' = published + 1 /\ UNCHANGED <<last, again>>

Deliver(s) ==
  /\ \E m \in (last[s] + 1) .. (published - 1) : last' = [last EXCEPT ![s] = m]
  /\ again' = [again EXCEPT ![s] = FALSE]
  /\ UNCHANGED published

Redeliver(s) ==
  /\ last[s] # -1 /\ ~again[s]
  /\ again' = [again EXCEPT ![s] = TRUE]
  /\ UNCHANGED <<published, last>>

Next == Publish \/ \E s \in Subscribers : Deliver(s) \/ Redeliver(s)

Spec == Init /\ [][Next]_vars
=============================================================================
