--------------------------- MODULE CircularBuffer ---------------------------
(***************************************************************************)
(* SharedCircularBuffer (impl/shmobj_manager.hpp): the state of the ring   *)
(* and the arithmetic of its indices. head_ and tail_ only grow. What is   *)
(* done with it, and by whom, is in LocalTopic and LocalService.           *)
(***************************************************************************)
EXTENDS Integers

CONSTANTS N,           \* total_size_
          Null         \* an empty ShmSharedPtr

ASSUME SizeAssumption == N \in Nat \ {0} /\ Null \notin Nat

VARIABLES head, tail,  \* head_, tail_
          slots        \* buffer_

ring == <<head, tail, slots>>

(* Mutant: nothing is dropped. *)
HeadKept(h, t) == h

(* push_back drops the oldest element when the new one fills the ring. *)
HeadAfterPush(h, t) == IF t - h >= N THEN h + 1 ELSE h

(* Mutant: an index below head_ is used as it is. *)
ClampAbove(i, h, t) == IF i >= t THEN t - 1 ELSE i

(* The index operator[] and copy() use for i. *)
Clamp(i, h, t) == IF i < h THEN h ELSE IF i >= t THEN t - 1 ELSE i

(* The slot they access. *)
SlotOf(i, h, t) == Clamp(i, h, t) % N
=============================================================================
