----------------------------- MODULE LocalTopic -----------------------------
(***************************************************************************)
(* Publish and subscribe on the local channel: a LocalPublisher writes to  *)
(* the SharedCircularBuffer of its topic; each LocalSubscriber, driven by  *)
(* LocalChannal::spin_once, reads it at its own pace through a private     *)
(* deque (local_channal.hpp, impl/shmobj_manager.hpp).                     *)
(*                                                                         *)
(* Every access to the buffer locks its mutex for that access alone, so    *)
(* each one is a step. Message number i is the i-th one published.         *)
(***************************************************************************)
EXTENDS Integers, Sequences, CircularBuffer

CONSTANTS BufferSize,    \* buffer_size_ of a subscriber
          Subscribers,
          MaxPublished   \* bound on the messages published

ASSUME TopicAssumption ==
  /\ BufferSize \in Nat \ {0} /\ MaxPublished \in Nat

VARIABLES
  ppc, ridx,           \* the publisher: "on", "reset" in its destructor, "off"
  idx,                 \* idx_ of each subscriber
  buffer,              \* its private deque
  spc,                 \* where spin_once is with it
  last, again          \* what its callback saw last, and whether twice

publisher == <<ppc, ridx>>
seen == <<last, again>>
vars == <<ring, publisher, idx, buffer, spc, seen>>

Message == 0 .. (MaxPublished - 1)

TypeOK ==
  /\ head \in 0 .. MaxPublished /\ tail \in 0 .. MaxPublished
  /\ slots \in [0 .. (N - 1) -> Message \cup {Null}]
  /\ ppc \in {"on", "reset", "off"} /\ ridx \in 0 .. MaxPublished
  /\ idx \in [Subscribers -> 0 .. (MaxPublished + 1)]
  /\ buffer \in [Subscribers -> Seq(Message)]
  /\ spc \in [Subscribers -> {"head", "skip", "tail", "invoke", "spin", "aborted"}]
  /\ last \in [Subscribers -> Message \cup {-1}]
  /\ again \in [Subscribers -> BOOLEAN]

(* The subscribers connect (idx_ = tail()) before the first publication. *)
Init ==
  /\ head = 0 /\ tail = 0 /\ slots = [i \in 0 .. (N - 1) |-> Null]
  /\ ppc = "on" /\ ridx = 0
  /\ idx = [s \in Subscribers |-> 0]
  /\ buffer = [s \in Subscribers |-> <<>>]
  /\ spc = [s \in Subscribers |-> "head"]
  /\ last = [s \in Subscribers |-> -1]
  /\ again = [s \in Subscribers |-> FALSE]

-----------------------------------------------------------------------------
(* publish(): push_back writes slot tail_ % total_size_ and then moves      *)
(* tail_ and head_, all under the mutex.                                    *)
Publish ==
  /\ ppc = "on" /\ tail < MaxPublished
  /\ slots' = [slots EXCEPT ![tail % N] = tail]
  /\ tail' = tail + 1
  /\ head' = HeadAfterPush(head, tail + 1)
  /\ UNCHANGED <<publisher, idx, buffer, spc, seen>>

(* ~LocalPublisher: go offline, ... *)
Offline ==
  /\ ppc = "on"
  /\ ppc' = "reset" /\ ridx' = head
  /\ UNCHANGED <<ring, idx, buffer, spc, seen>>

(* ... then reset the element of each index from head() up to tail(). *)
Reset ==
  /\ ppc = "reset"
  /\ IF ridx < tail
       THEN /\ slots' = [slots EXCEPT ![SlotOf(ridx, head, tail)] = Null]
            /\ ridx' = ridx + 1
            /\ UNCHANGED ppc
       ELSE /\ ppc' = "off"
            /\ UNCHANGED <<slots, ridx>>
  /\ UNCHANGED <<head, tail, idx, buffer, spc, seen>>

At(s, where) == spc' = [spc EXCEPT ![s] = where]

(* is_ready_: if(idx_ < head()) ... *)
CheckHead(s) ==
  /\ spc[s] = "head"
  /\ At(s, IF idx[s] < head THEN "skip" ELSE "tail")
  /\ UNCHANGED <<ring, publisher, idx, buffer, seen>>

(* ... idx_ = head() ... *)
SkipLost(s) ==
  /\ spc[s] = "skip"
  /\ idx' = [idx EXCEPT ![s] = head]
  /\ At(s, "tail")
  /\ UNCHANGED <<ring, publisher, buffer, seen>>

(* Mutants: off by one, either way. *)
UnreadPastTail(i) == i <= tail
UnreadBeforeLast(i) == i < tail - 1

Unread(i) == i < tail

(* ... return idx_ < tail(). *)
CheckTail(s) ==
  /\ spc[s] = "tail"
  /\ At(s, IF Unread(idx[s]) THEN "invoke" ELSE "spin")
  /\ UNCHANGED <<ring, publisher, idx, buffer, seen>>

(* pop_front when the deque has outgrown buffer_size_. *)
Bounded(q) == IF Len(q) > BufferSize THEN Tail(q) ELSE q

(* invoke_: copy(idx_), abort() on an empty element, push it on the deque. *)
Invoke(s) ==
  LET m == slots[SlotOf(idx[s], head, tail)]
  IN /\ spc[s] = "invoke"
     /\ IF m = Null
          THEN At(s, "aborted") /\ UNCHANGED <<buffer, idx>>
          ELSE /\ buffer' = [buffer EXCEPT ![s] = Bounded(Append(@, m))]
               /\ idx' = [idx EXCEPT ![s] = @ + 1]
               /\ At(s, "spin")
     /\ UNCHANGED <<ring, publisher, seen>>

(* spin_: call back with the front of the deque. *)
Spin(s) ==
  /\ spc[s] = "spin"
  /\ IF buffer[s] # <<>>
       THEN /\ buffer' = [buffer EXCEPT ![s] = Tail(@)]
            /\ last' = [last EXCEPT ![s] = Head(buffer[s])]
            /\ again' = [again EXCEPT ![s] = (last[s] = Head(buffer[s]))]
       ELSE UNCHANGED <<buffer, seen>>
  /\ At(s, "head")
  /\ UNCHANGED <<ring, publisher, idx>>

SpinStep(s) ==
  CheckHead(s) \/ SkipLost(s) \/ CheckTail(s) \/ Invoke(s) \/ Spin(s)

PublisherStep == Publish \/ Offline \/ Reset

Next == PublisherStep \/ \E s \in Subscribers : SpinStep(s)

Spec == Init /\ [][Next]_vars

(* The program of a subscriber calls spin_once() again and again. *)
FairSpec == Spec /\ \A s \in Subscribers : WF_vars(SpinStep(s))

-----------------------------------------------------------------------------
(* While the publisher lives, what lies between head_ and tail_ is exactly  *)
(* the newest published messages, each in its slot: no element of the       *)
(* window is overwritten when head_ and tail_ move. No subscriber runs      *)
(* ahead of it: an index taken from an older head() and used with a newer   *)
(* tail() stays within what exists. So the error branch "null itor" of      *)
(* invoke_, which ends the subscriber's process, is reached only once the   *)
(* publisher's destructor has started to empty the ring.                    *)
WindowIntact ==
  /\ TypeOK
  /\ head <= tail /\ tail - head <= N
  /\ ppc = "on" => \A i \in head .. (tail - 1) : slots[i % N] = i
  /\ \A s \in Subscribers : idx[s] <= tail /\ (spc[s] = "aborted" => ppc # "on")

(* The topic keeps the promise of LossyTopic, although head_, tail_ and the *)
(* element are read under three separate locks.                             *)
Abstract == INSTANCE LossyTopic WITH published <- tail
Implements == Abstract!Spec

(* Once publication stops, every subscriber's callback sees the newest      *)
(* message, unless the publisher is destroyed.                              *)
NewestIsSeen ==
  \A s \in Subscribers :
    tail = MaxPublished ~> last[s] = MaxPublished - 1 \/ ppc # "on"
=============================================================================
