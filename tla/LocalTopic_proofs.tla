-------------------------- MODULE LocalTopic_proofs --------------------------
(***************************************************************************)
(* What TLAPS proves about the local channel. First a topic, for a ring of *)
(* any size and any number of subscribers and messages: the ring keeps the *)
(* newest messages, and the topic implements LossyTopic. Then a service,   *)
(* for any number of clients, calls and services made over one buffer: no  *)
(* request is lost or served twice, and the service implements RemoteCall. *)
(* Both share the arithmetic of the ring.                                  *)
(***************************************************************************)
EXTENDS LocalTopic, LocalService, FiniteSetTheorems, TLAPS

(***************************************************************************)
(* The slots of the ring: messages less than N apart are in different ones. *)
(***************************************************************************)
LEMMA SlotExists == ASSUME NEW i \in Nat PROVE i % N \in 0 .. (N - 1)
  BY SizeAssumption

LEMMA Division ==
  ASSUME NEW i \in Nat
  PROVE  i = N * (i \div N) + (i % N) /\ i \div N \in Int
  BY SizeAssumption

LEMMA AtLeastN == ASSUME NEW d \in Int, d >= 1 PROVE N * d >= N
  BY SizeAssumption

LEMMA AtMostZero == ASSUME NEW d \in Int, d <= 0 PROVE N * d <= 0
  BY SizeAssumption

LEMMA SlotsDiffer ==
  ASSUME NEW i \in Nat, NEW j \in Nat, i < j, j < i + N
  PROVE  i % N # j % N
<1> SUFFICES ASSUME i % N = j % N PROVE FALSE
  OBVIOUS
<1> DEFINE d == (j \div N) - (i \div N)
<1>1. d \in Int /\ j - i = N * d
  BY Division, SizeAssumption, SlotExists
<1>2. d <= 0 \/ d >= 1
  BY <1>1
<1> HIDE DEF d
<1> QED
  BY <1>1, <1>2, AtLeastN, AtMostZero, SizeAssumption

-----------------------------------------------------------------------------
(* The ring always has the N newest messages, more than lie between head_    *)
(* and tail_; the publisher's destructor may have emptied some of the slots. *)
Stored ==
  \A i \in 0 .. (tail - 1) :
    tail - N <= i => slots[i % N] = i \/ (ppc # "on" /\ slots[i % N] = Null)

(* push_back keeps one slot free, so a ring of one slot has an empty window. *)
Window ==
  /\ head <= tail /\ tail - head < N
  /\ N > 1 /\ tail > 0 => head < tail
  /\ Stored

(* Where s is in the ring. *)
Position(s) ==
  /\ idx[s] <= tail /\ last[s] < tail
  /\ spc[s] = "invoke" => idx[s] < tail
  /\ spc[s] = "aborted" => ppc # "on"

(* The callback of s may see message i next. *)
Fresh(s, i) == last[s] < i \/ (last[s] = i /\ ~again[s])

(* The element of the deque: it is in turn, and if copy() gave a newer one than *)
(* idx_ asked for, the one that head_ was at, it may be read once more.         *)
Fetched(s, m) ==
  Fresh(s, m) /\ m < tail /\ (m < idx[s] \/ (m <= head /\ last[s] < m))

(* The deque holds what invoke_ pushed until spin_ takes it in the same round, *)
(* and idx_ is ahead of the last message unless that one may be seen again.    *)
InTurn(s) ==
  /\ spc[s] # "spin" => buffer[s] = <<>>
  /\ spc[s] = "head" => last[s] < idx[s] \/ (last[s] <= head /\ ~again[s])
  /\ spc[s] = "skip" => Fresh(s, head)
  /\ spc[s] \in {"tail", "invoke"} => Fresh(s, idx[s])
  /\ spc[s] = "spin" =>
       \/ buffer[s] = <<>> /\ last[s] < idx[s]
       \/ \E m \in Message : buffer[s] = <<m>> /\ Fetched(s, m)

Places == Window /\ \A s \in Subscribers : Position(s) /\ InTurn(s)

Inv == TypeOK /\ Places
-----------------------------------------------------------------------------
LEMMA InvInit == Init => Inv
<1> SUFFICES ASSUME Init PROVE Inv
  OBVIOUS
<1> USE TopicAssumption, SizeAssumption DEF Init
<1>1. TypeOK
  BY DEF TypeOK
<1>2. Window
  BY DEF Window, Stored
<1>3. ASSUME NEW s \in Subscribers PROVE Position(s) /\ InTurn(s)
  BY DEF Position, InTurn
<1> QED
  BY <1>1, <1>2, <1>3 DEF Inv, Places

(* What copy() finds for an index below tail_: the message itself, or a newer   *)
(* one when head_ has passed it, or an empty element of a destroyed publisher.  *)
LEMMA Copied ==
  ASSUME Inv, NEW i \in Nat, i < tail
  PROVE  LET m == slots[SlotOf(i, head, tail)]
         IN \/ m = Null /\ ppc # "on"
            \/ m \in Message /\ i <= m /\ m < tail /\ (m = i \/ m <= head)
<1> USE TopicAssumption, SizeAssumption
<1> DEFINE c == Clamp(i, head, tail)
<1>1. head \in Nat /\ tail \in Nat /\ tail <= MaxPublished
  BY DEF Inv, TypeOK
<1>2. /\ head <= tail /\ tail - head < N /\ (N = 1 \/ head < tail)
      /\ \A j \in 0 .. (tail - 1) :
           tail - N <= j => slots[j % N] = j \/ (ppc # "on" /\ slots[j % N] = Null)
  BY <1>1 DEF Inv, Places, Window, Stored
<1>3. CASE head < tail
  <2>1. c \in 0 .. (tail - 1) /\ tail - N <= c /\ i <= c /\ (c = i \/ c = head)
    BY <1>1, <1>2, <1>3 DEF Clamp
  <2>2. slots[c % N] = c \/ (ppc # "on" /\ slots[c % N] = Null)
    BY <2>1, <1>2
  <2> HIDE DEF c
  <2>3. c \in Message
    BY <2>1, <1>1 DEF Message
  <2> QED
    BY <1>1, <2>1, <2>2, <2>3 DEF SlotOf, c
<1>4. CASE head = tail
  <2>1. N = 1 /\ c = head /\ tail - 1 \in 0 .. (tail - 1)
    BY <1>1, <1>2, <1>4 DEF Clamp
  <2>2. c % N = 0 /\ (tail - 1) % N = 0
    BY <2>1, <1>1
  <2>3. slots[0] = tail - 1 \/ (ppc # "on" /\ slots[0] = Null)
    BY <2>1, <2>2, <1>1, <1>2
  <2>4. tail - 1 \in Message /\ i <= tail - 1 /\ tail - 1 < tail /\ tail - 1 <= head
    BY <1>1, <1>4 DEF Message
  <2> QED
    BY <2>2, <2>3, <2>4 DEF SlotOf
<1> QED
  BY <1>1, <1>2, <1>3, <1>4

LEMMA TypeStep == Inv /\ [Next]_vars => TypeOK'
<1> SUFFICES ASSUME Inv, [Next]_vars PROVE TypeOK'
  OBVIOUS
<1> USE TopicAssumption, SizeAssumption DEF Inv, Places, TypeOK, ring, publisher, seen, Message
<1>1. CASE Publish
  <2>1. head' \in 0 .. MaxPublished /\ tail' \in 0 .. MaxPublished
    BY <1>1 DEF Publish, HeadAfterPush
  <2>2. slots' \in [0 .. (N - 1) -> Message \cup {Null}]
    BY <1>1 DEF Publish
  <2> QED
    BY <1>1, <2>1, <2>2 DEF Publish
<1>2. CASE Offline
  BY <1>2 DEF Offline
<1>3. CASE Reset
  <2>1. CASE ridx < tail
    <3>1. /\ slots' = [slots EXCEPT ![SlotOf(ridx, head, tail)] = Null]
          /\ ridx' = ridx + 1 /\ UNCHANGED <<ppc, head, tail, idx, buffer, spc, last, again>>
      BY <1>3, <2>1 DEF Reset
    <3>2. ridx' \in 0 .. MaxPublished
      BY <3>1, <2>1
    <3>3. slots' \in [0 .. (N - 1) -> Message \cup {Null}]
      <4> HIDE DEF Message
      <4> QED
        BY <3>1
    <3> QED
      BY <3>1, <3>2, <3>3
  <2>2. CASE ~(ridx < tail)
    BY <2>2, <1>3 DEF Reset
  <2> QED
    BY <2>1, <2>2
<1>4. ASSUME NEW s \in Subscribers, SpinStep(s) PROVE TypeOK'
  <2>1. CASE CheckHead(s)
    BY <2>1 DEF CheckHead, At
  <2>2. CASE SkipLost(s)
    BY <2>2 DEF SkipLost, At
  <2>3. CASE CheckTail(s)
    BY <2>3 DEF CheckTail, At
  <2>4. CASE Invoke(s)
    <3> DEFINE m == slots[SlotOf(idx[s], head, tail)]
    <3>1. CASE m = Null
      BY <3>1, <2>4 DEF Invoke, At
    <3>2. CASE m # Null
      <4>1. /\ buffer' = [buffer EXCEPT ![s] = Bounded(Append(@, m))]
            /\ idx' = [idx EXCEPT ![s] = @ + 1]
            /\ spc' = [spc EXCEPT ![s] = "spin"] /\ spc[s] = "invoke"
            /\ UNCHANGED <<head, tail, slots, ppc, ridx, last, again>>
        BY <3>2, <2>4 DEF Invoke, At
      <4>2. idx[s] < tail
        BY <4>1 DEF Position
      <4>3. m \in Message
        BY <3>2, Copied, <4>2
      <4>4. Bounded(Append(buffer[s], m)) \in Seq(Message)
        <5> DEFINE q == Append(buffer[s], m)
        <5>1. q \in Seq(Message)
          BY <4>3
        <5> HIDE DEF q, Message
        <5>2. Len(q) > BufferSize => q # <<>>
          BY <5>1
        <5>3. q # <<>> => Tail(q) \in Seq(Message)
          BY <5>1
        <5> QED
          BY <5>1, <5>2, <5>3 DEF Bounded, q
      <4> HIDE DEF m
      <4> QED
        BY <4>1, <4>2, <4>4
    <3> QED
      BY <3>1, <3>2
  <2>5. CASE Spin(s)
    <3>1. CASE buffer[s] = <<>>
      BY <3>1, <2>5 DEF Spin, At
    <3>2. CASE buffer[s] # <<>>
      <4>1. /\ buffer' = [buffer EXCEPT ![s] = Tail(@)]
            /\ last' = [last EXCEPT ![s] = Head(buffer[s])]
            /\ again' = [again EXCEPT ![s] = (last[s] = Head(buffer[s]))]
            /\ spc' = [spc EXCEPT ![s] = "head"]
            /\ UNCHANGED <<head, tail, slots, ppc, ridx, idx>>
        BY <3>2, <2>5 DEF Spin, At
      <4>2. Head(buffer[s]) \in Message /\ Tail(buffer[s]) \in Seq(Message)
        BY <3>2
      <4>3. (last[s] = Head(buffer[s])) \in BOOLEAN
        OBVIOUS
      <4> QED
        BY <4>1, <4>2, <4>3
    <3> QED
      BY <3>1, <3>2
  <2> QED
    BY <1>4, <2>1, <2>2, <2>3, <2>4, <2>5 DEF SpinStep
<1>5. CASE UNCHANGED vars
  BY <1>5 DEF vars
<1> QED
  BY <1>1, <1>2, <1>3, <1>4, <1>5 DEF Next, PublisherStep

-----------------------------------------------------------------------------
(* What the buffer does leaves a subscriber that does nothing in its turn. *)
LEMMA StaysInTurn ==
  ASSUME Inv, NEW s \in Subscribers,
         head <= head', tail <= tail', head' \in Nat, tail' \in Nat,
         ppc = "on" \/ ppc' # "on",
         idx'[s] = idx[s], buffer'[s] = buffer[s], spc'[s] = spc[s],
         last'[s] = last[s], again'[s] = again[s]
  PROVE  Position(s)' /\ InTurn(s)'
<1>1. /\ Position(s) /\ InTurn(s) /\ head \in Nat /\ tail \in Nat /\ idx[s] \in Nat
      /\ last[s] \in Int /\ Message \subseteq Nat
  BY DEF Inv, Places, TypeOK, Message
<1>2. spc[s] = "aborted" => ppc' # "on"
  BY <1>1 DEF Position
<1>3. Position(s)'
  BY <1>1, <1>2 DEF Position
<1>4. ASSUME NEW m \in Message, Fetched(s, m) PROVE Fetched(s, m)'
  BY <1>1, <1>4 DEF Fetched, Fresh
<1>5. InTurn(s)'
  <2>1. spc[s] = "head" => last'[s] < idx'[s] \/ (last'[s] <= head' /\ ~again'[s])
    BY <1>1 DEF InTurn
  <2>2. spc[s] = "skip" => Fresh(s, head)'
    BY <1>1 DEF InTurn, Fresh
  <2>3. spc[s] \in {"tail", "invoke"} => Fresh(s, idx[s])'
    BY <1>1 DEF InTurn, Fresh
  <2>4. spc[s] = "spin" => \/ buffer'[s] = <<>> /\ last'[s] < idx'[s]
                          \/ \E m \in Message : buffer'[s] = <<m>> /\ Fetched(s, m)'
    BY <1>1, <1>4 DEF InTurn
  <2> QED
    BY <1>1, <2>1, <2>2, <2>3, <2>4 DEF InTurn
<1> QED
  BY <1>3, <1>5

(* The publisher: a new message takes the slot of the one that is N older. *)
LEMMA PublishInv == Inv /\ Publish => Places'
<1> SUFFICES ASSUME Inv, Publish PROVE Places'
  OBVIOUS
<1> USE TopicAssumption, SizeAssumption
<1>1. /\ ppc = "on" /\ slots' = [slots EXCEPT ![tail % N] = tail] /\ tail' = tail + 1
      /\ head' = HeadAfterPush(head, tail + 1)
      /\ ppc' = ppc /\ UNCHANGED <<idx, buffer, spc, last, again>>
  BY DEF Publish, publisher, seen
<1>2. head \in Nat /\ tail \in Nat /\ head <= tail /\ tail - head < N
  BY DEF Inv, Places, TypeOK, Window
<1>3. /\ head <= head' /\ head' \in Nat /\ head' <= tail' /\ tail' - head' < N
      /\ N > 1 => head' < tail'
  BY <1>1, <1>2 DEF HeadAfterPush
<1>4. Stored'
  <2> SUFFICES ASSUME NEW i \in 0 .. tail, tail + 1 - N <= i PROVE slots'[i % N] = i
    BY <1>1, <1>2 DEF Stored
  <2>1. CASE i = tail
    BY <2>1, <1>1, <1>2, SlotExists DEF Inv, TypeOK
  <2>2. CASE i # tail
    <3>1. i \in Nat /\ i < tail /\ tail < i + N
      BY <2>2, <1>2
    <3>2. slots[i % N] = i
      BY <3>1, <1>1, <1>2 DEF Inv, Places, Window, Stored
    <3>3. i % N # tail % N
      BY <3>1, <1>2, SlotsDiffer
    <3> QED
      BY <3>2, <3>3, <3>1, <1>1, SlotExists DEF Inv, TypeOK
  <2> QED
    BY <2>1, <2>2
<1>5. Window'
  BY <1>3, <1>4 DEF Window
<1>6. ASSUME NEW s \in Subscribers PROVE Position(s)' /\ InTurn(s)'
  BY <1>1, <1>2, <1>3, StaysInTurn
<1> QED
  BY <1>5, <1>6 DEF Places

(* Its destructor empties elements once it is offline. *)
LEMMA DestructorInv == Inv /\ (Offline \/ Reset) => Places'
<1> SUFFICES ASSUME Inv, Offline \/ Reset PROVE Places'
  OBVIOUS
<1>1. /\ UNCHANGED <<head, tail, idx, buffer, spc, last, again>>
      /\ ppc' # "on"
      /\ slots' = slots \/ \E k \in Int : slots' = [slots EXCEPT ![k] = Null]
  <2>1. CASE Offline
    BY <2>1 DEF Offline, ring, seen
  <2>2. CASE Reset
    <3> USE SizeAssumption
    <3>1. SlotOf(ridx, head, tail) \in Int
      <4>1. Clamp(ridx, head, tail) \in Int
        BY DEF Inv, TypeOK, Clamp
      <4> QED
        BY <4>1 DEF SlotOf
    <3> QED
      BY <2>2, <3>1 DEF Reset, seen
  <2> QED
    BY <2>1, <2>2
<1>2. head \in Nat /\ tail \in Nat /\ slots \in [0 .. (N - 1) -> Message \cup {Null}]
  BY DEF Inv, TypeOK
<1>3. Window'
  <2>1. Stored'
    <3> SUFFICES ASSUME NEW i \in 0 .. (tail - 1), tail - N <= i
                 PROVE  slots'[i % N] = i \/ slots'[i % N] = Null
      BY <1>1 DEF Stored
    <3>1. slots[i % N] = i \/ slots[i % N] = Null
      BY DEF Inv, Places, Window, Stored
    <3>2. i \in Nat /\ i % N \in 0 .. (N - 1)
      BY <1>2, SlotExists
    <3>3. CASE slots' = slots
      BY <3>1, <3>3
    <3>4. ASSUME NEW k \in Int, slots' = [slots EXCEPT ![k] = Null]
          PROVE  slots'[i % N] = i \/ slots'[i % N] = Null
      BY <3>1, <3>2, <3>4, <1>2
    <3> QED
      BY <3>3, <3>4, <1>1
  <2> QED
    BY <2>1, <1>1 DEF Inv, Places, Window
<1>4. ASSUME NEW s \in Subscribers PROVE Position(s)' /\ InTurn(s)'
  BY <1>1, <1>2, StaysInTurn
<1> QED
  BY <1>3, <1>4 DEF Places

-----------------------------------------------------------------------------
(* A round of spin_once. *)
LEMMA SpinStepInv == ASSUME Inv, NEW s \in Subscribers, SpinStep(s) PROVE Places'
<1> USE TopicAssumption, SizeAssumption
<1>1. /\ UNCHANGED <<head, tail, slots, ppc>>
      /\ \A t \in Subscribers \ {s} :
           /\ idx'[t] = idx[t] /\ buffer'[t] = buffer[t] /\ spc'[t] = spc[t]
           /\ last'[t] = last[t] /\ again'[t] = again[t]
  BY DEF SpinStep, CheckHead, SkipLost, CheckTail, Invoke, Spin, At, ring, publisher, seen,
     Inv, TypeOK
<1>2. /\ head \in Nat /\ tail \in Nat /\ head <= tail /\ idx[s] \in Nat
      /\ last[s] \in Int /\ again[s] \in BOOLEAN
      /\ s \in DOMAIN idx /\ s \in DOMAIN buffer /\ s \in DOMAIN spc
      /\ s \in DOMAIN last /\ s \in DOMAIN again /\ Message \subseteq Nat
      /\ Position(s) /\ InTurn(s)
  BY DEF Inv, Places, Window, TypeOK, Message
<1>3. Window'
  BY <1>1 DEF Inv, Places, Window, Stored
<1>4. ASSUME NEW t \in Subscribers \ {s} PROVE Position(t)' /\ InTurn(t)'
  BY <1>1, <1>2, StaysInTurn
<1>5. Position(s)' /\ InTurn(s)'
  <2>1. CASE CheckHead(s)
    <3>1. /\ spc[s] = "head" /\ spc'[s] = IF idx[s] < head THEN "skip" ELSE "tail"
          /\ UNCHANGED <<idx, buffer, last, again>>
      BY <2>1, <1>2 DEF CheckHead, At, seen
    <3>2. Position(s)'
      BY <3>1, <1>1, <1>2 DEF Position
    <3>3. last[s] < idx[s] \/ (last[s] <= head /\ ~again[s])
      BY <3>1, <1>2 DEF InTurn
    <3>4. CASE idx[s] < head
      BY <3>1, <3>2, <3>3, <3>4, <1>1, <1>2 DEF InTurn, Fresh
    <3>5. CASE ~(idx[s] < head)
      BY <3>1, <3>2, <3>3, <3>5, <1>1, <1>2 DEF InTurn, Fresh
    <3> QED
      BY <3>4, <3>5
  <2>2. CASE SkipLost(s)
    BY <2>2, <1>1, <1>2 DEF SkipLost, At, Position, InTurn, Fresh, seen
  <2>3. CASE CheckTail(s)
    BY <2>3, <1>1, <1>2 DEF CheckTail, Unread, At, Position, InTurn, Fresh, seen
  <2>4. CASE Invoke(s)
    <3>0. PICK m : m = slots[SlotOf(idx[s], head, tail)]
      OBVIOUS
    <3>1. /\ spc[s] = "invoke" /\ idx[s] < tail /\ Fresh(s, idx[s])
          /\ buffer[s] = <<>> /\ UNCHANGED <<last, again>>
      BY <2>4, <1>2 DEF Invoke, Position, InTurn, seen
    <3>2. \/ m = Null /\ ppc # "on"
          \/ m \in Message /\ idx[s] <= m /\ m < tail /\ (m = idx[s] \/ m <= head)
      BY <3>0, <3>1, <1>2, Copied
    <3>3. CASE m = Null
      <4>1. spc' = [spc EXCEPT ![s] = "aborted"] /\ UNCHANGED <<buffer, idx>>
        BY <3>0, <3>3, <2>4 DEF Invoke, At
      <4> QED
        BY <4>1, <3>1, <3>2, <3>3, <1>1, <1>2 DEF Position, InTurn, Message
    <3>4. CASE m # Null
      <4>1. /\ buffer' = [buffer EXCEPT ![s] = Bounded(Append(@, m))]
            /\ idx' = [idx EXCEPT ![s] = @ + 1] /\ spc' = [spc EXCEPT ![s] = "spin"]
        BY <3>0, <3>4, <2>4 DEF Invoke, At
      <4>2. buffer'[s] = <<m>>
        <5>1. Append(<<>>, m) = <<m>> /\ Len(<<m>>) = 1
          OBVIOUS
        <5> QED
          BY <4>1, <3>1, <1>2, <5>1 DEF Bounded
      <4>3. idx'[s] = idx[s] + 1 /\ spc'[s] = "spin"
        BY <4>1, <1>2
      <4>4. Fetched(s, m)'
        <5>1. last'[s] = last[s] /\ again'[s] = again[s] /\ m \in Nat
          BY <3>1, <3>2, <3>4, <1>2
        <5>2. last[s] < m \/ (last[s] = m /\ ~again[s])
          BY <5>1, <3>1, <3>2, <3>4, <1>2 DEF Fresh
        <5>3. m < idx[s] + 1 \/ (m <= head /\ last[s] < m)
          BY <5>1, <3>1, <3>2, <3>4, <1>2 DEF Fresh
        <5> QED
          BY <5>1, <5>2, <5>3, <4>3, <3>2, <3>4, <1>1 DEF Fetched, Fresh
      <4>5. Position(s)'
        BY <4>3, <3>1, <1>1, <1>2 DEF Position
      <4> QED
        BY <4>2, <4>3, <4>4, <4>5, <3>2, <3>4 DEF InTurn
    <3> QED
      BY <3>3, <3>4
  <2>5. CASE Spin(s)
    <3>1. spc[s] = "spin" /\ spc'[s] = "head" /\ idx' = idx
      BY <2>5, <1>2 DEF Spin, At
    <3>2. CASE buffer[s] = <<>>
      <4>1. last[s] < idx[s] /\ UNCHANGED <<buffer, last, again>>
        BY <2>5, <3>1, <3>2, <1>2 DEF Spin, InTurn, seen
      <4> QED
        BY <4>1, <3>1, <3>2, <1>1, <1>2 DEF Position, InTurn
    <3>3. CASE buffer[s] # <<>>
      <4>1. PICK m \in Message : buffer[s] = <<m>> /\ Fetched(s, m)
        BY <3>1, <3>3, <1>2 DEF InTurn
      <4>2. Head(buffer[s]) = m /\ Tail(buffer[s]) = <<>>
        BY <4>1
      <4>3. buffer'[s] = <<>> /\ last'[s] = m /\ again'[s] = (last[s] = m)
        BY <2>5, <3>3, <4>2, <1>2 DEF Spin
      <4> QED
        <5>1. m \in Nat /\ m < tail /\ (m < idx[s] \/ (m <= head /\ last[s] < m))
          BY <4>1, <1>2 DEF Fetched
        <5>2. m < idx[s] \/ (m <= head /\ ~again'[s])
          <6>1. last[s] < m => last[s] # m
            BY <5>1, <1>2
          <6> QED
            BY <5>1, <6>1, <4>3, Zenon
        <5>3. Position(s)'
          BY <5>1, <4>3, <3>1, <1>1, <1>2 DEF Position
        <5> QED
          BY <5>2, <5>3, <4>3, <3>1, <1>1 DEF InTurn
    <3> QED
      BY <3>2, <3>3
  <2> QED
    BY <2>1, <2>2, <2>3, <2>4, <2>5 DEF SpinStep
<1> QED
  BY <1>3, <1>4, <1>5 DEF Places

LEMMA InvNext == Inv /\ [Next]_vars => Inv'
<1> SUFFICES ASSUME Inv, [Next]_vars PROVE Inv'
  OBVIOUS
<1>1. CASE UNCHANGED vars
  BY <1>1 DEF vars, ring, publisher, seen, Inv, TypeOK, Places, Window, Stored, Position,
     InTurn, Fetched, Fresh
<1>2. CASE Next
  <2>1. Places'
    BY <1>2, PublishInv, DestructorInv, SpinStepInv DEF Next, PublisherStep
  <2> QED
    BY <2>1, TypeStep DEF Inv
<1> QED
  BY <1>1, <1>2

-----------------------------------------------------------------------------
(* The inductive invariant holds in every reachable state. *)
LEMMA InvAlways == Spec => []Inv
  BY InvInit, InvNext, PTL DEF Spec

(* While the publisher lives, the window between head_ and tail_ is intact, and *)
(* no subscriber gets ahead of tail_ or is aborted by an empty element.         *)
THEOREM WindowStaysIntact == Spec => []WindowIntact
<1>1. Inv => WindowIntact
  <2> SUFFICES ASSUME Inv PROVE WindowIntact
    OBVIOUS
  <2> USE SizeAssumption
  <2>1. head \in Nat /\ tail \in Nat /\ head <= tail /\ tail - head < N
    BY DEF Inv, TypeOK, Places, Window
  <2>2. ASSUME ppc = "on", NEW i \in head .. (tail - 1) PROVE slots[i % N] = i
    <3>1. i \in 0 .. (tail - 1) /\ tail - N <= i
      BY <2>1
    <3> QED
      BY <3>1, <2>2 DEF Inv, Places, Window, Stored
  <2> QED
    BY <2>1, <2>2 DEF WindowIntact, Inv, Places, Position
<1> QED
  BY <1>1, InvAlways, PTL

(* The ring and the rounds of spin_once implement LossyTopic: callbacks see the *)
(* messages in the order of publication, and none more than twice.              *)
THEOREM ImplementsLossyTopic == Spec => Implements
<1>1. Init => Abstract!Init
  BY DEF Init, Abstract!Init
<1>2. Inv /\ [Next]_vars => [Abstract!Next]_(Abstract!vars)
  <2> SUFFICES ASSUME Inv, [Next]_vars PROVE Abstract!Next \/ UNCHANGED <<tail, last, again>>
    BY DEF Abstract!vars
  <2> USE DEF ring, publisher, seen
  <2>1. CASE Publish
    BY <2>1 DEF Publish, Abstract!Next, Abstract!Publish
  <2>2. CASE Offline \/ Reset \/ UNCHANGED vars
    BY <2>2 DEF Offline, Reset, vars
  <2>3. ASSUME NEW s \in Subscribers, SpinStep(s)
        PROVE  Abstract!Next \/ UNCHANGED <<tail, last, again>>
    <3>1. CASE CheckHead(s) \/ SkipLost(s) \/ CheckTail(s) \/ Invoke(s)
      BY <3>1 DEF CheckHead, SkipLost, CheckTail, Invoke
    <3>2. CASE Spin(s)
      <4>1. CASE buffer[s] = <<>>
        BY <3>2, <4>1 DEF Spin
      <4>2. CASE buffer[s] # <<>>
        <5>1. PICK m \in Message : buffer[s] = <<m>> /\ Fetched(s, m)
          BY <3>2, <4>2 DEF Spin, Inv, Places, InTurn
        <5>2. Head(buffer[s]) = m
          BY <5>1
        <5>3. /\ last' = [last EXCEPT ![s] = m]
              /\ again' = [again EXCEPT ![s] = (last[s] = m)] /\ tail' = tail
          BY <3>2, <4>2, <5>2 DEF Spin
        <5>4. /\ last \in [Subscribers -> Message \cup {-1}] /\ tail \in Nat
              /\ Message \subseteq Nat /\ again \in [Subscribers -> BOOLEAN]
          BY DEF Inv, TypeOK, Message
        <5>5. CASE last[s] < m
          <6>1. m \in (last[s] + 1) .. (tail - 1)
            <7>1. m \in Nat /\ last[s] \in Nat \cup {-1} /\ tail \in Nat
              BY <5>1, <5>4
            <7> QED
              BY <5>1, <5>5, <7>1 DEF Fetched
          <6>2. again' = [again EXCEPT ![s] = FALSE]
            <7>1. last[s] # m
              BY <5>1, <5>4, <5>5
            <7>2. (last[s] = m) = FALSE
              BY <7>1, Zenon
            <7> QED
              BY <7>2, <5>3, Zenon
          <6> QED
            BY <6>1, <6>2, <5>3 DEF Abstract!Next, Abstract!Deliver
        <5>6. CASE last[s] = m /\ ~again[s]
          <6>1. last' = last
            BY <5>3, <5>4, <5>6
          <6>2. again' = [again EXCEPT ![s] = TRUE] /\ last[s] # -1
            <7>1. (last[s] = m) = TRUE
              BY <5>6, Zenon
            <7>2. last[s] # -1
              BY <5>1, <5>4, <5>6
            <7> QED
              BY <7>1, <7>2, <5>3, Zenon
          <6> QED
            BY <6>1, <6>2, <5>3, <5>6 DEF Abstract!Next, Abstract!Redeliver
        <5> QED
          BY <5>1, <5>5, <5>6 DEF Fetched, Fresh
      <4> QED
        BY <4>1, <4>2
    <3> QED
      BY <2>3, <3>1, <3>2 DEF SpinStep
  <2> QED
    BY <2>1, <2>2, <2>3 DEF Next, PublisherStep
<1> QED
  BY <1>1, <1>2, InvAlways, PTL DEF Spec, Implements, Abstract!Spec

-----------------------------------------------------------------------------
(***************************************************************************)
(* The local service, the other user of the ring.                          *)
(***************************************************************************)
(* Clients look before they call, and are few enough for the ring: twice as   *)
(* many requests as clients are the most that a service can have before it. A *)
(* ring of two, which holds one request, is too small for a single client.    *)
FewPolite == Polite = TRUE /\ 2 * Cardinality(Clients) <= N /\ N # 2

Pushing == {c \in Clients : cpc[c] = "push"}
Serving == stage \in {"head", "skip", "tail", "pick", "call", "ready"}

(* What bounds the variables. *)
Limits ==
  /\ tail + Cardinality(Pushing) <= MaxCalls
  /\ since <= tail
  /\ stage \in {"pick", "call", "ready"} => idx_ < tail
  /\ stage \in {"reset", "off"} => made < MaxServices

(* The ring loses a request only when it is full, and a new one is empty. *)
LastInRing ==
  /\ head <= tail /\ tail - head < N
  /\ stage = "start" \/ Serving => head <= idx_ \/ head = tail - N + 1

(* Each client waits for a request of its own, until that is ready or the     *)
(* program ends.                                                              *)
Owned ==
  /\ \A c \in Clients : cpc[c] = "leave" /\ ok => is_ready[req[c]]
  /\ \A c \in Clients : Pending(c) => req[c] \in 0 .. (tail - 1)
  /\ \A c, d \in Clients : Pending(c) /\ Pending(d) /\ req[c] = req[d] => c = d

(* is_ready says that the callback has been called, and nothing that was made *)
(* of this service is served twice.                                           *)
Counted ==
  \A r \in Requests :
    /\ is_ready[r] => served[r] > 0
    /\ r >= tail => served[r] = 0
    /\ r >= since => served[r] <= 1

(* Whoever had looked before the service went offline pushes once. *)
Offered ==
  /\ stage # "crashed" => (online <=> Serving)
  /\ stage = "start" => idx_ <= tail /\ tail - idx_ + Cardinality(Pushing) <= Cardinality(Clients)
  /\ Serving => idx_ <= tail /\ since - idx_ <= Cardinality(Clients)

(* What the service has before it is still in the ring. *)
Queued ==
  stage = "start" \/ Serving =>
    \A i \in idx_ .. (tail - 1) : tail - N <= i => slots[i % N] = i

(* A client has request r, and waits for it; or it did so when the program was *)
(* told to end, and does not call again.                                      *)
Waits(c, r) == cpc[c] # "push" /\ (ok => Pending(c)) /\ req[c] = r

(* The requests made of the service are answered in turn, while their clients *)
(* wait for them.                                                             *)
Answered ==
  Serving =>
    \A r \in since .. (tail - 1) :
      /\ is_ready[r] <=> r < idx_
      /\ r >= idx_ => served[r] = 0 /\ \E c \in Clients : Waits(c, r)

(* The service works on the request of idx_, or on the next one when that is  *)
(* lost; the next one was not made of this service then.                      *)
WorksOn(g) ==
  /\ g < tail /\ (g # idx_ => g < since)
  /\ sref = g % N
  /\ stage = "ready" => cur = g
Working ==
  /\ stage = "skip" => idx_ < head
  /\ stage \in {"call", "ready"} => \E g \in {idx_, idx_ + 1} : WorksOn(g)

(* A dead process has no client either. *)
Alive == stage = "crashed" => \A c \in Clients : cpc[c] = "crashed"

ServiceInv ==
  /\ ServiceTypeOK /\ Alive /\ Limits /\ LastInRing /\ Owned /\ Counted
  /\ Offered /\ Queued /\ Answered /\ Working

-----------------------------------------------------------------------------
LEMMA ClientCount ==
  /\ IsFiniteSet(Clients) /\ Cardinality(Clients) \in Nat
  /\ IsFiniteSet(Pushing) /\ Cardinality(Pushing) \in Nat
  /\ Cardinality(Pushing) <= Cardinality(Clients)
<1>1. IsFiniteSet(Clients) /\ Pushing \in SUBSET Clients
  BY ServiceAssumption DEF Pushing
<1>2. /\ IsFiniteSet(Pushing) /\ Cardinality(Pushing) <= Cardinality(Clients)
  BY <1>1, FS_Subset
<1> QED
  BY <1>1, <1>2, FS_CardinalityType

(* The numbers of a well-typed state. *)
LEMMA Numbers ==
  ASSUME ServiceTypeOK
  PROVE  /\ head \in Nat /\ tail \in Nat /\ idx_ \in Nat /\ reset_idx \in Nat /\ since \in Nat
         /\ sref \in Nat /\ N \in Nat /\ N > 0 /\ MaxCalls \in Nat
         /\ Requests \subseteq Nat /\ Null \notin Nat
  BY ServiceAssumption, SizeAssumption DEF ServiceTypeOK, Requests

LEMMA ServiceInvInit == ServiceInit => ServiceInv
<1> SUFFICES ASSUME ServiceInit PROVE ServiceInv
  OBVIOUS
<1> USE DEF ServiceInit
<1>1. ServiceTypeOK
  <2>1. 0 \in 0 .. MaxCalls /\ 0 \in 0 .. (N - 1) /\ 1 \in 1 .. MaxServices
    BY ServiceAssumption, SizeAssumption
  <2>2. /\ cpc \in [Clients -> {"idle", "push", "wait", "check", "leave", "crashed"}]
        /\ req \in [Clients -> Requests \cup {-1}] /\ result \in [Clients -> BOOLEAN]
        /\ is_ready \in [Requests -> BOOLEAN] /\ served \in [Requests -> Nat]
        /\ slots \in [0 .. (N - 1) -> Requests \cup {Null}]
    OBVIOUS
  <2> QED
    BY <2>1, <2>2 DEF ServiceTypeOK
<1>2. Pushing = {} /\ Cardinality(Pushing) = 0
  <2>1. Pushing = {}
    BY DEF Pushing
  <2> QED
    BY <2>1, FS_EmptySet
<1>3. Limits /\ LastInRing
  BY <1>2, ServiceAssumption, SizeAssumption DEF Limits, LastInRing, Serving
<1>4. Owned
  BY DEF Owned, Pending
<1>5. Counted
  <2>1. \A r \in Requests : is_ready[r] = FALSE /\ served[r] = 0
    OBVIOUS
  <2> QED
    BY <2>1 DEF Counted
<1>6. Offered /\ Queued /\ Answered /\ Working
  BY <1>2 DEF Offered, Queued, Answered, Working, Serving
<1> QED
  BY <1>1, <1>3, <1>4, <1>5, <1>6 DEF ServiceInv, Alive

(* The requests of the service that are not answered have each a client that  *)
(* waits for them.                                                            *)
LEMMA OneEach ==
  ASSUME ServiceInv, Serving, NEW lo \in Nat, since <= lo, idx_ <= lo
  PROVE  tail - lo <= Cardinality(Clients)
<1> DEFINE W == lo .. (tail - 1)
           f == [r \in W |-> CHOOSE c \in Clients : Waits(c, r)]
<1>1. tail \in Nat /\ since \in Nat /\ idx_ \in Nat
  BY Numbers DEF ServiceInv
<1>2. \A r \in W : f[r] \in Clients /\ req[f[r]] = r
  <2> TAKE r \in W
  <2>1. r \in since .. (tail - 1) /\ r >= idx_
    BY <1>1
  <2>2. \E c \in Clients : Waits(c, r)
    BY <2>1 DEF ServiceInv, Answered
  <2> QED
    BY <2>2 DEF Waits
<1>3. f \in Injection(W, Clients)
  <2> HIDE DEF W
  <2>1. f \in [W -> Clients]
    BY <1>2
  <2>2. ASSUME NEW r \in W, NEW s \in W, f[r] = f[s] PROVE r = s
    BY <1>2, <2>2
  <2> QED
    BY <2>1, <2>2 DEF Injection, IsInjective
<1>4. Cardinality(W) <= Cardinality(Clients)
  BY <1>3, FS_Injection, ServiceAssumption
<1>5. Cardinality(W) = IF lo > tail - 1 THEN 0 ELSE (tail - 1) - lo + 1
  BY <1>1, FS_Interval
<1> QED
  BY <1>1, <1>4, <1>5, ClientCount

(* The service never has more than N requests before it, and if any of them   *)
(* is lost it is the one of idx_ alone, and not the last made before since.   *)
LEMMA EnoughRoom ==
  ASSUME ServiceInv, Serving, FewPolite
  PROVE  /\ tail - idx_ <= N /\ idx_ <= tail
         /\ idx_ < head => head = idx_ + 1 /\ head < since
         /\ head <= tail /\ (idx_ < tail /\ N > 1 => head < tail)
         /\ since <= idx_ => tail - idx_ < N
<1>1. /\ head \in Nat /\ tail \in Nat /\ idx_ \in Nat /\ since \in Nat /\ N \in Nat /\ N > 0
      /\ Cardinality(Clients) \in Nat
  BY Numbers, ClientCount DEF ServiceInv
<1>2. idx_ <= tail /\ since <= tail /\ since - idx_ <= Cardinality(Clients)
  BY DEF ServiceInv, Offered, Limits
<1>3. 2 * Cardinality(Clients) <= N /\ N # 2
  BY DEF FewPolite
<1>4. since <= idx_ => tail - idx_ <= Cardinality(Clients)
  BY <1>1, OneEach
<1>5. idx_ <= since => tail - since <= Cardinality(Clients)
  BY <1>1, OneEach
<1>6. head <= tail /\ (head <= idx_ \/ head = tail - N + 1)
  BY DEF ServiceInv, LastInRing
<1> QED
  BY <1>1, <1>2, <1>3, <1>4, <1>5, <1>6

-----------------------------------------------------------------------------
(* What connects and disconnects, and the end of the program. *)
LinkStep == Quit \/ \E c \in Clients : Connect(c) \/ Disconnect(c)

LEMMA Steps ==
  ASSUME [ServiceNext]_serviceVars
  PROVE  \/ UNCHANGED serviceVars
         \/ \E c \in Clients :
              Ask(c) \/ Push(c) \/ Poll(c) \/ CheckOnline(c) \/ Leave(c)
         \/ CompareHead \/ SkipOverrun \/ CompareTail \/ Pick \/ Callback \/ Ready
         \/ Create \/ GoOnline \/ GoOffline \/ ResetRequests \/ Remake
         \/ LinkStep \/ Crash
BY DEF ServiceNext, ClientStep, ServiceStep, SpinService, LinkStep, CallCrashes, ConnectedCrashes,
       MakingCrashes

LEMMA TypeNext == ServiceInv /\ [ServiceNext]_serviceVars => ServiceTypeOK'
<1> SUFFICES ASSUME ServiceInv, [ServiceNext]_serviceVars PROVE ServiceTypeOK'
  OBVIOUS
<1> USE Numbers, SizeAssumption, ServiceAssumption
<1> USE DEF ring, service, client, request, link
<1>0. /\ ServiceTypeOK /\ Limits /\ LastInRing
      /\ Cardinality(Pushing) \in Nat
  BY ClientCount DEF ServiceInv
<1>1. ASSUME NEW c \in Clients, Ask(c) \/ Poll(c) \/ CheckOnline(c) \/ Leave(c)
      PROVE  ServiceTypeOK'
  <2>1. /\ UNCHANGED <<ring, online, link, service, req, request>>
        /\ cpc' \in [Clients -> {"idle", "push", "wait", "check", "leave", "crashed"}]
    BY <1>0, <1>1 DEF Ask, Poll, CheckOnline, Leave, ClientAt, ServiceTypeOK
  <2>2. result' \in [Clients -> BOOLEAN]
    <3>1. CASE Leave(c)
      <4>1. is_ready[req[c]] \in BOOLEAN
        <5>1. req[c] \in 0 .. (tail - 1)
          BY <3>1 DEF Leave, ServiceInv, Owned, Pending
        <5> QED
          BY <1>0, <5>1 DEF ServiceTypeOK, Requests
      <4> QED
        BY <1>0, <3>1, <4>1 DEF Leave, ServiceTypeOK
    <3>2. CASE ~Leave(c)
      BY <1>0, <1>1, <3>2 DEF Ask, Poll, CheckOnline, ServiceTypeOK
    <3> QED
      BY <3>1, <3>2
  <2> QED
    BY <1>0, <2>1, <2>2 DEF ServiceTypeOK
<1>2. ASSUME NEW c \in Clients, Push(c) PROVE ServiceTypeOK'
  <2>1. tail < MaxCalls
    <3>1. c \in Pushing
      BY <1>2 DEF Push, Pushing
    <3>2. Cardinality(Pushing) # 0
      BY <3>1, ClientCount, FS_EmptySet
    <3> QED
      BY <1>0, <3>2 DEF Limits
  <2>2. tail \in Requests /\ tail % N \in 0 .. (N - 1)
    BY <1>0, <2>1, SlotExists DEF Requests
  <2>3. head' \in 0 .. MaxCalls /\ tail' \in 0 .. MaxCalls
    BY <1>0, <1>2, <2>1 DEF Push, HeadAfterPush, LastInRing
  <2>4. slots' \in [0 .. (N - 1) -> Requests \cup {Null}]
    BY <1>0, <1>2, <2>2 DEF Push, ServiceTypeOK
  <2>5. is_ready' \in [Requests -> BOOLEAN]
    BY <1>0, <1>2 DEF Push, ServiceTypeOK
  <2>6. /\ cpc' \in [Clients -> {"idle", "push", "wait", "check", "leave", "crashed"}]
        /\ req' \in [Clients -> Requests \cup {-1}] /\ result' \in [Clients -> BOOLEAN]
    BY <1>0, <1>2, <2>2 DEF Push, ClientAt, ServiceTypeOK
  <2> QED
    BY <1>0, <1>2, <2>3, <2>4, <2>5, <2>6 DEF ServiceTypeOK, Push
<1>3. CASE Create \/ GoOnline \/ CompareHead \/ CompareTail \/ SkipOverrun
  BY <1>0, <1>3 DEF ServiceTypeOK, Create, GoOnline, CompareHead, CompareTail, SkipOverrun
<1>4. CASE Pick
  <2>1. Clamp(idx_, head, tail) \in Nat
    BY <1>0, <1>4 DEF Pick, Clamp, Limits
  <2>2. SlotOf(idx_, head, tail) \in 0 .. (N - 1)
    BY <2>1, SlotExists DEF SlotOf
  <2> QED
    BY <1>0, <1>4, <2>2 DEF ServiceTypeOK, Pick
<1>5. CASE Callback
  BY <1>0, <1>5 DEF ServiceTypeOK, Callback
<1>6. CASE Ready
  <2>1. served' \in [Requests -> Nat]
    <3>1. served \in [Requests -> Nat] /\ served' = [served EXCEPT ![cur] = served[cur] + 1]
      BY <1>0, <1>6 DEF ServiceTypeOK, Ready
    <3>2. CASE cur \in Requests
      BY <3>1, <3>2
    <3>3. CASE cur \notin Requests
      BY <3>1, <3>3
    <3> QED
      BY <3>2, <3>3
  <2>2. is_ready' \in [Requests -> BOOLEAN]
    BY <1>0, <1>6 DEF ServiceTypeOK, Ready
  <2>3. idx_' \in 0 .. MaxCalls
    BY <1>0, <1>6 DEF ServiceTypeOK, Limits, Ready
  <2> QED
    BY <1>0, <1>6, <2>1, <2>2, <2>3 DEF ServiceTypeOK, Ready
<1>7. CASE GoOffline
  BY <1>0, <1>7 DEF ServiceTypeOK, GoOffline
<1>8. CASE ResetRequests
  <2>1. reset_idx < tail => reset_idx' \in 0 .. MaxCalls
    BY <1>0, <1>8 DEF ServiceTypeOK, ResetRequests
  <2>2. slots' \in [0 .. (N - 1) -> Requests \cup {Null}]
    BY <1>0, <1>8 DEF ServiceTypeOK, ResetRequests
  <2> QED
    BY <1>0, <1>8, <2>1, <2>2 DEF ServiceTypeOK, ResetRequests
<1>9. CASE Remake
  <2>1. /\ head' \in 0 .. MaxCalls /\ tail' \in 0 .. MaxCalls
        /\ slots' \in [0 .. (N - 1) -> Requests \cup {Null}]
    <3>1. CASE mapped
      BY <1>0, <1>9, <3>1 DEF ServiceTypeOK, Remake
    <3>2. CASE ~mapped
      BY <1>0, <1>9, <3>2 DEF ServiceTypeOK, Remake
    <3> QED
      BY <3>1, <3>2
  <2> QED
    BY <1>0, <1>9, <2>1 DEF ServiceTypeOK, Limits, Remake
<1>10. CASE UNCHANGED serviceVars
  BY <1>0, <1>10 DEF ServiceTypeOK, serviceVars
<1>11. CASE LinkStep
  BY <1>0, <1>11 DEF ServiceTypeOK, LinkStep, Connect, Disconnect, Quit, Reaches
<1>12. CASE Crash
  BY <1>0, <1>12 DEF ServiceTypeOK, Crash
<1> QED
  BY <1>1, <1>2, <1>3, <1>4, <1>5, <1>6, <1>7, <1>8, <1>9, <1>10, <1>11, <1>12, Steps

(* The calls of the clients are as they were after a step of the service. *)
LEMMA ClientsStay ==
  ASSUME UNCHANGED client
  PROVE  /\ Pushing' = Pushing /\ Cardinality(Pushing)' = Cardinality(Pushing)
         /\ \A c \in Clients : Pending(c)' <=> Pending(c)
         /\ req' = req /\ cpc' = cpc
  BY DEF client, Pushing, Pending

(* A step of the service that leaves the requests and the ring alone. *)
LEMMA PlainInv ==
  ASSUME ServiceInv, FewPolite,
         CompareHead \/ SkipOverrun \/ CompareTail \/ Pick \/ Callback
  PROVE  ServiceInv'
<1> USE DEF ring, request
<1>1. /\ ServiceTypeOK /\ Limits /\ LastInRing /\ Owned /\ Counted /\ Offered /\ Queued /\ Answered
           /\ Working
      /\ ServiceTypeOK' /\ Serving
  BY TypeNext DEF ServiceInv, ServiceNext, ServiceStep, SpinService, Serving, CompareHead,
         SkipOverrun, CompareTail, Pick, Callback
<1>2. /\ UNCHANGED <<ring, online, ok, reset_idx, made, since, client, request>>
      /\ Serving'
  BY DEF link, Serving, CompareHead, SkipOverrun, CompareTail, Pick, Callback
<1>3. /\ Pushing' = Pushing /\ Cardinality(Pushing)' = Cardinality(Pushing)
      /\ \A c \in Clients : Pending(c)' <=> Pending(c)
      /\ req' = req /\ cpc' = cpc
  BY <1>2, ClientsStay
<1>4. /\ tail - idx_ <= N /\ idx_ <= tail
      /\ idx_ < head => head = idx_ + 1 /\ head < since
      /\ head <= tail /\ (idx_ < tail /\ N > 1 => head < tail)
      /\ since <= idx_ => tail - idx_ < N
  BY <1>1, EnoughRoom
<1>5. /\ head \in Nat /\ tail \in Nat /\ idx_ \in Nat /\ since \in Nat
      /\ N \in Nat /\ N > 0 /\ Cardinality(Clients) \in Nat
  BY <1>1, Numbers, ClientCount
<1>6. idx_' \in Nat /\ idx_ <= idx_' /\ idx_' <= tail /\ (idx_' # idx_ => idx_' = head
        /\ idx_' < since)
  BY <1>1, <1>4, <1>5 DEF Working, CompareHead, SkipOverrun, CompareTail, Pick, Callback
<1>7. Limits'
  BY <1>1, <1>2, <1>3, <1>5, <1>6 DEF Limits, CompareHead, SkipOverrun, CompareTail, Pick, Callback
<1>8. LastInRing' /\ Owned'
  BY <1>1, <1>2, <1>3, <1>5, <1>6 DEF LastInRing, Owned
<1>9. Counted'
  BY <1>1, <1>2 DEF Counted
<1>10. Offered'
  BY <1>1, <1>2, <1>3, <1>5, <1>6 DEF Offered, Serving
<1>11. Queued'
  BY <1>1, <1>2, <1>5, <1>6 DEF Queued
<1>12. Answered'
  <2> SUFFICES ASSUME NEW r \in since .. (tail - 1)
               PROVE  /\ is_ready[r] <=> r < idx_'
                      /\ r >= idx_' => served[r] = 0 /\ \E c \in Clients : Waits(c, r)
    BY <1>2, <1>3 DEF Answered, Waits
  <2>1. /\ is_ready[r] <=> r < idx_
        /\ r >= idx_ => served[r] = 0 /\ \E c \in Clients : Waits(c, r)
    BY <1>1 DEF Answered
  <2>2. (r < idx_' <=> r < idx_) /\ (r >= idx_' => r >= idx_)
    BY <1>5, <1>6
  <2> QED
    BY <2>1, <2>2, Zenon
<1>13. Working'
  <2>1. CASE CompareHead \/ SkipOverrun \/ CompareTail
    BY <2>1, <1>2 DEF Working, CompareHead, SkipOverrun, CompareTail
  <2>2. CASE Pick
    <3> DEFINE g == IF idx_ < head THEN head ELSE idx_
    <3>1. idx_ < tail /\ SlotOf(idx_, head, tail) = g % N
      BY <1>1, <1>4, <1>5, <2>2 DEF Pick, Limits, SlotOf, Clamp
    <3>2. g \in {idx_, idx_ + 1} /\ (g # idx_ => g < since) /\ g < tail
      BY <1>1, <1>4, <1>5, <3>1 DEF Limits
    <3>3. WorksOn(g)'
      BY <3>1, <3>2, <2>2, <1>2 DEF Pick, WorksOn
    <3> QED
      BY <3>2, <3>3, <2>2, <1>2 DEF Working, Pick
  <2>3. CASE Callback
    <3>1. PICK g \in {idx_, idx_ + 1} : WorksOn(g)
      BY <1>1, <2>3 DEF Working, Callback
    <3>2. g \in idx_ .. (tail - 1) /\ tail - N <= g /\ sref = g % N
      BY <1>4, <1>5, <3>1 DEF WorksOn
    <3>3. slots[sref] = g
      BY <1>1, <3>2 DEF Queued
    <3>4. WorksOn(g)'
      BY <1>2, <2>3, <3>1, <3>3 DEF WorksOn, Callback
    <3> QED
      BY <3>1, <3>4, <2>3, <1>2 DEF Working, Callback
  <2> QED
    BY <2>1, <2>2, <2>3
<1> QED
  BY <1>1, <1>2, <1>7, <1>8, <1>9, <1>10, <1>11, <1>12, <1>13 DEF ServiceInv, Alive, Serving

-----------------------------------------------------------------------------
(* The request is done: it was the one of idx_, or the next one, which was *)
(* not made of this service.                                               *)
LEMMA ReadyInv == ASSUME ServiceInv, FewPolite, Ready PROVE ServiceInv'
<1> USE DEF ring, request
<1>1. /\ ServiceTypeOK /\ Limits /\ LastInRing /\ Owned /\ Counted /\ Offered /\ Queued /\ Answered
           /\ Working
      /\ ServiceTypeOK' /\ Serving
  BY TypeNext DEF ServiceInv, ServiceNext, ServiceStep, SpinService, Serving, Ready
<1>2. /\ UNCHANGED <<ring, online, ok, made, since, client>> /\ idx_' = idx_ + 1
      /\ Serving' /\ stage' = "head"
  BY DEF link, Serving, Ready
<1>3. /\ Pushing' = Pushing /\ Cardinality(Pushing)' = Cardinality(Pushing)
      /\ \A c \in Clients : Pending(c)' <=> Pending(c)
      /\ req' = req /\ cpc' = cpc
  BY <1>2, ClientsStay
<1>4. tail - idx_ <= N
  BY <1>1, EnoughRoom
<1>5. /\ head \in Nat /\ tail \in Nat /\ idx_ \in Nat /\ since \in Nat
      /\ N \in Nat /\ N > 0 /\ Cardinality(Clients) \in Nat
  BY <1>1, Numbers, ClientCount
<1>6. PICK g \in {idx_, idx_ + 1} : WorksOn(g)
  BY <1>1 DEF Working, Ready
<1>7. /\ g \in Nat /\ g < tail /\ (g # idx_ => g < since)
      /\ g = cur /\ slots[sref] = g /\ g \in Requests
  <2>1. g < tail /\ (g # idx_ => g < since) /\ sref = g % N /\ cur = g
    BY <1>6 DEF WorksOn, Ready
  <2>2. g \in idx_ .. (tail - 1) /\ tail - N <= g
    BY <1>4, <1>5, <1>6, <2>1
  <2>3. slots[sref] = g
    BY <1>1, <2>1, <2>2 DEF Queued
  <2>4. g \in Nat /\ tail <= MaxCalls /\ MaxCalls \in Nat
    BY <1>1, <1>5, <1>6, ServiceAssumption DEF ServiceTypeOK
  <2> QED
    BY <1>5, <2>1, <2>3, <2>4 DEF Requests
<1>8. /\ is_ready' = [is_ready EXCEPT ![g] = TRUE]
      /\ served' = [served EXCEPT ![g] = served[g] + 1]
  BY <1>7 DEF Ready
<1>9. /\ served' \in [Requests -> Nat] /\ served \in [Requests -> Nat]
      /\ served'[g] = served[g] + 1
      /\ \A r \in Requests \ {g} : served'[r] = served[r]
  BY <1>1, <1>7, <1>8 DEF ServiceTypeOK
<1>10. is_ready'[g] = TRUE /\ \A r \in Requests \ {g} : is_ready'[r] = is_ready[r]
  BY <1>1, <1>7, <1>8 DEF ServiceTypeOK
<1>11. Limits'
  BY <1>1, <1>2, <1>3, <1>5, <1>7 DEF Limits, Ready
<1>12. LastInRing' /\ Owned'
  <2>1. LastInRing'
    BY <1>1, <1>2, <1>5 DEF LastInRing
  <2>2. \A c \in Clients : cpc[c] = "leave" /\ ok => is_ready'[req[c]]
    <3>1. \A c \in Clients : cpc[c] = "leave" /\ ok => req[c] \in Requests /\ is_ready[req[c]]
      <4>1. tail <= MaxCalls /\ MaxCalls \in Nat
        BY <1>1, ServiceAssumption DEF ServiceTypeOK
      <4> QED
        BY <1>1, <1>5, <4>1 DEF Owned, Pending, Requests
    <3> QED
      BY <3>1, <1>10
  <2> QED
    BY <2>1, <2>2, <1>1, <1>2, <1>3 DEF Owned
<1>13. g >= since => g = idx_ /\ served[g] = 0
  <2> SUFFICES ASSUME g >= since PROVE g = idx_ /\ served[g] = 0
    OBVIOUS
  <2>1. g = idx_ /\ g \in since .. (tail - 1)
    BY <1>5, <1>7
  <2> QED
    BY <1>1, <1>5, <2>1 DEF Answered
<1>14. Counted'
  <2> SUFFICES ASSUME NEW r \in Requests
               PROVE  /\ is_ready'[r] => served'[r] > 0
                      /\ r >= tail => served'[r] = 0
                      /\ r >= since => served'[r] <= 1
    BY <1>2 DEF Counted
  <2>1. /\ is_ready[r] => served[r] > 0
        /\ r >= tail => served[r] = 0
        /\ r >= since => served[r] <= 1
    BY <1>1 DEF Counted
  <2>2. CASE r = g
    BY <2>2, <1>5, <1>7, <1>9, <1>13
  <2>3. CASE r # g
    <3>1. served'[r] = served[r] /\ is_ready'[r] = is_ready[r]
      BY <2>3, <1>9, <1>10
    <3> QED
      BY <2>1, <3>1, Zenon
  <2> QED
    BY <2>2, <2>3
<1>15. Offered'
  BY <1>1, <1>2, <1>3, <1>5, <1>7 DEF Offered, Limits, Ready, Serving
<1>16. Queued'
  BY <1>1, <1>2, <1>5 DEF Queued
<1>17. Answered'
  <2> SUFFICES ASSUME NEW r \in since .. (tail - 1)
               PROVE  /\ is_ready'[r] <=> r < idx_ + 1
                      /\ r >= idx_ + 1 => served'[r] = 0 /\ \E c \in Clients : Waits(c, r)
    BY <1>2, <1>3 DEF Answered, Waits
  <2>1. /\ is_ready[r] <=> r < idx_
        /\ r >= idx_ => served[r] = 0 /\ \E c \in Clients : Waits(c, r)
    BY <1>1 DEF Answered
  <2>2. r \in Requests /\ r \in Nat
    BY <1>1, <1>5, ServiceAssumption DEF ServiceTypeOK, Requests
  <2>3. CASE r = g
    <3>1. r < idx_ + 1 /\ ~(r >= idx_ + 1)
      BY <1>5, <1>7, <2>3
    <3> QED
      BY <2>3, <3>1, <1>10
  <2>4. CASE r # g
    <3>1. served'[r] = served[r] /\ is_ready'[r] = is_ready[r]
      BY <2>2, <2>4, <1>9, <1>10
    <3>2. r # idx_
      BY <1>5, <1>7, <1>6, <2>4
    <3>3. (r < idx_ + 1 <=> r < idx_) /\ (r >= idx_ + 1 => r >= idx_)
      BY <1>5, <2>2, <3>2
    <3> QED
      BY <2>1, <3>1, <3>3, Zenon
  <2> QED
    BY <2>3, <2>4
<1>18. Working'
  BY <1>2 DEF Working
<1> QED
  BY <1>1, <1>2, <1>11, <1>12, <1>14, <1>15, <1>16, <1>17, <1>18 DEF ServiceInv, Alive

(* Constructor and destructor. *)
LEMMA MakingInv ==
  ASSUME ServiceInv, FewPolite, Create \/ GoOnline \/ GoOffline \/ ResetRequests \/ Remake
  PROVE  ServiceInv'
<1> USE DEF ring, request
<1>1. /\ ServiceTypeOK /\ Limits /\ LastInRing /\ Owned /\ Counted /\ Offered /\ Queued /\ Answered
           /\ Working
      /\ ServiceTypeOK'
  BY TypeNext DEF ServiceInv, ServiceNext, ServiceStep
<1>2. /\ UNCHANGED <<tail, ok, client, request>>
      /\ head' = head \/ (Remake /\ head' = tail)
  BY DEF link, Create, GoOnline, GoOffline, ResetRequests, Remake
<1>3. /\ Pushing' = Pushing /\ Cardinality(Pushing)' = Cardinality(Pushing)
      /\ \A c \in Clients : Pending(c)' <=> Pending(c)
      /\ req' = req /\ cpc' = cpc
  BY <1>2, ClientsStay
<1>5. /\ head \in Nat /\ tail \in Nat /\ idx_ \in Nat /\ since \in Nat /\ made \in Nat
      /\ N \in Nat /\ N > 0 /\ Cardinality(Clients) \in Nat /\ Cardinality(Pushing) \in Nat
      /\ Cardinality(Pushing) <= Cardinality(Clients)
  BY <1>1, Numbers, ClientCount, ServiceAssumption DEF ServiceTypeOK
<1>6. Limits'
  BY <1>1, <1>2, <1>3, <1>5 DEF Limits, Create, GoOnline, GoOffline, ResetRequests, Remake
<1>7. LastInRing' /\ Owned'
  <2>1. LastInRing'
    BY <1>1, <1>2, <1>5
    DEF LastInRing, Create, GoOnline, GoOffline, ResetRequests, Remake, Serving
  <2> QED
    BY <2>1, <1>1, <1>2, <1>3 DEF Owned
<1>8. Counted'
  <2> SUFFICES ASSUME NEW r \in Requests
               PROVE  /\ is_ready[r] => served[r] > 0
                      /\ r >= tail => served[r] = 0
                      /\ r >= since' => served[r] <= 1
    BY <1>2 DEF Counted
  <2>1. /\ is_ready[r] => served[r] > 0
        /\ r >= tail => served[r] = 0
        /\ r >= since => served[r] <= 1
    BY <1>1 DEF Counted
  <2>2. since' \in {since, tail}
    BY DEF Create, GoOnline, GoOffline, ResetRequests, Remake
  <2>3. r >= tail => served[r] <= 1
    BY <2>1
  <2> QED
    BY <2>1, <2>2, <2>3, Zenon
<1>9. Offered'
  <2>1. CASE Create
    BY <2>1, <1>1, <1>2, <1>3, <1>5 DEF Offered, Create, Serving
  <2>2. CASE GoOnline
    BY <2>2, <1>1, <1>2, <1>3, <1>5 DEF Offered, GoOnline, Serving
  <2>3. CASE GoOffline \/ ResetRequests \/ Remake
    BY <2>3, <1>1, <1>2, <1>3, <1>5 DEF Offered, GoOffline, ResetRequests, Remake, Serving
  <2> QED
    BY <2>1, <2>2, <2>3
<1>10. Queued'
  <2>1. CASE Create
    BY <2>1, <1>2, <1>5 DEF Queued, Create
  <2>2. CASE GoOnline
    BY <2>2, <1>1, <1>2, <1>5 DEF Queued, GoOnline
  <2>3. CASE GoOffline \/ ResetRequests \/ Remake
    BY <2>3 DEF Queued, GoOffline, ResetRequests, Remake, Serving
  <2> QED
    BY <2>1, <2>2, <2>3
<1>11. Answered' /\ Working'
  <2>1. CASE GoOnline
    BY <2>1, <1>2, <1>5 DEF Answered, Working, GoOnline
  <2>2. CASE Create \/ GoOffline \/ ResetRequests \/ Remake
    BY <2>2 DEF Answered, Working, Serving, Create, GoOffline, ResetRequests, Remake
  <2> QED
    BY <2>1, <2>2
<1>12. Alive'
  BY DEF Alive, Create, GoOnline, GoOffline, ResetRequests, Remake
<1> QED
  BY <1>1, <1>6, <1>7, <1>8, <1>9, <1>10, <1>11, <1>12 DEF ServiceInv

-----------------------------------------------------------------------------
(* A client asks, or looks for its answer. *)
LEMMA WaitInv ==
  ASSUME ServiceInv, FewPolite, NEW c \in Clients,
         Ask(c) \/ Poll(c) \/ CheckOnline(c) \/ Leave(c)
  PROVE  ServiceInv'
<1> USE DEF ring, service, request
<1>1. /\ ServiceTypeOK /\ Limits /\ LastInRing /\ Owned /\ Counted /\ Offered /\ Queued /\ Answered
           /\ Working
      /\ ServiceTypeOK'
  BY TypeNext DEF ServiceInv, ServiceNext, ClientStep
<1>2. UNCHANGED <<ring, online, ok, service, req, request>>
  BY DEF link, Ask, Poll, CheckOnline, Leave
<1>3. /\ cpc \in [Clients -> {"idle", "push", "wait", "check", "leave", "crashed"}]
      /\ \E where \in {"idle", "push", "wait", "check", "leave", "crashed"} : cpc' = [cpc EXCEPT ![c] = where]
  BY <1>1 DEF ServiceTypeOK, Ask, Poll, CheckOnline, Leave, ClientAt
<1>4. \A d \in Clients : d # c => cpc'[d] = cpc[d]
  BY <1>3
<1>5. /\ head \in Nat /\ tail \in Nat /\ idx_ \in Nat /\ since \in Nat
      /\ N \in Nat /\ N > 0 /\ Cardinality(Clients) \in Nat /\ Cardinality(Pushing) \in Nat
  BY <1>1, Numbers, ClientCount
<1>6. \A d \in Clients : Pending(d)' => Pending(d)
  <2>1. Pending(c)' => Pending(c)
    BY <1>3 DEF Ask, Poll, CheckOnline, Leave, ClientAt, Pending
  <2> QED
    BY <2>1, <1>4 DEF Pending
<1>7. Pending(c) /\ ~Pending(c)' /\ Serving /\ ok =>
        req[c] \in 0 .. (tail - 1) /\ is_ready[req[c]]
  <2>1. Pending(c) => req[c] \in 0 .. (tail - 1)
    BY <1>1 DEF Owned
  <2>2. Pending(c) /\ ~Pending(c)' /\ Serving /\ ok => is_ready[req[c]]
    <3>1. CASE Ask(c)
      BY <3>1 DEF Ask, Pending
    <3>2. CASE Poll(c)
      BY <3>2, <1>3 DEF Poll, Pending, ClientAt
    <3>3. CASE CheckOnline(c)
      BY <3>3, <1>1, <1>3 DEF CheckOnline, Pending, ClientAt, Offered, Serving
    <3>4. CASE Leave(c)
      BY <3>4, <1>1 DEF Leave, Owned
    <3> QED
      BY <3>1, <3>2, <3>3, <3>4
  <2> QED
    BY <2>1, <2>2, Zenon
<1>8. Cardinality(Pushing)' = Cardinality(Pushing) \/ Ask(c)
  <2> SUFFICES ASSUME ~Ask(c) PROVE Pushing' = Pushing
    OBVIOUS
  <2>1. cpc[c] # "push" /\ cpc'[c] # "push"
    BY <1>3 DEF Poll, CheckOnline, Leave, ClientAt
  <2> QED
    BY <2>1, <1>4 DEF Pushing
<1>9. ASSUME Ask(c) PROVE Cardinality(Pushing)' = Cardinality(Pushing) + 1
  <2>1. Pushing' = Pushing \cup {c} /\ c \notin Pushing
    BY <1>3, <1>4, <1>9 DEF Ask, ClientAt, Pushing
  <2> QED
    BY <2>1, ClientCount, FS_AddElement
<1>10. Limits'
  <2>1. tail + Cardinality(Pushing)' <= MaxCalls
    <3>1. CASE Ask(c)
      <4>1. tail + Cardinality(Pushing) < MaxCalls
        BY <3>1 DEF Ask, Pushing
      <4> QED
        BY <4>1, <3>1, <1>5, <1>9, ServiceAssumption
    <3>2. CASE ~Ask(c)
      BY <3>2, <1>1, <1>8 DEF Limits
    <3> QED
      BY <3>1, <3>2
  <2> QED
    BY <2>1, <1>1, <1>2 DEF Limits
<1>11. LastInRing' /\ Counted' /\ Queued' /\ Working'
  BY <1>1, <1>2 DEF LastInRing, Counted, Queued, Working, WorksOn, Serving
<1>12. Owned'
  <2>1. cpc'[c] = "leave" /\ ok => is_ready[req[c]]
    BY <1>1, <1>3 DEF Owned, Ask, Poll, CheckOnline, Leave, ClientAt
  <2> QED
    BY <2>1, <1>1, <1>2, <1>4, <1>6 DEF Owned
<1>13. Offered'
  <2>1. Ask(c) => Serving \/ stage = "crashed"
    BY <1>1 DEF Ask, FewPolite, Offered
  <2>2. stage = "start" => Cardinality(Pushing)' = Cardinality(Pushing)
    BY <2>1, <1>8 DEF Serving
  <2> QED
    BY <2>2, <1>1, <1>2 DEF Offered, Serving
<1>14. Answered'
  <2> SUFFICES ASSUME Serving, NEW r \in since .. (tail - 1)
               PROVE  /\ is_ready[r] <=> r < idx_
                      /\ r >= idx_ => served[r] = 0 /\ \E d \in Clients : Waits(d, r)'
    BY <1>2 DEF Answered, Serving
  <2>1. /\ is_ready[r] <=> r < idx_
        /\ r >= idx_ => served[r] = 0 /\ \E d \in Clients : Waits(d, r)
    BY <1>1 DEF Answered
  <2>2. ASSUME r >= idx_, NEW d \in Clients, Waits(d, r) PROVE Waits(d, r)'
    <3>1. CASE d # c
      BY <3>1, <2>2, <1>2, <1>4 DEF Waits, Pending
    <3>2. CASE d = c /\ ~ok
      BY <3>2, <2>2, <1>2, <1>3
      DEF Waits, Ask, FewPolite, Poll, CheckOnline, Leave, ClientAt
    <3>3. CASE d = c /\ ok
      <4>1. ~is_ready[r]
        <5>1. ~(r < idx_)
          BY <2>2, <1>5
        <5> QED
          BY <5>1, <2>1, Zenon
      <4>2. Pending(c)'
        BY <4>1, <3>3, <2>2, <1>7, Zenon DEF Waits
      <4>3. cpc'[c] # "push"
        BY <4>2 DEF Pending
      <4> QED
        BY <4>2, <4>3, <3>3, <2>2, <1>2 DEF Waits
    <3> QED
      BY <3>1, <3>2, <3>3
  <2> QED
    BY <2>1, <2>2, Zenon
<1>15. Alive'
  BY <1>2 DEF ServiceInv, Alive, Ask, Poll, CheckOnline, Leave
<1> QED
  BY <1>1, <1>10, <1>11, <1>12, <1>13, <1>14, <1>15 DEF ServiceInv

(* A client pushes: its request is the newest, and drops the oldest one. *)
LEMMA PushInv ==
  ASSUME ServiceInv, FewPolite, NEW c \in Clients, Push(c)
  PROVE  ServiceInv'
<1> USE DEF service
<1>1. /\ ServiceTypeOK /\ Limits /\ LastInRing /\ Owned /\ Counted /\ Offered /\ Queued /\ Answered
           /\ Working
      /\ ServiceTypeOK'
  BY TypeNext DEF ServiceInv, ServiceNext, ClientStep
<1>2. /\ UNCHANGED <<online, ok, service, served>> /\ tail' = tail + 1
      /\ head' = HeadAfterPush(head, tail + 1)
  BY DEF link, Push
<1>3. /\ cpc[c] = "push" /\ cpc'[c] = "wait" /\ \A d \in Clients \ {c} : cpc'[d] = cpc[d]
      /\ req'[c] = tail /\ \A d \in Clients \ {c} : req'[d] = req[d]
  BY <1>1 DEF ServiceTypeOK, Push, ClientAt
<1>4. Pending(c)' /\ ~Pending(c) /\ \A d \in Clients \ {c} : Pending(d)' <=> Pending(d)
  BY <1>3 DEF Pending
<1>5. /\ head \in Nat /\ tail \in Nat /\ idx_ \in Nat /\ since \in Nat
      /\ N \in Nat /\ N > 0 /\ Cardinality(Clients) \in Nat /\ Cardinality(Pushing) \in Nat
  BY <1>1, Numbers, ClientCount
<1>6. Cardinality(Pushing)' = Cardinality(Pushing) - 1
  <2>1. Pushing' = Pushing \ {c} /\ c \in Pushing
    BY <1>3 DEF Pushing
  <2> QED
    BY <2>1, ClientCount, FS_RemoveElement
<1>7. tail \in Requests
  BY <1>1, <1>2, <1>5, ServiceAssumption DEF ServiceTypeOK, Requests
<1>8. is_ready'[tail] = FALSE /\ \A r \in Requests \ {tail} : is_ready'[r] = is_ready[r]
  BY <1>1, <1>7 DEF ServiceTypeOK, Push
<1>9. Limits' /\ LastInRing'
  BY <1>1, <1>2, <1>5, <1>6, ServiceAssumption DEF Limits, LastInRing, HeadAfterPush, Serving
<1>10. Owned'
  <2>1. \A d \in Clients \ {c} : Pending(d) => req[d] \in 0 .. (tail - 1) /\ req[d] # tail
    BY <1>1, <1>5 DEF Owned
  <2>2. \A d \in Clients : Pending(d)' => req'[d] \in 0 .. tail
    BY <1>3, <1>4, <1>5, <2>1
  <2>3. ASSUME NEW d \in Clients, NEW e \in Clients, Pending(d)', Pending(e)', req'[d] = req'[e]
        PROVE  d = e
    BY <2>1, <2>3, <1>1, <1>3, <1>4 DEF Owned
  <2>4. ASSUME NEW d \in Clients, cpc'[d] = "leave", ok PROVE is_ready'[req'[d]]
    <3>1. d # c /\ cpc[d] = "leave" /\ req'[d] = req[d]
      BY <2>4, <1>3
    <3>2. req[d] \in 0 .. (tail - 1) /\ is_ready[req[d]]
      BY <3>1, <2>4, <1>1 DEF Owned, Pending
    <3>3. req[d] \in Requests \ {tail}
      BY <3>2, <1>5, <1>7, ServiceAssumption DEF Requests
    <3> QED
      BY <3>1, <3>2, <3>3, <1>8
  <2> QED
    BY <2>2, <2>3, <2>4, <1>2, <1>5 DEF Owned
<1>11. Counted'
  <2> SUFFICES ASSUME NEW r \in Requests
               PROVE  /\ is_ready'[r] => served[r] > 0
                      /\ r >= tail + 1 => served[r] = 0
                      /\ r >= since => served[r] <= 1
    BY <1>2 DEF Counted
  <2>1. /\ is_ready[r] => served[r] > 0
        /\ r >= tail => served[r] = 0
        /\ r >= since => served[r] <= 1
    BY <1>1 DEF Counted
  <2>2. r >= tail + 1 => r >= tail
    BY <1>1, <1>5, Numbers
  <2>3. is_ready'[r] => is_ready[r]
    BY <1>8
  <2> QED
    BY <2>1, <2>2, <2>3, Zenon
<1>12. Offered'
  BY <1>1, <1>2, <1>5, <1>6 DEF Offered, Serving
<1>13. Queued'
  <2> SUFFICES ASSUME stage = "start" \/ Serving, NEW i \in idx_ .. tail, tail + 1 - N <= i
               PROVE  slots'[i % N] = i
    BY <1>2, <1>5 DEF Queued, Serving
  <2>1. /\ i % N \in 0 .. (N - 1) /\ tail % N \in 0 .. (N - 1)
        /\ slots' = [slots EXCEPT ![tail % N] = tail] /\ DOMAIN slots = 0 .. (N - 1)
    BY <1>1, <1>5, SlotExists DEF ServiceTypeOK, Push
  <2>2. CASE i = tail
    BY <2>1, <2>2
  <2>3. CASE i # tail
    <3>1. i < tail /\ tail < i + N /\ i \in idx_ .. (tail - 1) /\ tail - N <= i
      BY <1>5, <2>3
    <3>2. i % N # tail % N
      BY <1>5, <3>1, SlotsDiffer
    <3> QED
      BY <1>1, <2>1, <3>1, <3>2 DEF Queued
  <2> QED
    BY <2>2, <2>3
<1>14. Answered'
  <2> SUFFICES ASSUME Serving, NEW r \in since .. tail
               PROVE  /\ is_ready'[r] <=> r < idx_
                      /\ r >= idx_ => served[r] = 0 /\ \E d \in Clients : Waits(d, r)'
    BY <1>2, <1>5 DEF Answered, Serving
  <2>1. CASE r = tail
    <3>1. ~(tail < idx_) /\ served[tail] = 0
      BY <1>1, <1>5, <1>7 DEF Offered, Counted
    <3> QED
      BY <2>1, <3>1, <1>3, <1>4, <1>8 DEF Waits
  <2>2. CASE r # tail
    <3>1. r \in since .. (tail - 1) /\ r \in Requests \ {tail}
      BY <1>5, <1>7, <2>2, ServiceAssumption DEF Requests
    <3>2. /\ is_ready[r] <=> r < idx_
          /\ r >= idx_ => served[r] = 0 /\ \E d \in Clients : Waits(d, r)
      BY <1>1, <3>1 DEF Answered
    <3>3. is_ready'[r] = is_ready[r]
      BY <3>1, <1>8
    <3>4. \A d \in Clients : Waits(d, r) => Waits(d, r)'
      BY <1>2, <1>3, <1>4 DEF Waits
    <3> QED
      BY <3>2, <3>3, <3>4, Zenon
  <2> QED
    BY <2>1, <2>2
<1>15. Working'
  <2>1. \A g \in {idx_, idx_ + 1} : WorksOn(g) => WorksOn(g)'
    BY <1>2, <1>5 DEF WorksOn
  <2>2. head <= head'
    BY <1>2, <1>5 DEF HeadAfterPush
  <2>3. stage' = stage /\ idx_' = idx_
    BY <1>2
  <2>4. stage = "skip" => idx_ < head'
    BY <1>1, <1>2, <1>5, <2>2 DEF Working, HeadAfterPush
  <2>5. stage \in {"call", "ready"} => \E g \in {idx_, idx_ + 1} : WorksOn(g)'
    BY <1>1, <2>1 DEF Working
  <2> QED
    BY <2>3, <2>4, <2>5 DEF Working
<1>16. Alive'
  BY <1>2, <1>3 DEF ServiceInv, Alive
<1> QED
  BY <1>1, <1>9, <1>10, <1>11, <1>12, <1>13, <1>14, <1>15, <1>16 DEF ServiceInv

(* Connections change, or the program is told to end: nobody calls any more. *)
LEMMA LinkInv == ASSUME ServiceInv, LinkStep PROVE ServiceInv'
<1>1. /\ UNCHANGED <<ring, online, service, client, request>> /\ (ok' => ok)
      /\ ServiceTypeOK'
  BY TypeNext DEF ServiceNext, LinkStep, Connect, Disconnect, Quit
<1> QED
  BY <1>1 DEF ring, service, client, request, ServiceInv, Limits, LastInRing, Owned, Counted,
         Alive, Offered, Queued, Answered, Waits, Working, WorksOn, Serving, Pushing, Pending

(* The process dies, and with it the service. *)
LEMMA CrashInv == ASSUME ServiceInv, [ServiceNext]_serviceVars, Crash PROVE ServiceInv'
<1>1. /\ UNCHANGED <<ring, since, made, idx_, request>> /\ stage' = "crashed" /\ ~Serving'
      /\ \A c \in Clients : cpc'[c] = "crashed"
  BY DEF Crash, Serving
<1>2. Pushing' = {} /\ Cardinality(Pushing)' = 0
  <2>1. Pushing' = {}
    BY <1>1 DEF Pushing
  <2> QED
    BY <2>1, FS_EmptySet
<1>3. Limits'
  <2>1. tail + 0 <= MaxCalls
    BY ServiceAssumption DEF ServiceInv, ServiceTypeOK
  <2> QED
    BY <1>1, <1>2, <2>1 DEF ring, ServiceInv, Limits
<1>4. LastInRing' /\ Owned' /\ Counted'
  BY <1>1 DEF ring, request, ServiceInv, LastInRing, Owned, Counted, Pending
<1>5. Offered' /\ Queued' /\ Answered' /\ Working'
  BY <1>1 DEF Offered, Queued, Answered, Working, Serving
<1> QED
  BY <1>1, <1>3, <1>4, <1>5, TypeNext DEF ServiceInv, Alive

LEMMA ServiceInvNext == FewPolite /\ ServiceInv /\ [ServiceNext]_serviceVars => ServiceInv'
<1> SUFFICES ASSUME FewPolite, ServiceInv, [ServiceNext]_serviceVars PROVE ServiceInv'
  OBVIOUS
<1>1. CASE UNCHANGED serviceVars
  BY <1>1 DEF serviceVars, ring, link, service, client, request, ServiceInv, ServiceTypeOK,
         Limits, LastInRing, Owned, Counted, Offered, Queued, Answered, Waits, Working, WorksOn,
         Alive, Serving, Pushing, Pending
<1> QED
  BY <1>1, Steps, PlainInv, ReadyInv, MakingInv, WaitInv, PushInv, LinkInv, CrashInv

LEMMA AlwaysServiceInv ==
  ASSUME FewPolite
  PROVE  ServiceSpec => []ServiceInv
<1>1. ServiceInv /\ [ServiceNext]_serviceVars => ServiceInv'
  BY ServiceInvNext
<1> QED
  BY <1>1, ServiceInvInit, PTL DEF ServiceSpec

(* Until it is answered, a request made of the service that is online is ahead *)
(* of idx_ and still in its slot of the buffer, and the slot of the request    *)
(* under the callback is not taken away (local_channal.hpp:549).               *)
THEOREM RequestsStayQueued ==
  ASSUME FewPolite
  PROVE  ServiceSpec => []WaitingIsQueued
<1>1. ServiceInv => WaitingIsQueued
  <2> SUFFICES ASSUME ServiceInv PROVE WaitingIsQueued
    OBVIOUS
  <2>1. /\ ServiceTypeOK /\ Alive /\ Offered /\ Owned /\ Queued /\ Answered /\ Working /\ LastInRing
        /\ head \in Nat /\ tail \in Nat /\ idx_ \in Nat /\ since \in Nat /\ N \in Nat /\ N > 0
    BY Numbers DEF ServiceInv
  <2>2. ASSUME NEW c \in Clients, Current(c), ~is_ready[req[c]]
        PROVE  idx_ <= req[c] /\ head <= req[c] /\ slots[req[c] % N] = req[c]
    <3>1. Serving /\ req[c] \in since .. (tail - 1)
      <4>1. Serving
        BY <2>1, <2>2 DEF Current, Offered, Alive, Pending
      <4> QED
        BY <4>1, <2>1, <2>2 DEF Current, Owned
    <3>2. ~(req[c] < idx_)
      BY <2>1, <2>2, <3>1, Zenon DEF Answered
    <3>3. idx_ <= req[c]
      BY <2>1, <3>1, <3>2
    <3>4. tail - req[c] <= Cardinality(Clients) /\ 2 * Cardinality(Clients) <= N
      BY <2>1, <3>1, <3>3, OneEach DEF FewPolite
    <3>5. head <= req[c] /\ tail - N <= req[c] /\ req[c] \in idx_ .. (tail - 1)
      BY <2>1, <3>1, <3>3, <3>4, ClientCount DEF LastInRing
    <3> QED
      BY <2>1, <3>1, <3>3, <3>5 DEF Queued
  <2>3. stage = "ready" => slots[sref] = cur
    <3> SUFFICES ASSUME stage = "ready" PROVE slots[sref] = cur
      OBVIOUS
    <3>1. Serving
      BY DEF Serving
    <3>2. PICK g \in {idx_, idx_ + 1} : WorksOn(g)
      BY <2>1 DEF Working
    <3>3. tail - idx_ <= N
      BY <3>1, EnoughRoom
    <3>4. g \in idx_ .. (tail - 1) /\ tail - N <= g /\ sref = g % N /\ cur = g
      BY <2>1, <3>2, <3>3 DEF WorksOn
    <3> QED
      BY <2>1, <3>1, <3>4 DEF Queued
  <2> QED
    BY <2>1, <2>2, <2>3 DEF WaitingIsQueued
<1> QED
  BY <1>1, AlwaysServiceInv, PTL

(* The callback runs at most once on a request that was made while its service *)
(* was online, and never on an element that the destructor emptied, although   *)
(* services are made anew over one buffer.                                     *)
THEOREM RequestsAreServedOnce ==
  ASSUME FewPolite
  PROVE  ServiceSpec => []ServedOnce
<1>1. ServiceInv => ServedOnce
  <2> SUFFICES ASSUME ServiceInv PROVE ServedOnce
    OBVIOUS
  <2>1. /\ Counted /\ Queued /\ Working
        /\ tail \in Nat /\ idx_ \in Nat /\ N \in Nat /\ Null \notin Nat
    BY Numbers DEF ServiceInv
  <2>2. ASSUME stage \in {"call", "ready"} PROVE slots[sref] # Null
    <3>1. Serving
      BY <2>2 DEF Serving
    <3>2. PICK g \in {idx_, idx_ + 1} : WorksOn(g)
      BY <2>1, <2>2 DEF Working
    <3>3. tail - idx_ <= N
      BY <3>1, EnoughRoom
    <3>4. g \in idx_ .. (tail - 1) /\ tail - N <= g /\ sref = g % N
      BY <2>1, <3>2, <3>3 DEF WorksOn
    <3>5. slots[sref] = g
      BY <2>1, <3>1, <3>4 DEF Queued
    <3> QED
      BY <2>1, <3>4, <3>5
  <2> QED
    BY <2>1, <2>2 DEF ServedOnce, Counted
<1> QED
  BY <1>1, AlwaysServiceInv, PTL

-----------------------------------------------------------------------------
(* A request is served for the first time while its client, if it still has *)
(* one, is the only one that waits for it.                                  *)
LEMMA ServesOne ==
  ASSUME ServiceInv, FewPolite, Ready
  PROVE  \/ \E c \in Clients :
              /\ phase[c] = "called"
              /\ phase' = [phase EXCEPT ![c] = "served"]
         \/ phase' = phase
<1>1. /\ ServiceTypeOK /\ Owned /\ Working /\ ServiceTypeOK'
  BY TypeNext DEF ServiceInv, ServiceNext, ServiceStep, SpinService
<1>2. /\ UNCHANGED client /\ cpc' = cpc
      /\ \A c \in Clients : (Pending(c)' <=> Pending(c)) /\ req'[c] = req[c]
  BY ClientsStay DEF Ready
<1>3. cur \in Requests
  <2>1. PICK g \in {idx_, idx_ + 1} : WorksOn(g)
    BY <1>1 DEF Working, Ready
  <2>2. g = cur /\ g < tail /\ tail <= MaxCalls /\ tail \in Nat /\ idx_ \in Nat
    BY <1>1, <2>1, Numbers, ServiceAssumption DEF WorksOn, Ready, ServiceTypeOK
  <2> QED
    BY <2>1, <2>2, ServiceAssumption DEF Requests
<1>4. /\ served \in [Requests -> Nat] /\ served'[cur] = served[cur] + 1
      /\ \A r \in Requests \ {cur} : served'[r] = served[r]
  BY <1>1, <1>3 DEF ServiceTypeOK, Ready
<1>5. \A c \in Clients : Pending(c) => req[c] \in Requests
  <2>1. tail \in Nat /\ tail <= MaxCalls /\ MaxCalls \in Nat
    BY <1>1, Numbers, ServiceAssumption DEF ServiceTypeOK
  <2> QED
    BY <1>1, <2>1 DEF Owned, Requests
<1>6. ASSUME NEW c \in Clients, ~(Pending(c) /\ req[c] = cur) PROVE phase'[c] = phase[c]
  <2>1. CASE ~Pending(c)
    BY <2>1, <1>2 DEF phase
  <2>2. CASE Pending(c) /\ req[c] \in Requests \ {cur}
    BY <2>2, <1>2, <1>4 DEF phase
  <2> QED
    BY <2>1, <2>2, <1>5, <1>6
<1>7. phase = [c \in Clients |-> phase[c]] /\ phase' = [c \in Clients |-> phase'[c]]
  BY DEF phase
<1>8. CASE \E c \in Clients : Pending(c) /\ req[c] = cur
  <2>1. PICK c \in Clients : Pending(c) /\ req[c] = cur
    BY <1>8
  <2>2. \A d \in Clients \ {c} : phase'[d] = phase[d]
    BY <1>1, <1>6, <2>1 DEF Owned
  <2>3. phase'[c] = "served" /\ phase[c] \in {"called", "served"}
    <3>1. cpc[c] # "crashed" /\ Pending(c)' /\ req'[c] = cur /\ served'[cur] > 0
      BY <1>2, <1>3, <1>4, <2>1 DEF Pending
    <3> QED
      BY <1>2, <2>1, <3>1 DEF phase
  <2>4. CASE phase[c] = "called"
    BY <1>7, <2>2, <2>3, <2>4
  <2>5. CASE phase[c] = "served"
    BY <1>7, <2>2, <2>3, <2>5
  <2> QED
    BY <2>3, <2>4, <2>5
<1>9. CASE ~\E c \in Clients : Pending(c) /\ req[c] = cur
  BY <1>6, <1>7, <1>9
<1> QED
  BY <1>8, <1>9

(* What each step of a client does to its call. *)
LEMMA CallSteps ==
  ASSUME ServiceInv, FewPolite, NEW c \in Clients, Ask(c) \/ ClientStep(c)
  PROVE  \/ Promise!Call(c)
         \/ \E answer \in BOOLEAN : Promise!Return(c, answer)
         \/ UNCHANGED <<phase, result>>
         \/ Crash
<1> SUFFICES ASSUME ~Crash
             PROVE  \/ Promise!Call(c)
                    \/ \E answer \in BOOLEAN : Promise!Return(c, answer)
                    \/ UNCHANGED <<phase, result>>
  OBVIOUS
<1>1. /\ ServiceTypeOK /\ Owned /\ Counted
      /\ tail \in Nat /\ MaxCalls \in Nat /\ Requests \subseteq Nat
  BY Numbers DEF ServiceInv
<1>2. /\ \A d \in Clients \ {c} : cpc'[d] = cpc[d] /\ req'[d] = req[d]
      /\ served' = served
  BY <1>1 DEF ServiceTypeOK, Ask, ClientStep, Push, Poll, CheckOnline, Leave, CallCrashes,
         ClientAt, request
<1>3. \A d \in Clients \ {c} : phase'[d] = phase[d]
  BY <1>2 DEF phase, Pending
<1>4. phase = [d \in Clients |-> phase[d]] /\ phase' = [d \in Clients |-> phase'[d]]
  BY DEF phase
<1>5. phase' = [phase EXCEPT ![c] = phase'[c]]
  BY <1>3, <1>4
<1>6. CASE Push(c)
  <2>1. served[tail] = 0
    <3>1. tail \in Requests
      <4>1. ServiceTypeOK' /\ tail' = tail + 1
        BY <1>6, TypeNext DEF ServiceNext, ClientStep, Push
      <4> QED
        BY <1>1, <4>1 DEF ServiceTypeOK, Requests
    <3> QED
      BY <1>1, <3>1 DEF Counted
  <2>2. /\ cpc[c] = "push" /\ cpc'[c] = "wait" /\ req'[c] = tail
    BY <1>1, <1>6 DEF ServiceTypeOK, Push, ClientAt
  <2>3. phase[c] = "returned" /\ phase'[c] = "called"
    BY <1>2, <2>1, <2>2 DEF phase, Pending
  <2> QED
    BY <1>5, <1>6, <2>3 DEF Promise!Call, Push
<1>7. CASE Leave(c) /\ is_ready[req[c]]
  <2>0. req[c] \in Requests
    BY <1>1, <1>7 DEF Owned, Pending, Leave, ServiceTypeOK, Requests
  <2>1. /\ cpc[c] = "leave" /\ cpc'[c] = "idle" /\ result' = [result EXCEPT ![c] = TRUE]
    BY <1>1, <1>7, <2>0 DEF ServiceTypeOK, Leave, ClientAt
  <2>2. served[req[c]] > 0
    <3>1. is_ready[req[c]] => served[req[c]] > 0
      BY <1>1, <2>0 DEF Counted
    <3> QED
      BY <1>7, <3>1, Zenon
  <2>3. phase[c] = "served" /\ phase'[c] = "returned"
    BY <2>1, <2>2 DEF phase, Pending
  <2> QED
    BY <1>5, <2>1, <2>3 DEF Promise!Return
<1>8. CASE Leave(c) /\ ~is_ready[req[c]]
  <2>0. req[c] \in Requests
    BY <1>1, <1>8 DEF Owned, Pending, Leave, ServiceTypeOK, Requests
  <2>1. /\ cpc[c] = "leave" /\ cpc'[c] = "idle" /\ result' = [result EXCEPT ![c] = FALSE]
    BY <1>1, <1>8, <2>0 DEF ServiceTypeOK, Leave, ClientAt
  <2>2. phase[c] \in {"called", "served"} /\ phase'[c] = "returned"
    BY <2>1 DEF phase, Pending
  <2> QED
    BY <1>5, <2>1, <2>2 DEF Promise!Return
<1>12. CASE Poll(c)
  <2>1. /\ cpc[c] = "wait" /\ cpc'[c] \in {"check", "leave"} /\ req' = req /\ result' = result
    BY <1>1, <1>12 DEF ServiceTypeOK, Poll, ClientAt
  <2>2. phase'[c] = phase[c]
    BY <1>2, <2>1 DEF phase, Pending
  <2> QED
    BY <1>4, <1>5, <2>1, <2>2
<1>9. CASE CheckOnline(c) /\ online
  <2>1. /\ cpc[c] = "check" /\ cpc'[c] = "wait" /\ req' = req /\ result' = result
    BY <1>1, <1>9 DEF ServiceTypeOK, CheckOnline, ClientAt
  <2>2. phase'[c] = phase[c]
    BY <1>2, <2>1 DEF phase, Pending
  <2> QED
    BY <1>4, <1>5, <2>1, <2>2
<1>10. CASE CheckOnline(c) /\ ~online
  <2>1. /\ cpc[c] = "check" /\ cpc'[c] = "idle" /\ result' = [result EXCEPT ![c] = FALSE]
    BY <1>1, <1>10 DEF ServiceTypeOK, CheckOnline, ClientAt
  <2>2. phase[c] \in {"called", "served"} /\ phase'[c] = "returned"
    BY <2>1 DEF phase, Pending
  <2> QED
    BY <1>5, <2>1, <2>2 DEF Promise!Return
<1>11. CASE Ask(c)
  <2>1. /\ cpc[c] = "idle" /\ cpc'[c] = "push" /\ result' = result
    BY <1>1, <1>11 DEF ServiceTypeOK, Ask, ClientAt
  <2>2. phase'[c] = phase[c]
    BY <2>1 DEF phase, Pending
  <2> QED
    BY <1>4, <1>5, <2>1, <2>2
<1> QED
  BY <1>6, <1>7, <1>8, <1>9, <1>10, <1>11, <1>12 DEF ClientStep, CallCrashes

(* A call that returns true was served, once, between its beginning and its    *)
(* end: client, buffer and service implement RemoteCall, also while the service *)
(* is replaced (local_channal.hpp:615).                                        *)
THEOREM ImplementsRemoteCall ==
  ASSUME FewPolite
  PROVE  ServiceSpec => ImplementsCall
<1>1. ServiceInit => Promise!Init
  BY DEF ServiceInit, Promise!Init, phase, Pending
<1>2. ServiceInv /\ [ServiceNext]_serviceVars => [Promise!Next]_(Promise!vars)
  <2> SUFFICES ASSUME ServiceInv, [ServiceNext]_serviceVars PROVE Promise!Next
                        \/ UNCHANGED <<phase, result>>
    BY DEF Promise!vars
  <2>4. CASE Crash
    BY <2>4 DEF Crash, phase, Pending, Promise!Next, Promise!End
  <2>1. ASSUME NEW c \in Clients, Ask(c) \/ ClientStep(c)
        PROVE  Promise!Next \/ UNCHANGED <<phase, result>>
    BY <2>1, <2>4, CallSteps DEF Promise!Next
  <2>2. CASE Ready
    BY <2>2, ServesOne DEF Promise!Next, Promise!Serve, Ready, client
  <2>3. CASE \/ Create \/ GoOnline \/ CompareHead \/ SkipOverrun \/ CompareTail \/ Pick \/ Callback
             \/ ResetRequests \/ GoOffline \/ Remake \/ LinkStep \/ UNCHANGED serviceVars
    <3>1. UNCHANGED <<client, served>>
      BY <2>3 DEF Create, GoOnline, CompareHead, SkipOverrun, CompareTail, Pick, Callback,
             ResetRequests, GoOffline, Remake, LinkStep, Connect, Disconnect, Quit, serviceVars,
             request
    <3> QED
      BY <3>1 DEF client, phase, Pending
  <2> QED
    BY <2>1, <2>2, <2>3, <2>4, Steps DEF ClientStep
<1> QED
  BY <1>1, <1>2, AlwaysServiceInv, PTL DEF ServiceSpec, ImplementsCall, Promise!Spec
=============================================================================
