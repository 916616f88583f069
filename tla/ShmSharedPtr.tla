---------------------------- MODULE ShmSharedPtr ----------------------------
(***************************************************************************)
(* The shared pointer (impl/shm_shared_ptr.hpp), as LocalWriter and        *)
(* LocalReader (local_channal.hpp) use it. A cell is one ShmSharedPtr:     *)
(* every thread has one, the writer a temporary besides, and Slot is the   *)
(* buffer of the item in shared memory that write() and read() go through. *)
(*                                                                         *)
(* An operation is a sequence of steps of its thread: what it finds in     *)
(* the two cells before it locks, taking a mutex, decreace_, copying with  *)
(* increace_, unlocking. used_counter_ is null exactly if raw_ptr_ is. An  *)
(* object stands for its data, its counter and its mutex. Whoever          *)
(* touches one that was freed, or follows a null pointer, sets broken, and *)
(* nothing is said of what comes after. A mutex is obtained in the end;    *)
(* ProcessMutex says what lock_ does about holders that are dead or slow.  *)
(***************************************************************************)
EXTENDS Naturals, Sequences, FiniteSets

CONSTANTS Readers, Writer, Temp, Slot,
          Objects,
          MaxWrites     \* bound: calls of write()

Threads == Readers \cup {Writer}
Cells == Threads \cup {Temp, Slot}
None == "none"

ASSUME PointerAssumption ==
  /\ IsFiniteSet(Readers) /\ Readers \cap {Writer, Temp, Slot} = {}
  /\ Writer # Temp /\ Writer # Slot /\ Temp # Slot
  /\ None \notin Objects \cup Cells
  /\ MaxWrites \in Nat \ {0}

VARIABLES cell,         \* raw_ptr_ and mutex_ of each pointer
          count,        \* used_counter_ of each object
          owner,        \* who holds its mutex
          made, freed,
          op,           \* the operation each thread is in
          item,         \* who holds the mutex of the item
          index,        \* of the item
          doing,        \* what each thread is doing
          idx_,         \* of each reader
          got, written, \* what each reader read; what each write left in Slot
          raced,        \* ~LocalWriter has met a read()
          broken

memory == <<cell, count, owner, made, freed>>
users == <<item, index, doing, idx_, got, written, raced>>
vars == <<memory, op, users, broken>>

Null == [raw |-> None, mutex |-> None]
NoOp == [kind |-> None, this |-> None, rhs |-> None, at |-> "over", mutex |-> None]

Init ==
  /\ cell = [c \in Cells |-> Null]
  /\ count = [o \in Objects |-> 0]
  /\ owner = [o \in Objects |-> None]
  /\ made = {} /\ freed = {}
  /\ op = [t \in Threads |-> NoOp]
  /\ item = None /\ index = 0
  /\ doing = [t \in Threads |-> "idle"]
  /\ idx_ \in [Readers -> 0 .. 1]                \* it is not initialised
  /\ got = [r \in Readers |-> None] /\ written = <<>>
  /\ raced = FALSE /\ broken = FALSE

-----------------------------------------------------------------------------
(* Operations begin with what they see of the cells, without a lock. *)

Locking(kind, this, rhs, which) ==
  [kind |-> kind, this |-> this, rhs |-> rhs, at |-> which,
   mutex |-> cell[IF which = "lockThis" THEN this ELSE rhs].mutex]

(* operator= and the constructors: nothing happens if rhs is empty; what  *)
(* this pointed to is let go first.                                       *)
Assignment(kind, this, rhs) ==
  IF cell[rhs].raw = None THEN NoOp
  ELSE IF cell[this].raw # None THEN Locking(kind, this, rhs, "lockThis")
  ELSE Locking(kind, this, rhs, "lockRhs")

(* reset and the destructor *)
Reset(this) ==
  IF cell[this].raw = None THEN NoOp ELSE Locking("reset", this, None, "lockThis")

Step(t, at) == op' = [op EXCEPT ![t].at = at]
Over(t) == op' = [op EXCEPT ![t] = NoOp]
Break == broken' = TRUE /\ UNCHANGED <<memory, op>>

(* lock_; without a mutex it does nothing. *)
Lock(t) ==
  LET m == op[t].mutex
  IN /\ op[t].at \in {"lockThis", "lockRhs"}
     /\ \/ m \in freed /\ Break
        \/ /\ m \notin freed
           /\ IF m = None THEN TRUE ELSE owner[m] = None
           /\ owner' = [o \in Objects |-> IF o = m THEN t ELSE owner[o]]
           /\ Step(t, IF op[t].at = "lockThis" THEN "decrease" ELSE "copy")
           /\ UNCHANGED <<cell, count, made, freed, broken>>
     /\ UNCHANGED users

(* Mutant: the last one is found by looking before subtracting. *)
DecreaseChecksFirst(t) ==
  LET this == op[t].this
      o == cell[this].raw
  IN /\ op[t].at = "decrease" /\ o # None /\ o \notin freed
     /\ count' = [count EXCEPT ![o] = @ - 1]
     /\ freed' = IF count[o] = 0 THEN freed \cup {o} ELSE freed
     /\ cell' = [cell EXCEPT ![this] = IF o \in freed' THEN Null ELSE [@ EXCEPT !.raw = None]]
     /\ Step(t, "unlockThis")
     /\ UNCHANGED <<owner, made, broken, users>>

(* decreace_: the last one frees the object, unlocks and frees the mutex. *)
Decrease(t) ==
  LET this == op[t].this
      o == cell[this].raw
  IN /\ op[t].at = "decrease"
     /\ \/ o \in freed /\ Break
        \/ o = None /\ Step(t, "unlockThis") /\ UNCHANGED <<memory, broken>>
        \/ /\ o # None /\ o \notin freed
           /\ count' = [count EXCEPT ![o] = @ - 1]
           /\ IF count[o] = 1
              THEN /\ freed' = freed \cup {o}
                   /\ owner' = [owner EXCEPT ![o] = None]
                   /\ cell' = [cell EXCEPT ![this] = Null]
              ELSE /\ cell' = [cell EXCEPT ![this].raw = None]
                   /\ UNCHANGED <<owner, freed>>
           /\ Step(t, "unlockThis")
           /\ UNCHANGED <<made, broken>>
     /\ UNCHANGED users

(* unlock() by a thread that does not hold the mutex ends in abort(). *)
Unlocked(t, m) == owner' = [o \in Objects |-> IF o = m THEN None ELSE owner[o]]
Unlockable(t, m) == IF m = None THEN TRUE ELSE m \notin freed /\ owner[m] = t

(* Mutant: reset forgets the mutex before it is given back. *)
UnlockThisForgotten(t) ==
  LET this == op[t].this
  IN /\ op[t].at = "unlockThis"
     /\ cell' = [cell EXCEPT ![this].mutex = None]
     /\ IF op[t].kind = "reset" THEN Over(t)
        ELSE op' = [op EXCEPT ![t].at = "lockRhs", ![t].mutex = cell[op[t].rhs].mutex]
     /\ UNCHANGED <<count, owner, made, freed, broken, users>>

(* What follows is the end of reset, or the lock of rhs, whose mutex_ is read now. *)
UnlockThis(t) ==
  LET this == op[t].this
      m == cell[this].mutex
  IN /\ op[t].at = "unlockThis"
     /\ \/ ~Unlockable(t, m) /\ Break
        \/ /\ Unlockable(t, m) /\ Unlocked(t, m)
           /\ IF op[t].kind = "reset"
              THEN cell' = [cell EXCEPT ![this].mutex = None] /\ Over(t)
              ELSE /\ op' = [op EXCEPT ![t].at = "lockRhs", ![t].mutex = cell[op[t].rhs].mutex]
                   /\ UNCHANGED cell
           /\ UNCHANGED <<count, made, freed, broken>>
     /\ UNCHANGED users

(* Mutant: the moved-from pointer keeps pointing. *)
CopyKeepsSource(t) ==
  LET this == op[t].this
      from == cell[op[t].rhs]
  IN /\ op[t].at = "copy" /\ from.raw \notin freed
     /\ cell' = [cell EXCEPT ![this] = from]
     /\ count' = IF from.raw = None \/ op[t].kind = "move" THEN count
                 ELSE [count EXCEPT ![from.raw] = @ + 1]
     /\ Step(t, "unlockRhs")
     /\ UNCHANGED <<owner, made, freed, broken, users>>

(* The three members are copied and increace_ called; a move adds rhs.decreace_, *)
(* which is never the last, and empties rhs.                                     *)
Copy(t) ==
  LET this == op[t].this
      from == cell[op[t].rhs]
  IN /\ op[t].at = "copy"
     /\ \/ from.raw \in freed /\ Break
        \/ /\ from.raw \notin freed
           /\ IF op[t].kind = "move"
              THEN cell' = [cell EXCEPT ![this] = from, ![op[t].rhs] = Null] /\ UNCHANGED count
              ELSE /\ cell' = [cell EXCEPT ![this] = from]
                   /\ count' = [o \in Objects |-> IF o = from.raw THEN count[o] + 1 ELSE count[o]]
           /\ Step(t, "unlockRhs")
           /\ UNCHANGED <<owner, made, freed, broken>>
     /\ UNCHANGED users

(* The mutex is found in rhs again, or in this after a move. *)
UnlockRhs(t) ==
  LET m == cell[IF op[t].kind = "move" THEN op[t].this ELSE op[t].rhs].mutex
  IN /\ op[t].at = "unlockRhs"
     /\ \/ ~Unlockable(t, m) /\ Break
        \/ /\ Unlockable(t, m) /\ Unlocked(t, m) /\ Over(t)
           /\ UNCHANGED <<cell, count, made, freed, broken>>
     /\ UNCHANGED users

Operate(t) == Lock(t) \/ Decrease(t) \/ UnlockThis(t) \/ Copy(t) \/ UnlockRhs(t)

-----------------------------------------------------------------------------
Ready(t, what) == doing[t] = what /\ op[t] = NoOp
Start(t, what, operation) == /\ doing' = [doing EXCEPT ![t] = what]
                             /\ op' = [op EXCEPT ![t] = operation]

(* makeShmShared, into the temporary, *)
Make ==
  /\ Ready(Writer, "idle")
  /\ \E o \in Objects \ made :
       /\ made' = made \cup {o}
       /\ count' = [count EXCEPT ![o] = 1]
       /\ cell' = [cell EXCEPT ![Temp] = [raw |-> o, mutex |-> o]]
  /\ doing' = [doing EXCEPT ![Writer] = "made"]
  /\ UNCHANGED <<owner, freed, op, item, index, idx_, got, written, raced, broken>>

(* which is moved to the writer's pointer. *)
Keep ==
  /\ Ready(Writer, "made")
  /\ Start(Writer, "keep", Assignment("move", Writer, Temp))
  /\ UNCHANGED <<memory, item, index, idx_, got, written, raced, broken>>

(* LocalWriter::write under the item's mutex: buffer = data, *)
Write ==
  /\ Ready(Writer, "idle") /\ item = None /\ index < MaxWrites
  /\ item' = Writer
  /\ Start(Writer, "write", Assignment("copy", Slot, Writer))
  /\ UNCHANGED <<memory, index, idx_, got, written, raced, broken>>

(* then index += 1; with empty data only the index changes. *)
Written ==
  /\ Ready(Writer, "write")
  /\ index' = index + 1
  /\ written' = Append(written, cell[Slot].raw)
  /\ item' = None
  /\ doing' = [doing EXCEPT ![Writer] = "idle"]
  /\ UNCHANGED <<memory, op, idx_, got, raced, broken>>

Reading == {r \in Readers : doing[r] = "read"}

(* ~LocalWriter empties the slot without the item's mutex. *)
Destroy ==
  /\ Ready(Writer, "idle") /\ cell[Slot].raw # None
  /\ Start(Writer, "destroy", Reset(Slot))
  /\ raced' = (raced \/ Reading # {})
  /\ UNCHANGED <<memory, item, index, idx_, got, written, broken>>

(* Mutant: the mutex is given up before the copy is made. *)
ReadUnguarded(r) ==
  /\ Ready(r, "idle") /\ item = None /\ cell[r].raw = None
  /\ idx_' = [idx_ EXCEPT ![r] = index]
  /\ Start(r, "read", Assignment("copy", r, Slot))
  /\ raced' = (raced \/ doing[Writer] = "destroy")
  /\ UNCHANGED <<memory, item, index, got, written, broken>>

(* LocalReader::read: idx_ = index under the item's mutex, and a copy of buffer. *)
Read(r) ==
  /\ Ready(r, "idle") /\ item = None /\ cell[r].raw = None
  /\ item' = r
  /\ idx_' = [idx_ EXCEPT ![r] = index]
  /\ Start(r, "read", Assignment("copy", r, Slot))
  /\ raced' = (raced \/ doing[Writer] = "destroy")
  /\ UNCHANGED <<memory, index, got, written, broken>>

HaveRead(r) ==
  /\ Ready(r, "read")
  /\ got' = [got EXCEPT ![r] = cell[r].raw]
  /\ item' = IF item = r THEN None ELSE item
  /\ doing' = [doing EXCEPT ![r] = "idle"]
  /\ UNCHANGED <<memory, op, index, idx_, written, raced, broken>>

(* A pointer of a thread goes out of scope. *)
Drop(t) ==
  /\ Ready(t, "idle") /\ cell[t].raw # None
  /\ Start(t, "drop", Reset(t))
  /\ UNCHANGED <<memory, item, index, idx_, got, written, raced, broken>>

Finish(t) ==
  /\ \E what \in {"keep", "destroy", "drop"} : Ready(t, what)
  /\ doing' = [doing EXCEPT ![t] = "idle"]
  /\ UNCHANGED <<memory, op, item, index, idx_, got, written, raced, broken>>

Next == /\ ~broken
        /\ \/ \E t \in Threads : Operate(t) \/ Drop(t) \/ Finish(t)
           \/ \E r \in Readers : Read(r) \/ HaveRead(r)
           \/ Make \/ Keep \/ Write \/ Written \/ Destroy

Spec == Init /\ [][Next]_vars

(* A thread inside an operation goes on; a mutex that is given back again and *)
(* again is obtained.                                                         *)
FairSpec ==
  /\ Spec
  /\ \A t \in Threads : /\ WF_vars(~broken /\ (Decrease(t) \/ UnlockThis(t) \/ Copy(t) \/ UnlockRhs(t)))
                        /\ SF_vars(~broken /\ Lock(t))
  /\ WF_vars(~broken /\ Written)
  /\ \A r \in Readers : WF_vars(~broken /\ HaveRead(r))

-----------------------------------------------------------------------------
TypeOK ==
  /\ cell \in [Cells -> [raw : Objects \cup {None}, mutex : Objects \cup {None}]]
  /\ count \in [Objects -> 0 .. Cardinality(Cells)]
  /\ owner \in [Objects -> Threads \cup {None}]
  /\ made \subseteq Objects /\ freed \subseteq made
  /\ \A t \in Threads : op[t].mutex \in Objects \cup {None}
  /\ item \in Threads \cup {None} /\ index \in 0 .. MaxWrites
  /\ idx_ \in [Readers -> 0 .. MaxWrites]

(* The counter of an object is the number of pointers to it, through every *)
(* interleaving of copies, moves and releases (shm_shared_ptr.hpp:211).    *)
CountIsExact ==
  /\ TypeOK
  /\ \A o \in Objects : count[o] = Cardinality({c \in Cells : cell[c].raw = o})

(* Nobody holds or waits for the mutex of an object that is freed, follows a null *)
(* pointer or gives back a mutex it does not hold, as long as ~LocalWriter does   *)
(* not empty the slot under a read() (local_channal.hpp:190 takes no mutex).      *)
SafeUse ==
  ~raced =>
    /\ ~broken
    /\ \A t \in Threads : op[t].at \in {"lockThis", "lockRhs"} => op[t].mutex \notin freed

(* What read() returns and the index it remembers are what one write() left, so  *)
(* that is_update() answers for the message the reader has; an emptied slot is   *)
(* the exception. Before its first read() a reader's idx_ is arbitrary.          *)
PairedRead ==
  \A r \in Readers :
    (got[r] # None /\ doing[r] = "idle") => got[r] = written[idx_[r]]

(* Every operation returns: a mutex is held by one who goes on, never by one who *)
(* lost track of it. A read() that races with ~LocalWriter may keep it for ever. *)
OperationsReturn ==
  \A t \in Threads : op[t].at # "over" ~> (op[t].at = "over" \/ broken \/ raced)

Ownership == INSTANCE SharedOwnership
               WITH owners <- [o \in Objects |-> {c \in Cells : cell[c].raw = o}]

(* Each object is freed once, when the last pointer to it goes. *)
Implements == Ownership!Spec
=============================================================================
