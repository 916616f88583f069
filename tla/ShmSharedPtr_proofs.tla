-------------------------- MODULE ShmSharedPtr_proofs --------------------------
(***************************************************************************)
(* What TLAPS proves about ShmSharedPtr, for any number of readers,        *)
(* objects and writes: the counters are exact, objects are freed once and  *)
(* by the last who lets go, no message is mixed up with another one's      *)
(* index, and nothing freed is touched while ~LocalWriter meets no read(). *)
(***************************************************************************)
EXTENDS ShmSharedPtr, FiniteSetTheorems, TLAPS

(* The pointers to an object. *)
Pointing(o) == {c \in Cells : cell[c].raw = o}

Whats == {"idle", "made", "keep", "write", "destroy", "read", "drop"}
Ats == {"over", "lockThis", "decrease", "unlockThis", "lockRhs", "copy", "unlockRhs"}
Operations == [kind : {None, "move", "copy", "reset"},
               this : Cells \cup {None}, rhs : Cells \cup {None},
               at : Ats, mutex : Objects \cup {None}]

(* Which thread is in which operation: none changes another one's pointer. *)
Task(t) ==
  \/ op[t] = NoOp
  \/ /\ op[t].at # "over"
     /\ \/ /\ t = Writer /\ doing[t] = "keep"
           /\ op[t].kind = "move" /\ op[t].this = Writer /\ op[t].rhs = Temp
        \/ /\ t = Writer /\ doing[t] = "write"
           /\ op[t].kind = "copy" /\ op[t].this = Slot /\ op[t].rhs = Writer
        \/ /\ t \in Readers /\ doing[t] = "read"
           /\ op[t].kind = "copy" /\ op[t].this = t /\ op[t].rhs = Slot
        \/ /\ op[t].kind = "reset" /\ op[t].at \in {"lockThis", "decrease", "unlockThis"}
           /\ \/ doing[t] = "drop" /\ op[t].this = t
              \/ t = Writer /\ doing[t] = "destroy" /\ op[t].this = Slot

Shape ==
  /\ cell \in [Cells -> [raw : made \cup {None}, mutex : Objects \cup {None}]]
  /\ owner \in [Objects -> Threads \cup {None}]
  /\ made \subseteq Objects /\ freed \subseteq made
  /\ op \in [Threads -> Operations] /\ doing \in [Threads -> Whats]
  /\ \A t \in Threads : Task(t)
  /\ item \in Threads \cup {None} /\ index \in 0 .. MaxWrites
  /\ doing[Writer] = "write" => index < MaxWrites
  /\ idx_ \in [Readers -> 0 .. MaxWrites] /\ got \in [Readers -> Objects \cup {None}]

(* A pointer points to what is made and not freed, *)
Alive == \A c \in Cells : cell[c].raw # None => cell[c].raw \in made \ freed

(* and knows its mutex; *)
Known == \A c \in Cells : cell[c].raw # None => cell[c].mutex = cell[c].raw

(* one that is about to be assigned is empty, *)
Empty(t) == op[t].at \in {"unlockThis", "lockRhs", "copy"} => cell[op[t].this].raw = None

(* and the temporary is, except from makeShmShared to the move. *)
Spare == \/ cell[Temp].raw = None
         \/ doing[Writer] = "made"
         \/ op[Writer].kind = "move" /\ op[Writer].at # "unlockRhs"

Pointers == Alive /\ Known /\ (\A t \in Threads : Empty(t)) /\ Spare

Exact ==
  /\ count \in [Objects -> Nat]
  /\ \A o \in Objects : count[o] = Cardinality(Pointing(o))

(* Who reads or writes the item holds its mutex. *)
Items == \A t \in Threads : item = t <=> doing[t] \in {"read", "write"}

(* What a thread relies on at each place of an operation. *)
Held(t) ==
  LET this == op[t].this
      rhs == op[t].rhs
      moved == IF op[t].kind = "move" THEN this ELSE rhs
  IN /\ op[t].at = "lockThis" => cell[this].raw # None /\ op[t].mutex = cell[this].raw
     /\ op[t].at = "decrease" => cell[this].raw # None /\ owner[cell[this].raw] = t
     /\ (op[t].at = "unlockThis" /\ cell[this].mutex # None)
          => cell[this].mutex \notin freed /\ owner[cell[this].mutex] = t
     /\ op[t].kind # "reset" /\ op[t].at \notin {"over", "unlockRhs"} => cell[rhs].raw # None
     /\ op[t].at = "lockRhs" => op[t].mutex = cell[rhs].raw
     /\ op[t].at = "copy" => owner[cell[rhs].raw] = t
     /\ op[t].at = "unlockRhs" => cell[moved].raw # None /\ owner[cell[moved].raw] = t

Guarded ==
  ~raced =>
    /\ ~broken
    /\ doing[Writer] = "destroy" => \A r \in Readers : doing[r] # "read"
    /\ \A t \in Threads : Held(t)

(* What the last write left. *)
LastIs(o) == o = None \/ (index > 0 /\ o = written[index])

Log == written \in Seq(Objects \cup {None}) /\ Len(written) = index

(* Between two writes it is in the slot, *)
SlotIsLast == doing[Writer] # "write" => LastIs(cell[Slot].raw)

(* a reader that has copied the slot has it, with its index, *)
ReadIsLast(r) ==
  doing[r] = "read" =>
    /\ idx_[r] = index
    /\ op[r] = NoOp \/ op[r].at = "unlockRhs" => LastIs(cell[r].raw)

(* and remembers the two together. *)
Remembered(r) ==
  (got[r] # None /\ doing[r] # "read") => idx_[r] \in 1 .. index /\ got[r] = written[idx_[r]]

Paired == Log /\ SlotIsLast /\ \A r \in Readers : ReadIsLast(r) /\ Remembered(r)

-----------------------------------------------------------------------------
LEMMA ShapeInit == Init => Shape /\ Pointers
  BY PointerAssumption
  DEF Init, Shape, Pointers, Alive, Known, Empty, Spare, Null, NoOp, Task, Operations, Ats, Whats, Threads, Cells

(* What an operation begins with. *)
LEMMA StartShape ==
  ASSUME Shape, NEW this \in Cells, NEW rhs \in Cells, NEW kind \in {"move", "copy"}
  PROVE  /\ Assignment(kind, this, rhs) \in Operations
         /\ \/ Assignment(kind, this, rhs) = NoOp
            \/ /\ Assignment(kind, this, rhs).at \in {"lockThis", "lockRhs"}
               /\ Assignment(kind, this, rhs).kind = kind
               /\ Assignment(kind, this, rhs).this = this
               /\ Assignment(kind, this, rhs).rhs = rhs
         /\ Reset(this) \in Operations
         /\ \/ Reset(this) = NoOp
            \/ /\ Reset(this).at = "lockThis" /\ Reset(this).kind = "reset"
               /\ Reset(this).this = this
  BY PointerAssumption DEF Assignment, Reset, Locking, NoOp, Operations, Ats, Shape

(* An operation works on a pointer of its thread, and copies from another one. *)
LEMMA OperationCells ==
  ASSUME Shape, NEW t \in Threads, op[t].at # "over"
  PROVE  /\ op[t] # NoOp /\ op[t].kind \in {"move", "copy", "reset"}
         /\ op[t].this \in Cells /\ (op[t].kind # "reset" => op[t].rhs \in Cells)
         /\ op[t].kind # "reset" => op[t].rhs # op[t].this
         /\ op[t].at \notin {"lockThis", "decrease", "unlockThis"} => op[t].kind # "reset"
         /\ op[t].this = IF t \in Readers \/ doing[t] \in {"keep", "drop"} THEN t ELSE Slot
<1>1. Task(t) /\ op[t] # NoOp
  BY DEF Shape, NoOp
<1> QED
  BY <1>1, PointerAssumption DEF Task, Cells, Threads

LEMMA AtType ==
  ASSUME op \in [Threads -> Operations], NEW t \in Threads, NEW at \in Ats
  PROVE  [op EXCEPT ![t].at = at] \in [Threads -> Operations]
  BY DEF Operations

LEMMA ShapeNext == Shape /\ [Next]_vars => Shape'
<1> SUFFICES ASSUME Shape, [Next]_vars PROVE Shape'
  OBVIOUS
<1> USE PointerAssumption DEF Shape, Task
<1>1. CASE UNCHANGED vars
  BY <1>1 DEF vars, memory, users
<1>2. ASSUME NEW t \in Threads, Lock(t) PROVE Shape'
  BY <1>2 DEF Lock, Break, Step, Operations, Ats, NoOp, memory, users
<1>3. ASSUME NEW t \in Threads, Decrease(t) PROVE Shape'
  <2>1. op[t].at = "decrease" /\ op[t] # NoOp /\ op[t].this \in Cells
    BY <1>3, OperationCells DEF Decrease
  <2>2. /\ cell' \in [Cells -> [raw : made \cup {None}, mutex : Objects \cup {None}]]
        /\ owner' \in [Objects -> Threads \cup {None}]
        /\ freed' \subseteq made' /\ made' = made
    <3>1. CASE UNCHANGED memory
      BY <3>1 DEF memory
    <3>2. CASE /\ cell' = [cell EXCEPT ![op[t].this] = Null] \/ cell' = [cell EXCEPT ![op[t].this].raw = None]
               /\ owner' = owner \/ owner' = [owner EXCEPT ![cell[op[t].this].raw] = None]
               /\ freed' = freed \/ freed' = freed \cup {cell[op[t].this].raw}
               /\ UNCHANGED made /\ cell[op[t].this].raw # None
      BY <2>1, <3>2 DEF Null
    <3> QED
      BY <1>3, <3>1, <3>2 DEF Decrease, Break
  <2>3. UNCHANGED op \/ op' = [op EXCEPT ![t].at = "unlockThis"]
    BY <1>3 DEF Decrease, Break, Step
  <2>4. UNCHANGED users
    BY <1>3 DEF Decrease
  <2>5. op' \in [Threads -> Operations]
    <3>1. op \in [Threads -> Operations]
      OBVIOUS
    <3> HIDE DEF Shape, Task
    <3> QED
      BY <2>3, <3>1, AtType DEF Ats
  <2>6. \A s \in Threads : Task(s)'
    BY <2>1, <2>3, <2>4 DEF NoOp, users, Operations
  <2> QED
    BY <2>2, <2>4, <2>5, <2>6 DEF users
<1>4. ASSUME NEW t \in Threads, UnlockThis(t) PROVE Shape'
  <2>1. op[t].at = "unlockThis" /\ op[t] # NoOp /\ op[t].this \in Cells
        /\ (op[t].kind # "reset" => op[t].rhs \in Cells)
    BY <1>4, OperationCells DEF UnlockThis
  <2>2. /\ cell' \in [Cells -> [raw : made \cup {None}, mutex : Objects \cup {None}]]
        /\ owner' \in [Objects -> Threads \cup {None}]
        /\ UNCHANGED <<made, freed>>
    BY <1>4, <2>1 DEF UnlockThis, Unlocked, Break, memory
  <2>3. \/ UNCHANGED op \/ op' = [op EXCEPT ![t] = NoOp]
        \/ /\ op[t].kind # "reset"
           /\ op' = [op EXCEPT ![t].at = "lockRhs", ![t].mutex = cell[op[t].rhs].mutex]
    BY <1>4 DEF UnlockThis, Break, Over
  <2>4. UNCHANGED users
    BY <1>4 DEF UnlockThis
  <2>5. op' \in [Threads -> Operations]
    BY <2>1, <2>3 DEF Operations, Ats, NoOp
  <2>6. \A s \in Threads : Task(s)'
    BY <2>1, <2>3, <2>4 DEF NoOp, users, Operations
  <2> QED
    BY <2>2, <2>4, <2>5, <2>6 DEF users
<1>5. ASSUME NEW t \in Threads, Copy(t) PROVE Shape'
  <2>1. op[t].at = "copy" /\ op[t] # NoOp /\ op[t].this \in Cells /\ op[t].rhs \in Cells
        /\ op[t].kind # "reset"
    BY <1>5, OperationCells DEF Copy
  <2>2. /\ cell' \in [Cells -> [raw : made \cup {None}, mutex : Objects \cup {None}]]
        /\ UNCHANGED <<owner, made, freed>>
    BY <1>5, <2>1 DEF Copy, Break, Null, memory
  <2>3. UNCHANGED op \/ op' = [op EXCEPT ![t].at = "unlockRhs"]
    BY <1>5 DEF Copy, Break, Step
  <2>4. UNCHANGED users
    BY <1>5 DEF Copy
  <2>5. op' \in [Threads -> Operations]
    <3>1. op \in [Threads -> Operations]
      OBVIOUS
    <3> HIDE DEF Shape, Task
    <3> QED
      BY <2>3, <3>1, AtType DEF Ats
  <2>6. \A s \in Threads : Task(s)'
    BY <2>1, <2>3, <2>4 DEF NoOp, users, Operations
  <2> QED
    BY <2>2, <2>4, <2>5, <2>6 DEF users
<1>6. ASSUME NEW t \in Threads, UnlockRhs(t) PROVE Shape'
  <2>1. op' \in [Threads -> Operations] /\ (op' = op \/ op' = [op EXCEPT ![t] = NoOp])
    BY <1>6 DEF UnlockRhs, Break, Over, Operations, Ats, NoOp
  <2>2. owner' \in [Objects -> Threads \cup {None}]
    BY <1>6 DEF UnlockRhs, Unlocked, Break, memory
  <2>3. UNCHANGED <<cell, made, freed>> /\ UNCHANGED users
    BY <1>6 DEF UnlockRhs, Break, memory
  <2>4. \A s \in Threads : Task(s)'
    BY <2>1, <2>3 DEF users
  <2> QED
    BY <2>1, <2>2, <2>3, <2>4 DEF users
<1>7. ASSUME NEW t \in Threads, Drop(t) PROVE Shape'
  BY <1>7, StartShape DEF Drop, Ready, Start, Whats, Threads, Cells, memory
<1>8. ASSUME NEW t \in Threads, Finish(t) PROVE Shape'
  BY <1>8 DEF Finish, Ready, Whats, memory
<1>9. ASSUME NEW r \in Readers, Read(r) PROVE Shape'
  BY <1>9, StartShape DEF Read, Ready, Start, Whats, Threads, Cells, memory
<1>10. ASSUME NEW r \in Readers, HaveRead(r) PROVE Shape'
  BY <1>10 DEF HaveRead, Ready, Whats, Threads, Cells, memory
<1>11. CASE Make
  BY <1>11 DEF Make, Ready, Whats, Threads, Cells
<1>12. CASE Keep
  BY <1>12, StartShape DEF Keep, Ready, Start, Whats, Threads, Cells, memory
<1>13. CASE Write
  <2> DEFINE new == Assignment("copy", Slot, Writer)
  <2>1. /\ op[Writer] = NoOp /\ index < MaxWrites
        /\ op' = [op EXCEPT ![Writer] = new] /\ doing' = [doing EXCEPT ![Writer] = "write"]
        /\ item' = Writer /\ UNCHANGED <<cell, owner, made, freed, index, idx_, got>>
    BY <1>13 DEF Write, Ready, Start, memory
  <2>2. /\ new \in Operations
        /\ new = NoOp \/ (/\ new.at \in {"lockThis", "lockRhs"}
                         /\ new.kind = "copy" /\ new.this = Slot /\ new.rhs = Writer)
    <3> HIDE DEF Shape, Task
    <3>1. Slot \in Cells /\ Writer \in Cells
      BY DEF Cells, Threads
    <3> QED
      BY <3>1, StartShape
  <2> HIDE DEF new
  <2>3. op' \in [Threads -> Operations] /\ doing' \in [Threads -> Whats]
    BY <2>1, <2>2 DEF Whats
  <2>4. \A s \in Threads : Task(s)'
    BY <2>1, <2>2 DEF Threads
  <2> QED
    BY <2>1, <2>3, <2>4 DEF Threads
<1>14. CASE Written
  BY <1>14 DEF Written, Ready, Whats, Threads, memory
<1>15. CASE Destroy
  BY <1>15, StartShape DEF Destroy, Ready, Start, Whats, Threads, Cells, memory
<1> QED
  BY <1>1, <1>2, <1>3, <1>4, <1>5, <1>6, <1>7, <1>8, <1>9, <1>10, <1>11, <1>12,
     <1>13, <1>14, <1>15 DEF Next, Operate

-----------------------------------------------------------------------------
(* What a step can do to the pointers of all threads and to the counters. *)
Points(c, o) == \A d \in Cells : cell'[d].raw = IF d = c THEN o ELSE cell[d].raw

Keeps == /\ UNCHANGED <<count, made, freed>>
         /\ \A c \in Cells : cell'[c].raw = cell[c].raw

Makes(o, c) == /\ o \notin made /\ cell[c].raw = None
               /\ made' = made \cup {o} /\ count' = [count EXCEPT ![o] = 1]
               /\ UNCHANGED freed /\ Points(c, o)

Shares(o, c) == /\ o \in made \ freed /\ cell[c].raw = None /\ \E d \in Cells : cell[d].raw = o
                /\ count' = [count EXCEPT ![o] = @ + 1]
                /\ UNCHANGED <<made, freed>> /\ Points(c, o)

Moves(o, c, d) == /\ cell[c].raw = o /\ cell[d].raw = None
                  /\ UNCHANGED <<count, made, freed>>
                  /\ \A b \in Cells : cell'[b].raw = IF b = c THEN None
                                                     ELSE IF b = d THEN o ELSE cell[b].raw

Releases(o, c) == /\ cell[c].raw = o /\ count' = [count EXCEPT ![o] = @ - 1]
                  /\ freed' = IF count[o] = 1 THEN freed \cup {o} ELSE freed
                  /\ UNCHANGED made /\ Points(c, None)

MemoryStep ==
  \/ Keeps
  \/ \E o \in Objects, c \in Cells :
       Makes(o, c) \/ Shares(o, c) \/ Releases(o, c) \/ \E d \in Cells : Moves(o, c, d)

LEMMA MemorySteps ==
  ASSUME Shape, Pointers, count \in [Objects -> Nat], [Next]_vars
  PROVE  MemoryStep
<1> USE PointerAssumption
<1>0. None \notin Objects /\ None \notin Cells /\ made \subseteq Objects
  BY DEF Shape
<1>1. CASE UNCHANGED <<cell, count, made, freed>>
  BY <1>1 DEF MemoryStep, Keeps
<1>2. ASSUME NEW t \in Threads, Lock(t) PROVE MemoryStep
  BY <1>1, <1>2 DEF Lock, Break, memory
<1>3. ASSUME NEW t \in Threads, Decrease(t) PROVE MemoryStep
  <2> DEFINE this == op[t].this
             o == cell[this].raw
  <2>1. this \in Cells
    BY <1>3, OperationCells DEF Decrease
  <2>2. CASE UNCHANGED memory
    BY <1>1, <2>2 DEF memory
  <2>3. CASE ~ UNCHANGED memory
    <3>1. /\ o \in Objects /\ count' = [count EXCEPT ![o] = @ - 1] /\ UNCHANGED made
          /\ freed' = IF count[o] = 1 THEN freed \cup {o} ELSE freed
          /\ cell' = [cell EXCEPT ![this] = Null] \/ cell' = [cell EXCEPT ![this].raw = None]
      BY <1>3, <2>1, <2>3 DEF Decrease, Break, Shape
    <3>2. Points(this, None)
      BY <2>1, <3>1 DEF Points, Null, Shape
    <3> QED
      BY <2>1, <3>1, <3>2 DEF MemoryStep, Releases
  <2> QED
    BY <2>2, <2>3
<1>4. ASSUME NEW t \in Threads, UnlockThis(t) PROVE MemoryStep
  <2>1. op[t].this \in Cells
    BY <1>4, OperationCells DEF UnlockThis
  <2>2. /\ cell' = cell \/ cell' = [cell EXCEPT ![op[t].this].mutex = None]
        /\ UNCHANGED <<count, made, freed>>
    BY <1>4 DEF UnlockThis, Break, memory
  <2> QED
    BY <2>1, <2>2 DEF MemoryStep, Keeps, Shape
<1>5. ASSUME NEW t \in Threads, Copy(t) PROVE MemoryStep
  <2> DEFINE this == op[t].this
             from == cell[op[t].rhs]
  <2>1. /\ this \in Cells /\ op[t].rhs \in Cells /\ op[t].rhs # this
        /\ op[t].at = "copy" /\ cell[this].raw = None /\ from.raw \in made \cup {None}
    BY <1>5, OperationCells DEF Copy, Pointers, Empty, Shape
  <2>2. CASE UNCHANGED memory
    BY <1>1, <2>2 DEF memory
  <2>3. CASE ~UNCHANGED memory /\ op[t].kind = "move"
    <3>1. /\ cell' = [cell EXCEPT ![this] = from, ![op[t].rhs] = Null]
          /\ UNCHANGED <<count, made, freed>>
      BY <1>5, <2>3 DEF Copy, Break
    <3>2. \A b \in Cells : cell'[b].raw = IF b = op[t].rhs THEN None
                                          ELSE IF b = this THEN from.raw ELSE cell[b].raw
      BY <2>1, <3>1 DEF Null, Shape
    <3>3. CASE from.raw = None
      BY <2>1, <3>1, <3>2, <3>3 DEF MemoryStep, Keeps
    <3>4. CASE from.raw # None
      <4>1. Moves(from.raw, op[t].rhs, this)
        BY <2>1, <3>1, <3>2 DEF Moves
      <4> QED
        BY <1>0, <2>1, <3>4, <4>1 DEF MemoryStep
    <3> QED
      BY <3>3, <3>4
  <2>4. CASE ~UNCHANGED memory /\ op[t].kind # "move"
    <3>1. /\ cell' = [cell EXCEPT ![this] = from] /\ from.raw \notin freed
          /\ count' = [o \in Objects |-> IF o = from.raw THEN count[o] + 1 ELSE count[o]]
          /\ UNCHANGED <<made, freed>>
      BY <1>5, <2>4 DEF Copy, Break
    <3>2. Points(this, from.raw)
      BY <2>1, <3>1 DEF Points, Shape
    <3>3. CASE from.raw = None
      <4>1. count' = count
        BY <1>0, <3>1, <3>3
      <4> QED
        BY <2>1, <3>1, <3>2, <3>3, <4>1 DEF MemoryStep, Keeps, Points
    <3>4. CASE from.raw # None
      <4>1. from.raw \in Objects /\ count' = [count EXCEPT ![from.raw] = @ + 1]
        BY <1>0, <2>1, <3>1, <3>4
      <4>2. Shares(from.raw, this)
        BY <2>1, <3>1, <3>2, <3>4, <4>1 DEF Shares
      <4> QED
        BY <2>1, <4>1, <4>2 DEF MemoryStep
    <3> QED
      BY <3>3, <3>4
  <2> QED
    BY <2>2, <2>3, <2>4
<1>6. ASSUME NEW t \in Threads, UnlockRhs(t) PROVE MemoryStep
  BY <1>1, <1>6 DEF UnlockRhs, Break, memory
<1>7. CASE Make
  <2>1. op[Writer] = NoOp /\ doing[Writer] = "idle"
    BY <1>7 DEF Make, Ready
  <2>2. Temp \in Cells /\ cell[Temp].raw = None
    BY <2>1 DEF Pointers, Spare, Cells, NoOp, None
  <2>3. PICK o \in Objects \ made :
          /\ made' = made \cup {o} /\ count' = [count EXCEPT ![o] = 1]
          /\ cell' = [cell EXCEPT ![Temp] = [raw |-> o, mutex |-> o]]
          /\ UNCHANGED freed
    BY <1>7 DEF Make
  <2>4. Points(Temp, o)
    BY <2>2, <2>3 DEF Points, Shape
  <2> QED
    BY <2>2, <2>3, <2>4 DEF MemoryStep, Makes
<1>8. CASE Next /\ ~Make /\ \A t \in Threads : ~Operate(t)
  BY <1>1, <1>8 DEF Next, Drop, Finish, Read, HaveRead, Keep, Write, Written, Destroy, memory
<1>9. CASE UNCHANGED vars
  BY <1>1, <1>9 DEF vars, memory
<1> QED
  BY <1>2, <1>3, <1>4, <1>5, <1>6, <1>7, <1>8, <1>9 DEF Next, Operate

-----------------------------------------------------------------------------
LEMMA CellsFinite ==
  /\ IsFiniteSet(Cells)
  /\ \A o : IsFiniteSet(Pointing(o)) /\ Cardinality(Pointing(o)) \in 0 .. Cardinality(Cells)
<1>1. IsFiniteSet(Cells)
  <2>1. IsFiniteSet(Readers \cup {Writer})
    BY PointerAssumption, FS_AddElement
  <2>2. IsFiniteSet({Temp, Slot})
    <3>1. IsFiniteSet({Temp}) /\ {Temp, Slot} = {Temp} \cup {Slot}
      BY FS_Singleton
    <3> QED
      BY <3>1, FS_AddElement
  <2> QED
    BY <2>1, <2>2, FS_Union DEF Cells, Threads
<1>2. ASSUME NEW o PROVE IsFiniteSet(Pointing(o)) /\ Cardinality(Pointing(o)) \in 0 .. Cardinality(Cells)
  <2>1. Pointing(o) \in SUBSET Cells
    BY DEF Pointing
  <2>2. /\ IsFiniteSet(Pointing(o)) /\ Cardinality(Pointing(o)) <= Cardinality(Cells)
    BY <1>1, <2>1, FS_Subset
  <2>3. Cardinality(Pointing(o)) \in Nat /\ Cardinality(Cells) \in Nat
    BY <1>1, <2>2, FS_CardinalityType
  <2> QED
    BY <2>2, <2>3
<1> QED
  BY <1>1, <1>2

(* The pointers to an object, after each kind of step. *)
LEMMA PointingSteps ==
  ASSUME None \notin Objects, NEW o \in Objects, NEW c \in Cells, NEW x \in Objects
  PROVE  /\ Keeps => Pointing(x)' = Pointing(x)
         /\ Makes(o, c) \/ Shares(o, c)
              => Pointing(x)' = IF x = o THEN Pointing(x) \cup {c} ELSE Pointing(x)
         /\ Releases(o, c) => Pointing(x)' = IF x = o THEN Pointing(x) \ {c} ELSE Pointing(x)
         /\ \A d \in Cells : Moves(o, c, d) =>
              Pointing(x)' = IF x = o THEN (Pointing(x) \ {c}) \cup {d} ELSE Pointing(x)
  BY DEF Keeps, Makes, Shares, Releases, Moves, Points, Pointing

LEMMA ExactNext ==
  ASSUME Shape, Pointers, Exact, [Next]_vars
  PROVE  Exact'
<1> USE CellsFinite
<1>0. MemoryStep /\ None \notin Objects /\ count \in [Objects -> Nat] /\ made \subseteq Objects
  BY MemorySteps, PointerAssumption DEF Exact, Shape
<1>1. CASE Keeps
  <2>1. count' = count
    BY <1>1 DEF Keeps
  <2>2. \A x \in Objects : Pointing(x)' = Pointing(x)
    BY <1>1 DEF Keeps, Pointing
  <2> QED
    BY <2>1, <2>2 DEF Exact
<1>2. ASSUME NEW o \in Objects, NEW c \in Cells, Makes(o, c) PROVE Exact'
  <2>1. Pointing(o) = {}
    BY <1>0, <1>2 DEF Makes, Pointing, Shape
  <2>2. Pointing(o)' = {c} /\ \A x \in Objects \ {o} : Pointing(x)' = Pointing(x)
    BY <1>0, <1>2, <2>1, PointingSteps
  <2>3. Cardinality({c}) = 1
    BY FS_Singleton
  <2>4. count' = [count EXCEPT ![o] = 1]
    BY <1>2 DEF Makes
  <2>5. count'[o] = Cardinality(Pointing(o)') /\ count' \in [Objects -> Nat]
    BY <1>0, <2>2, <2>3, <2>4
  <2>6. ASSUME NEW x \in Objects \ {o} PROVE count'[x] = Cardinality(Pointing(x)')
    <3>1. count'[x] = count[x] /\ Pointing(x)' = Pointing(x)
      BY <1>0, <2>2, <2>4
    <3>2. count[x] = Cardinality(Pointing(x))
      BY DEF Exact
    <3> QED
      BY <3>1, <3>2
  <2> QED
    BY <2>5, <2>6 DEF Exact
<1>3. ASSUME NEW o \in Objects, NEW c \in Cells, Shares(o, c) PROVE Exact'
  <2>1. c \notin Pointing(o)
    BY <1>0, <1>3 DEF Shares, Pointing
  <2>2. Pointing(o)' = Pointing(o) \cup {c} /\ \A x \in Objects \ {o} : Pointing(x)' = Pointing(x)
    BY <1>0, <1>3, PointingSteps
  <2>3. Cardinality(Pointing(o) \cup {c}) = Cardinality(Pointing(o)) + 1
    BY <2>1, FS_AddElement
  <2>4. count' = [count EXCEPT ![o] = @ + 1]
    BY <1>3 DEF Shares
  <2>5. count'[o] = Cardinality(Pointing(o)') /\ count' \in [Objects -> Nat]
    BY <1>0, <2>2, <2>3, <2>4 DEF Exact
  <2>6. ASSUME NEW x \in Objects \ {o} PROVE count'[x] = Cardinality(Pointing(x)')
    BY <1>0, <2>2, <2>4 DEF Exact
  <2> QED
    BY <2>5, <2>6 DEF Exact
<1>4. ASSUME NEW o \in Objects, NEW c \in Cells, Releases(o, c) PROVE Exact'
  <2>1. c \in Pointing(o)
    BY <1>4 DEF Releases, Pointing
  <2>2. Pointing(o)' = Pointing(o) \ {c} /\ \A x \in Objects \ {o} : Pointing(x)' = Pointing(x)
    BY <1>0, <1>4, PointingSteps
  <2>3. IsFiniteSet(Pointing(o) \ {c}) /\ Cardinality(Pointing(o) \ {c}) = Cardinality(Pointing(o)) - 1
    BY <2>1, FS_RemoveElement
  <2>4. Cardinality(Pointing(o) \ {c}) \in Nat
    BY <2>3, FS_CardinalityType
  <2>5. count' = [count EXCEPT ![o] = @ - 1]
    BY <1>4 DEF Releases
  <2> QED
    BY <1>0, <2>2, <2>3, <2>4, <2>5 DEF Exact
<1>5. ASSUME NEW o \in Objects, NEW c \in Cells, NEW d \in Cells, Moves(o, c, d) PROVE Exact'
  <2>1. c \in Pointing(o) /\ d \notin Pointing(o)
    BY <1>0, <1>5 DEF Moves, Pointing
  <2>2. /\ Pointing(o)' = (Pointing(o) \ {c}) \cup {d}
        /\ \A x \in Objects \ {o} : Pointing(x)' = Pointing(x)
    BY <1>0, <1>5, PointingSteps
  <2>3. IsFiniteSet(Pointing(o) \ {c}) /\ Cardinality(Pointing(o) \ {c}) = Cardinality(Pointing(o)) - 1
    BY <2>1, FS_RemoveElement
  <2>4. Cardinality((Pointing(o) \ {c}) \cup {d}) = Cardinality(Pointing(o) \ {c}) + 1
    BY <2>1, <2>3, FS_AddElement
  <2>5. Cardinality(Pointing(o)') = Cardinality(Pointing(o))
    BY <2>2, <2>3, <2>4
  <2>6. count' = count
    BY <1>5 DEF Moves
  <2> QED
    BY <1>0, <2>2, <2>5, <2>6 DEF Exact
<1> QED
  BY <1>0, <1>1, <1>2, <1>3, <1>4, <1>5 DEF MemoryStep

-----------------------------------------------------------------------------
(* The last pointer is the only one. *)
LEMMA LastOne ==
  ASSUME Exact, NEW o \in Objects, NEW c \in Cells, cell[c].raw = o
  PROVE  count[o] = 1 <=> Pointing(o) = {c}
<1>1. c \in Pointing(o) /\ IsFiniteSet(Pointing(o)) /\ count[o] = Cardinality(Pointing(o))
  BY CellsFinite DEF Pointing, Exact
<1>2. Cardinality(Pointing(o)) = 1 <=> \E x : Pointing(o) = {x}
  BY <1>1, FS_Singleton
<1> QED
  BY <1>1, <1>2

(* No object comes to be pointed to after it was freed. *)
LEMMA AliveNext ==
  ASSUME Shape, Pointers, Exact, [Next]_vars
  PROVE  Alive'
<1> USE DEF Alive
<1>0. MemoryStep /\ None \notin Objects /\ Alive
  BY MemorySteps, PointerAssumption DEF Exact, Pointers
<1>1. CASE Keeps
  BY <1>0, <1>1 DEF Keeps
<1>2. ASSUME NEW o \in Objects, NEW c \in Cells, Makes(o, c) PROVE Alive'
  <2>1. o \notin freed
    BY <1>2 DEF Makes, Shape
  <2> QED
    BY <1>0, <1>2, <2>1 DEF Makes, Points
<1>3. ASSUME NEW o \in Objects, NEW c \in Cells, Shares(o, c) PROVE Alive'
  BY <1>0, <1>3 DEF Shares, Points
<1>4. ASSUME NEW o \in Objects, NEW c \in Cells, NEW d \in Cells, Moves(o, c, d) PROVE Alive'
  BY <1>0, <1>4 DEF Moves
<1>5. ASSUME NEW o \in Objects, NEW c \in Cells, Releases(o, c) PROVE Alive'
  <2>1. CASE count[o] = 1
    <3>1. \A d \in Cells : cell[d].raw = o => d = c
      BY <1>5, <2>1, LastOne DEF Releases, Pointing
    <3> QED
      BY <1>0, <1>5, <3>1 DEF Releases, Points
  <2>2. CASE count[o] # 1
    BY <1>0, <1>5, <2>2 DEF Releases, Points
  <2> QED
    BY <2>1, <2>2
<1> QED
  BY <1>0, <1>1, <1>2, <1>3, <1>4, <1>5 DEF MemoryStep

(* What a step does to the cells and to the operations, thread by thread. *)
LEMMA DifferentPointers ==
  ASSUME Shape, NEW s \in Threads, NEW t \in Threads, s # t,
         op[s].at # "over", op[t].at # "over"
  PROVE  op[s].this # op[t].this
<1>1. /\ op[s].this = IF s \in Readers \/ doing[s] \in {"keep", "drop"} THEN s ELSE Slot
      /\ op[t].this = IF t \in Readers \/ doing[t] \in {"keep", "drop"} THEN t ELSE Slot
  BY OperationCells
<1> QED
  BY <1>1, PointerAssumption DEF Threads

LEMMA PointersNext ==
  ASSUME Shape, Pointers, Exact, [Next]_vars
  PROVE  Pointers'
<1> DEFINE Rest == Known /\ (\A t \in Threads : Empty(t)) /\ Spare
<1> USE DEF Known, Empty, Spare
<1> USE PointerAssumption
<1>a. Rest /\ op \in [Threads -> Operations] /\ doing \in [Threads -> Whats]
  BY DEF Pointers, Shape
<1>b. Writer \in Threads /\ Temp \in Cells /\ \A t \in Threads : t # Temp
  BY DEF Threads, Cells
<1>c. NoOp.at = "over" /\ NoOp.kind = None /\ None \notin {"move", "copy", "reset"}
  BY DEF NoOp, None
<1>1. ASSUME UNCHANGED <<cell, op>>, doing[Writer] = "made" => doing'[Writer] = "made" PROVE Rest'
  BY <1>1, <1>a
<1>2. ASSUME NEW t \in Threads, Lock(t) PROVE Rest'
  <2>1. CASE UNCHANGED <<cell, op, doing>>
    BY <1>1, <2>1
  <2>2. CASE ~UNCHANGED <<cell, op, doing>>
    <3>1. /\ UNCHANGED <<cell, doing>>
          /\ \/ op[t].at = "lockThis" /\ op' = [op EXCEPT ![t].at = "decrease"]
             \/ op[t].at = "lockRhs" /\ op' = [op EXCEPT ![t].at = "copy"]
      BY <1>2, <2>2 DEF Lock, Break, Step, memory, users
    <3> QED
      BY <1>a, <1>b, <3>1 DEF Operations
  <2> QED
    BY <2>1, <2>2
<1>3. ASSUME NEW t \in Threads, Decrease(t) PROVE Rest'
  <2>0. /\ op[t].this \in Cells /\ op[t].this # Temp
    BY <1>3, <1>b, OperationCells DEF Decrease
  <2>1. CASE UNCHANGED <<cell, op, doing>>
    BY <1>1, <2>1
  <2>2. CASE ~UNCHANGED <<cell, op, doing>>
    <3>1. /\ UNCHANGED doing /\ op[t].at = "decrease" /\ op' = [op EXCEPT ![t].at = "unlockThis"]
          /\ \/ cell' = cell /\ cell[op[t].this].raw = None
             \/ cell' = [cell EXCEPT ![op[t].this] = Null]
             \/ cell' = [cell EXCEPT ![op[t].this].raw = None]
      BY <1>3, <2>2 DEF Decrease, Break, Step, memory, users
    <3>2. \A c \in Cells : \/ cell'[c] = cell[c]
                           \/ c = op[t].this /\ cell'[c].raw = None
      BY <2>0, <3>1 DEF Null, Shape
    <3>3. cell'[op[t].this].raw = None
      BY <2>0, <3>1 DEF Null, Shape
    <3>4. \A s \in Threads : op[s].at # "over" => op[s].this \in Cells
      BY OperationCells
    <3>5. /\ \A s \in Threads \ {t} : op'[s] = op[s]
          /\ op'[t].at = "unlockThis" /\ op'[t].this = op[t].this /\ op'[t].kind = op[t].kind
      BY <1>a, <3>1 DEF Operations
    <3>6. Known'
      BY <1>a, <3>2
    <3>7. \A s \in Threads : Empty(s)'
      BY <1>a, <3>2, <3>3, <3>4, <3>5
    <3>8. Spare'
      BY <1>a, <1>b, <2>0, <3>1, <3>2, <3>5
    <3> QED
      BY <3>6, <3>7, <3>8
  <2> QED
    BY <2>1, <2>2
<1>4. ASSUME NEW t \in Threads, UnlockThis(t) PROVE Rest'
  <2>0. /\ op[t].this \in Cells /\ op[t].this # Temp /\ op[t].at = "unlockThis"
        /\ cell[op[t].this].raw = None
    BY <1>4, <1>a, <1>b, OperationCells DEF UnlockThis
  <2>1. CASE UNCHANGED <<cell, op, doing>>
    BY <1>1, <2>1
  <2>2. CASE ~UNCHANGED <<cell, op, doing>>
    <3>1. /\ UNCHANGED doing
          /\ cell' = cell \/ cell' = [cell EXCEPT ![op[t].this].mutex = None]
          /\ \/ op[t].kind = "reset" /\ op' = [op EXCEPT ![t] = NoOp]
             \/ op' = [op EXCEPT ![t].at = "lockRhs", ![t].mutex = cell[op[t].rhs].mutex]
      BY <1>4, <2>2 DEF UnlockThis, Break, Over, memory, users
    <3>2. \A c \in Cells : /\ cell'[c].raw = cell[c].raw
                           /\ cell'[c] = cell[c] \/ cell[c].raw = None
      BY <2>0, <3>1 DEF Shape
    <3>3. \A s \in Threads : op[s].at # "over" => op[s].this \in Cells
      BY OperationCells
    <3>4. /\ \A s \in Threads \ {t} : op'[s] = op[s]
          /\ \/ op[t].kind = "reset" /\ op'[t] = NoOp
             \/ op'[t].at = "lockRhs" /\ op'[t].this = op[t].this /\ op'[t].kind = op[t].kind
      BY <1>a, <3>1 DEF Operations
    <3>5. Known'
      BY <1>a, <3>2
    <3>6. \A s \in Threads : Empty(s)'
      BY <1>a, <1>c, <2>0, <3>2, <3>3, <3>4
    <3>7. Spare'
      BY <1>a, <1>b, <1>c, <3>1, <3>2, <3>4
    <3> QED
      BY <3>5, <3>6, <3>7
  <2> QED
    BY <2>1, <2>2
<1>5. ASSUME NEW t \in Threads, Copy(t) PROVE Rest'
  <2>0. /\ op[t].this \in Cells /\ op[t].this # Temp /\ op[t].at = "copy" /\ op[t].rhs \in Cells
        /\ op[t].kind \in {"move", "copy"} /\ (op[t].kind = "move" => t = Writer /\ op[t].rhs = Temp)
    BY <1>5, <1>b, OperationCells DEF Copy, Shape, Task
  <2>1. CASE UNCHANGED <<cell, op, doing>>
    BY <1>1, <2>1
  <2>2. CASE ~UNCHANGED <<cell, op, doing>>
    <3>1. /\ UNCHANGED doing /\ op' = [op EXCEPT ![t].at = "unlockRhs"]
          /\ IF op[t].kind = "move"
             THEN cell' = [cell EXCEPT ![op[t].this] = cell[op[t].rhs], ![op[t].rhs] = Null]
             ELSE cell' = [cell EXCEPT ![op[t].this] = cell[op[t].rhs]]
      BY <1>5, <2>2 DEF Copy, Break, Step, memory, users
    <3>2. \A c \in Cells : \/ cell'[c] = cell[c]
                           \/ c = op[t].this /\ cell'[c] = cell[op[t].rhs]
                           \/ cell'[c] = Null
      BY <2>0, <3>1 DEF Shape
    <3>3. \A s \in Threads \ {t} : op[s].at # "over" => op[s].this \in Cells /\ op[s].this # op[t].this
      BY <2>0, OperationCells, DifferentPointers
    <3>4. /\ \A s \in Threads \ {t} : op'[s] = op[s]
          /\ op'[t].at = "unlockRhs" /\ op'[t].kind = op[t].kind
      BY <1>a, <3>1 DEF Operations
    <3>5. Known'
      BY <1>a, <2>0, <3>2 DEF Null
    <3>6. \A s \in Threads : Empty(s)'
      BY <1>a, <3>2, <3>3, <3>4 DEF Null
    <3>7. Spare'
      <4>1. CASE op[t].kind = "move"
        BY <1>b, <2>0, <3>1, <4>1 DEF Null, Shape
      <4>2. CASE op[t].kind = "copy"
        BY <1>a, <1>b, <2>0, <3>1, <3>4, <4>2 DEF Shape
      <4> QED
        BY <2>0, <4>1, <4>2
    <3> QED
      BY <3>5, <3>6, <3>7
  <2> QED
    BY <2>1, <2>2
<1>6. ASSUME NEW t \in Threads, UnlockRhs(t) PROVE Rest'
  <2>1. CASE UNCHANGED <<cell, op, doing>>
    BY <1>1, <2>1
  <2>2. CASE ~UNCHANGED <<cell, op, doing>>
    <3>1. /\ UNCHANGED <<cell, doing>> /\ op[t].at = "unlockRhs" /\ op' = [op EXCEPT ![t] = NoOp]
      BY <1>6, <2>2 DEF UnlockRhs, Break, Over, memory, users
    <3> QED
      BY <1>a, <1>b, <1>c, <3>1
  <2> QED
    BY <2>1, <2>2
<1>7. ASSUME Make PROVE Rest'
  <2>1. PICK o \in Objects : cell' = [cell EXCEPT ![Temp] = [raw |-> o, mutex |-> o]]
    BY <1>7 DEF Make
  <2>2. UNCHANGED op /\ doing'[Writer] = "made"
    BY <1>7, <1>a, <1>b DEF Make
  <2>3. \A s \in Threads : op[s].at # "over" => op[s].this \in Cells /\ op[s].this # Temp
    BY <1>b, OperationCells
  <2>4. \A c \in Cells : cell'[c] = IF c = Temp THEN [raw |-> o, mutex |-> o] ELSE cell[c]
    BY <2>1 DEF Shape
  <2>5. Known'
    BY <1>a, <2>4
  <2>6. \A s \in Threads : Empty(s)'
    BY <1>a, <2>2, <2>3, <2>4
  <2>7. Spare'
    BY <2>2
  <2> QED
    BY <2>5, <2>6, <2>7
<1>8. ASSUME NEW t \in Threads, NEW what, NEW operation,
             Ready(t, "idle") \/ Ready(t, "made"), Start(t, what, operation), UNCHANGED cell,
             operation.at \in {"over", "lockThis", "lockRhs"},
             operation.at = "lockRhs" => cell[operation.this].raw = None,
             doing[t] = "made" => operation.kind = "move" \/ cell[Temp].raw = None
      PROVE  Rest'
  <2>1. /\ op[t] = NoOp /\ op' = [op EXCEPT ![t] = operation] /\ doing' = [doing EXCEPT ![t] = what]
    BY <1>8 DEF Ready, Start
  <2>2. Known'
    BY <1>8, <1>a
  <2>3. \A s \in Threads : Empty(s)'
    BY <1>8, <1>a, <2>1
  <2>4. Spare'
    BY <1>8, <1>a, <1>b, <1>c, <2>1
  <2> QED
    BY <2>2, <2>3, <2>4
<1>9. ASSUME NEW this \in Cells, NEW rhs \in Cells, NEW kind \in {"move", "copy"}
      PROVE  /\ Assignment(kind, this, rhs).at \in {"over", "lockThis", "lockRhs"}
             /\ Assignment(kind, this, rhs).at = "lockRhs"
                  => cell[Assignment(kind, this, rhs).this].raw = None
             /\ Assignment(kind, this, rhs).kind = kind \/ cell[rhs].raw = None
             /\ Reset(this).at \in {"over", "lockThis"}
  BY <1>c DEF Assignment, Reset, Locking
<1> HIDE DEF Known, Empty, Spare
<1>10. ASSUME NEW t \in Threads, Drop(t) PROVE Rest'
  BY <1>8, <1>9, <1>10 DEF Drop, Ready, Threads, Cells, memory
<1>11. ASSUME NEW r \in Readers, Read(r) PROVE Rest'
  BY <1>8, <1>9, <1>11 DEF Read, Ready, Threads, Cells, memory
<1>12. ASSUME Keep PROVE Rest'
  <2>1. /\ Ready(Writer, "made") /\ UNCHANGED cell
        /\ Start(Writer, "keep", Assignment("move", Writer, Temp))
    BY <1>12 DEF Keep, memory
  <2> QED
    BY <1>8, <1>9, <1>b, <2>1 DEF Ready, Cells
<1>13. ASSUME Write PROVE Rest'
  <2>1. /\ Ready(Writer, "idle") /\ UNCHANGED cell
        /\ Start(Writer, "write", Assignment("copy", Slot, Writer))
    BY <1>13 DEF Write, memory
  <2> QED
    BY <1>8, <1>9, <1>b, <2>1 DEF Ready, Cells
<1>14. ASSUME Destroy PROVE Rest'
  <2>1. Ready(Writer, "idle") /\ UNCHANGED cell /\ Start(Writer, "destroy", Reset(Slot))
    BY <1>14 DEF Destroy, memory
  <2> QED
    BY <1>8, <1>9, <1>b, <2>1 DEF Ready, Cells
<1>15. ASSUME NEW t \in Threads, Finish(t) PROVE Rest'
  BY <1>1, <1>15, <1>a DEF Finish, Ready, memory
<1>16. ASSUME NEW r \in Readers, HaveRead(r) PROVE Rest'
  BY <1>1, <1>16, <1>a DEF HaveRead, Ready, memory, Threads
<1>17. ASSUME Written PROVE Rest'
  BY <1>1, <1>17, <1>a DEF Written, Ready, memory
<1>18. ASSUME UNCHANGED vars PROVE Rest'
  BY <1>1, <1>18 DEF vars, memory, users
<1>19. Rest'
  BY <1>2, <1>3, <1>4, <1>5, <1>6, <1>7, <1>10, <1>11, <1>12, <1>13, <1>14, <1>15,
     <1>16, <1>17, <1>18 DEF Next, Operate
<1> QED
  BY <1>19, AliveNext DEF Pointers, Alive

-----------------------------------------------------------------------------
Counted == Shape /\ Pointers /\ Exact

LEMMA CountedInit == Init => Counted
<1> SUFFICES ASSUME Init PROVE Exact
  BY ShapeInit DEF Counted
<1>1. \A o \in Objects : Pointing(o) = {}
  BY PointerAssumption DEF Init, Pointing, Null
<1> QED
  BY <1>1, FS_EmptySet DEF Init, Exact

LEMMA CountedNext == Counted /\ [Next]_vars => Counted'
  BY ShapeNext, PointersNext, ExactNext DEF Counted

LEMMA AlwaysCounted == Spec => []Counted
  BY CountedInit, CountedNext, PTL DEF Spec

LEMMA CountedExact == Counted => CountIsExact
<1> SUFFICES ASSUME Counted PROVE CountIsExact
  OBVIOUS
<1>1. \A o \in Objects : count[o] = Cardinality(Pointing(o))
  BY DEF Counted, Exact
<1>2. count \in [Objects -> 0 .. Cardinality(Cells)]
  BY <1>1, CellsFinite DEF Counted, Exact
<1>3. \A t \in Threads : op[t].mutex \in Objects \cup {None}
  BY DEF Counted, Shape, Operations
<1>4. cell \in [Cells -> [raw : Objects \cup {None}, mutex : Objects \cup {None}]]
  BY DEF Counted, Shape
<1> QED
  BY <1>1, <1>2, <1>3, <1>4 DEF Counted, Shape, CountIsExact, TypeOK, Pointing

(* The counter of an object is the number of pointers to it, whatever copies, *)
(* moves, releases and destructors interleave, and every variable has its     *)
(* type (shm_shared_ptr.hpp:211).                                             *)
THEOREM CountsAreExact == Spec => []CountIsExact
  BY AlwaysCounted, CountedExact, PTL

-----------------------------------------------------------------------------
(* A pointer that is empty is nobody's owner. *)
LEMMA OwnsNothingIff ==
  ASSUME NEW c \in Cells, None \notin Objects, cell[c].raw = None
  PROVE  Ownership!OwnsNothing(c)
  BY DEF Ownership!OwnsNothing

LEMMA RefinesInit == Init => Ownership!Init
  BY PointerAssumption DEF Init, Null, Ownership!Init

(* Every step on the memory is one of the promise, or none. *)
LEMMA RefinesNext ==
  ASSUME Counted, [Next]_vars
  PROVE  [Ownership!Next]_(Ownership!vars)
<1> DEFINE owners == [o \in Objects |-> {c \in Cells : cell[c].raw = o}]
<1>0. /\ MemoryStep /\ Shape /\ Exact /\ None \notin Objects
      /\ count \in [Objects -> Nat]
  BY MemorySteps, PointerAssumption DEF Counted, Exact
<1>a. \A o \in Objects : owners[o] = Pointing(o)
  BY DEF Pointing
<1>1. CASE Keeps
  <2>1. owners' = owners /\ UNCHANGED <<made, freed>>
    BY <1>1 DEF Keeps
  <2> QED
    BY <2>1 DEF Ownership!vars
<1>2. ASSUME NEW o \in Objects, NEW c \in Cells, Makes(o, c) PROVE Ownership!Make(o, c)
  <2>1. Pointing(o) = {} /\ Ownership!OwnsNothing(c)
    BY <1>0, <1>2, OwnsNothingIff DEF Makes, Pointing, Shape
  <2>2. \A x \in Objects : {d \in Cells : cell'[d].raw = x}
                             = IF x = o THEN {c} ELSE {d \in Cells : cell[d].raw = x}
    BY <1>0, <1>2, <2>1 DEF Makes, Points, Pointing
  <2>3. owners' = [owners EXCEPT ![o] = {c}]
    BY <2>2
  <2> QED
    BY <1>2, <2>1, <2>3 DEF Makes, Ownership!Make
<1>3. ASSUME NEW o \in Objects, NEW c \in Cells, Shares(o, c) PROVE Ownership!Share(o, c)
  <2>1. owners[o] # {} /\ Ownership!OwnsNothing(c)
    BY <1>0, <1>3, OwnsNothingIff DEF Shares
  <2>2. \A x \in Objects : {d \in Cells : cell'[d].raw = x}
                             = IF x = o THEN {d \in Cells : cell[d].raw = x} \cup {c}
                               ELSE {d \in Cells : cell[d].raw = x}
    BY <1>0, <1>3 DEF Shares, Points
  <2>3. owners' = [owners EXCEPT ![o] = @ \cup {c}]
    BY <2>2
  <2> QED
    BY <1>3, <2>1, <2>3 DEF Shares, Ownership!Share
<1>4. ASSUME NEW o \in Objects, NEW c \in Cells, NEW d \in Cells, Moves(o, c, d)
      PROVE  Ownership!Transfer(o, c, d)
  <2>1. c \in owners[o] /\ Ownership!OwnsNothing(d)
    BY <1>0, <1>4, OwnsNothingIff DEF Moves
  <2>2. \A x \in Objects : {b \in Cells : cell'[b].raw = x}
                             = IF x = o THEN ({b \in Cells : cell[b].raw = x} \ {c}) \cup {d}
                               ELSE {b \in Cells : cell[b].raw = x}
    BY <1>0, <1>4 DEF Moves
  <2>3. owners' = [owners EXCEPT ![o] = (@ \ {c}) \cup {d}]
    BY <2>2
  <2> QED
    BY <1>4, <2>1, <2>3 DEF Moves, Ownership!Transfer
<1>5. ASSUME NEW o \in Objects, NEW c \in Cells, Releases(o, c) PROVE Ownership!Release(o, c)
  <2>1. c \in owners[o] /\ (count[o] = 1 <=> owners[o] = {c})
    BY <1>0, <1>5, <1>a, LastOne DEF Releases
  <2>2. \A x \in Objects : {d \in Cells : cell'[d].raw = x}
                             = IF x = o THEN {d \in Cells : cell[d].raw = x} \ {c}
                               ELSE {d \in Cells : cell[d].raw = x}
    BY <1>0, <1>5 DEF Releases, Points
  <2>3. owners' = [owners EXCEPT ![o] = @ \ {c}]
    BY <2>2
  <2> QED
    BY <1>5, <2>1, <2>3 DEF Releases, Ownership!Release
<1> QED
  BY <1>0, <1>1, <1>2, <1>3, <1>4, <1>5 DEF MemoryStep, Ownership!Next

(* An object is freed once, in the step in which the last pointer to it goes, *)
(* and nobody comes to point to it again (shm_shared_ptr.hpp:211).            *)
THEOREM ImplementsOwnership == Spec => Implements
<1>1. Counted /\ [Next]_vars => [Ownership!Next]_(Ownership!vars)
  BY RefinesNext
<1> QED
  BY RefinesInit, AlwaysCounted, <1>1, PTL DEF Spec, Implements, Ownership!Spec

-----------------------------------------------------------------------------
LEMMA ItemsNext ==
  ASSUME Shape, Items, [Next]_vars
  PROVE  Items'
<1> USE DEF Items
<1>0. /\ doing \in [Threads -> Whats] /\ Writer \in Threads /\ Readers \subseteq Threads
      /\ None \notin Threads /\ Writer \notin Readers
  BY PointerAssumption DEF Shape, Threads, Cells
<1>1. CASE UNCHANGED <<item, doing>>
  BY <1>1
<1>2. ASSUME NEW t \in Threads, Operate(t) PROVE Items'
  BY <1>1, <1>2 DEF Operate, Lock, Decrease, UnlockThis, Copy, UnlockRhs, users
<1>3. ASSUME NEW t \in Threads, Drop(t) \/ Finish(t) PROVE Items'
  BY <1>0, <1>3 DEF Drop, Finish, Ready, Start
<1>4. ASSUME NEW r \in Readers, Read(r) \/ HaveRead(r) PROVE Items'
  BY <1>0, <1>4 DEF Read, HaveRead, Ready, Start
<1>5. CASE Make \/ Keep \/ Destroy
  BY <1>0, <1>5 DEF Make, Keep, Destroy, Ready, Start
<1>6. CASE Write \/ Written
  BY <1>0, <1>6 DEF Write, Written, Ready, Start
<1>7. CASE UNCHANGED vars
  BY <1>1, <1>7 DEF vars, users
<1> QED
  BY <1>2, <1>3, <1>4, <1>5, <1>6, <1>7 DEF Next

(* A thread in an operation changes the pointers of that operation and no other's. *)
LEMMA Locality ==
  ASSUME Shape, NEW t \in Threads, Operate(t)
  PROVE  /\ UNCHANGED users /\ op[t].at # "over"
         /\ \A s \in Threads \ {t} : op'[s] = op[s]
         /\ \A c \in Cells :
              c # op[t].this /\ ~(op[t].kind = "move" /\ c = Temp) => cell'[c] = cell[c]
<1>1. /\ UNCHANGED users /\ op[t].at # "over"
      /\ \A s \in Threads \ {t} : op'[s] = op[s]
  BY DEF Operate, Lock, Decrease, UnlockThis, Copy, UnlockRhs, Break, Step, Over, Shape
<1>2. /\ op[t].this \in Cells
      /\ op[t].kind = "move" => op[t].rhs = Temp
  BY <1>1, OperationCells DEF Shape, Task
<1>3. \A c \in Cells :
        c # op[t].this /\ ~(op[t].kind = "move" /\ c = Temp) => cell'[c] = cell[c]
  BY <1>2 DEF Operate, Lock, Decrease, UnlockThis, Copy, UnlockRhs, Break, memory, Shape
<1> QED
  BY <1>1, <1>3

(* What a thread relies on stays so while others leave its pointers and its *)
(* mutex alone.                                                             *)
LEMMA HeldStays ==
  ASSUME Shape, NEW s \in Threads, Held(s), op'[s] = op[s],
         op[s].at # "over" => /\ cell'[op[s].this] = cell[op[s].this]
                              /\ op[s].kind # "reset" => cell'[op[s].rhs] = cell[op[s].rhs],
         \A x \in Objects : owner[x] = s => owner'[x] = s /\ (x \notin freed => x \notin freed')
  PROVE  Held(s)'
<1>1. CASE op[s].at = "over"
  BY <1>1 DEF Held
<1>2. CASE op[s].at # "over"
  <2>1. /\ op[s].this \in Cells /\ (op[s].kind # "reset" => op[s].rhs \in Cells)
        /\ op[s].at \notin {"lockThis", "decrease", "unlockThis"} => op[s].kind # "reset"
    BY <1>2, OperationCells
  <2>2. \A c \in Cells : /\ cell[c].raw # None => cell[c].raw \in Objects
                         /\ cell[c].mutex # None => cell[c].mutex \in Objects
    BY DEF Shape
  <2> QED
    BY <1>2, <2>1, <2>2 DEF Held
<1> QED
  BY <1>1, <1>2

(* As long as no read() meets ~LocalWriter, the pointers an operation is about are *)
(* changed by nobody else.                                                         *)
LEMMA OwnPointers ==
  ASSUME Shape, Items, NEW s \in Threads, NEW t \in Threads, s # t,
         op[s].at # "over", op[t].at # "over",
         doing[Writer] = "destroy" => \A r \in Readers : doing[r] # "read"
  PROVE  /\ op[s].this # op[t].this /\ ~(op[t].kind = "move" /\ op[s].this = Temp)
         /\ op[s].kind # "reset" =>
              op[s].rhs # op[t].this /\ ~(op[t].kind = "move" /\ op[s].rhs = Temp)
<1>1. op[s].this # op[t].this
  BY DifferentPointers
<1>2. Task(s) /\ Task(t) /\ op[s] # NoOp /\ op[t] # NoOp
  BY DEF Shape, NoOp
<1>3. doing[Writer] \in {"write", "destroy"} => \A r \in Readers : doing[r] # "read"
  BY PointerAssumption DEF Items, Threads
<1> QED
  BY <1>1, <1>2, <1>3, PointerAssumption DEF Task, Threads, Cells

Safe == Shape /\ Pointers /\ Exact /\ Items /\ Guarded

LEMMA OperateGuarded ==
  ASSUME Safe, ~raced, ~broken, NEW t \in Threads, Operate(t)
  PROVE  ~broken' /\ \A s \in Threads : Held(s)'
<1> USE PointerAssumption
<1> DEFINE this == op[t].this
           rhs == op[t].rhs
<1>1. /\ Shape /\ Alive /\ Known /\ Items /\ \A s \in Threads : Held(s)
      /\ doing[Writer] = "destroy" => \A r \in Readers : doing[r] # "read"
  BY DEF Safe, Pointers, Guarded
<1>2. /\ op[t].at # "over" /\ \A s \in Threads \ {t} : op'[s] = op[s]
      /\ \A c \in Cells : c # this /\ ~(op[t].kind = "move" /\ c = Temp) => cell'[c] = cell[c]
  BY <1>1, Locality
<1>3. /\ this \in Cells /\ op[t].kind \in {"move", "copy", "reset"}
      /\ op[t].kind # "reset" => rhs \in Cells /\ rhs # this
      /\ op[t].at \notin {"lockThis", "decrease", "unlockThis"} => op[t].kind # "reset"
  BY <1>1, <1>2, OperationCells
<1>4. /\ op \in [Threads -> Operations] /\ owner \in [Objects -> Threads \cup {None}]
      /\ cell \in [Cells -> [raw : Objects \cup {None}, mutex : Objects \cup {None}]]
      /\ None \notin Objects /\ None \notin Threads
  BY <1>1 DEF Shape, Cells
<1>5. Held(t) /\ (cell[this].raw # None => cell[this].raw \in Objects \ freed /\ cell[this].mutex = cell[this].raw)
      /\ (op[t].kind # "reset" /\ cell[rhs].raw # None
            => cell[rhs].raw \in Objects \ freed /\ cell[rhs].mutex = cell[rhs].raw)
  BY <1>1, <1>3, <1>4 DEF Alive, Known
<1>6. ASSUME ~broken', Held(t)',
             \A x \in Objects : \A s \in Threads \ {t} :
               owner[x] = s => owner'[x] = s /\ (x \notin freed => x \notin freed')
      PROVE  ~broken' /\ \A s \in Threads : Held(s)'
  <2> SUFFICES ASSUME NEW s \in Threads \ {t} PROVE Held(s)'
    BY <1>6
  <2>1. CASE op[s].at = "over"
    BY <1>1, <1>2, <1>6, <2>1, HeldStays
  <2>2. CASE op[s].at # "over"
    <3>1. /\ op[s].this \in Cells
          /\ op[s].kind # "reset" => op[s].rhs \in Cells
      BY <1>1, <2>2, OperationCells
    <3>3. /\ cell'[op[s].this] = cell[op[s].this]
          /\ op[s].kind # "reset" => cell'[op[s].rhs] = cell[op[s].rhs]
      BY <1>1, <1>2, <2>2, <3>1, OwnPointers
    <3> QED
      BY <1>1, <1>2, <1>6, <3>3, HeldStays
  <2> QED
    BY <2>1, <2>2
<1>7. CASE Lock(t)
  <2> DEFINE m == op[t].mutex
  <2>1. /\ m \in Objects \ freed
        /\ op[t].at = "lockThis" => m = cell[this].raw
        /\ op[t].at = "lockRhs" => m = cell[rhs].raw
        /\ op[t].at \in {"lockThis", "lockRhs"}
    BY <1>3, <1>4, <1>5, <1>7 DEF Held, Lock
  <2>2. /\ owner[m] = None /\ UNCHANGED <<cell, freed, broken>>
        /\ owner' = [o \in Objects |-> IF o = m THEN t ELSE owner[o]]
        /\ op' = [op EXCEPT ![t].at = IF op[t].at = "lockThis" THEN "decrease" ELSE "copy"]
    BY <1>4, <1>7, <2>1 DEF Lock, Break, Step
  <2>3. Held(t)'
    BY <1>3, <1>4, <1>5, <2>1, <2>2 DEF Held, Operations
  <2>4. \A x \in Objects : \A s \in Threads \ {t} : owner[x] = s => owner'[x] = s
    BY <1>4, <2>1, <2>2
  <2> QED
    BY <1>6, <2>2, <2>3, <2>4
<1>8. CASE Decrease(t)
  <2> DEFINE o == cell[this].raw
  <2>1. o \in Objects \ freed /\ cell[this].mutex = o /\ owner[o] = t /\ op[t].at = "decrease"
    BY <1>5, <1>8 DEF Held, Decrease
  <2>2. /\ op' = [op EXCEPT ![t].at = "unlockThis"] /\ UNCHANGED broken
        /\ \/ /\ freed' = freed \cup {o} /\ owner' = [owner EXCEPT ![o] = None]
              /\ cell' = [cell EXCEPT ![this] = Null]
           \/ /\ UNCHANGED <<owner, freed>> /\ cell' = [cell EXCEPT ![this].raw = None]
    BY <1>4, <1>8, <2>1 DEF Decrease, Break, Step
  <2>3. /\ cell'[this].raw = None
        /\ cell'[this].mutex = None \/ (cell'[this].mutex = o /\ UNCHANGED <<owner, freed>>)
    BY <1>3, <1>4, <2>1, <2>2 DEF Null
  <2>4. op[t].kind # "reset" => cell'[rhs] = cell[rhs] /\ cell[rhs].raw # None
    BY <1>3, <1>4, <1>5, <2>1, <2>2 DEF Held
  <2>5. /\ op'[t].at = "unlockThis" /\ op'[t].this = this /\ op'[t].rhs = rhs
        /\ op'[t].kind = op[t].kind
    BY <1>4, <2>2 DEF Operations
  <2>6. Held(t)'
    BY <2>1, <2>3, <2>4, <2>5 DEF Held
  <2>7. \A x \in Objects : \A s \in Threads \ {t} :
          owner[x] = s => owner'[x] = s /\ (x \notin freed => x \notin freed')
    BY <1>4, <2>1, <2>2
  <2> QED
    BY <1>6, <2>2, <2>6, <2>7
<1>9. CASE UnlockThis(t)
  <2> DEFINE m == cell[this].mutex
  <2>1. Unlockable(t, m) /\ op[t].at = "unlockThis" /\ (m = None \/ (m \in Objects /\ owner[m] = t))
    BY <1>3, <1>4, <1>5, <1>9 DEF Held, UnlockThis, Unlockable
  <2>2. /\ owner' = [o \in Objects |-> IF o = m THEN None ELSE owner[o]]
        /\ UNCHANGED <<freed, broken>>
        /\ \/ op[t].kind = "reset" /\ op' = [op EXCEPT ![t] = NoOp]
           \/ /\ op[t].kind # "reset" /\ UNCHANGED cell
              /\ op' = [op EXCEPT ![t].at = "lockRhs", ![t].mutex = cell[rhs].mutex]
    BY <1>9, <2>1 DEF UnlockThis, Unlocked, Over
  <2>3. Held(t)'
    <3>1. CASE op'[t] = NoOp
      BY <3>1 DEF Held, NoOp
    <3>2. CASE op'[t] # NoOp
      <4>1. /\ op[t].kind # "reset" /\ UNCHANGED cell
            /\ op'[t].at = "lockRhs" /\ op'[t].mutex = cell[rhs].mutex
            /\ op'[t].rhs = rhs
        BY <1>4, <2>2, <3>2 DEF Operations
      <4>2. cell[rhs].raw # None /\ cell[rhs].mutex = cell[rhs].raw
        BY <1>5, <2>1, <4>1 DEF Held
      <4> QED
        BY <4>1, <4>2 DEF Held
    <3> QED
      BY <3>1, <3>2
  <2>4. \A x \in Objects : \A s \in Threads \ {t} : owner[x] = s => owner'[x] = s
    BY <1>4, <2>1, <2>2
  <2> QED
    BY <1>6, <2>2, <2>3, <2>4
<1>10. CASE Copy(t)
  <2>1. /\ op[t].at = "copy" /\ cell[rhs].raw \in Objects \ freed /\ owner[cell[rhs].raw] = t
        /\ op[t].kind # "reset"
    BY <1>3, <1>5, <1>10 DEF Held, Copy
  <2>2. /\ op' = [op EXCEPT ![t].at = "unlockRhs"] /\ UNCHANGED <<owner, freed, broken>>
        /\ IF op[t].kind = "move" THEN cell' = [cell EXCEPT ![this] = cell[rhs], ![rhs] = Null]
           ELSE cell' = [cell EXCEPT ![this] = cell[rhs]]
    BY <1>10, <2>1 DEF Copy, Break, Step
  <2>3. /\ op'[t].at = "unlockRhs" /\ op'[t].this = this /\ op'[t].rhs = rhs
        /\ op'[t].kind = op[t].kind
    BY <1>4, <2>2 DEF Operations
  <2>4. cell'[IF op[t].kind = "move" THEN this ELSE rhs] = cell[rhs]
    BY <1>3, <1>4, <2>1, <2>2
  <2>5. Held(t)'
    BY <1>4, <2>1, <2>2, <2>3, <2>4 DEF Held
  <2> QED
    BY <1>6, <2>2, <2>5
<1>11. CASE UnlockRhs(t)
  <2> DEFINE moved == IF op[t].kind = "move" THEN this ELSE rhs
             m == cell[moved].mutex
  <2>1. /\ op[t].at = "unlockRhs" /\ m \in Objects \ freed /\ owner[m] = t
    BY <1>3, <1>5, <1>11 DEF Held, UnlockRhs
  <2>2. /\ owner' = [o \in Objects |-> IF o = m THEN None ELSE owner[o]]
        /\ UNCHANGED <<cell, freed, broken>> /\ op' = [op EXCEPT ![t] = NoOp]
    BY <1>4, <1>11, <2>1 DEF UnlockRhs, Unlockable, Unlocked, Over
  <2>3. Held(t)'
    BY <1>4, <2>2 DEF Held, NoOp
  <2>4. \A x \in Objects : \A s \in Threads \ {t} : owner[x] = s => owner'[x] = s
    BY <1>4, <2>1, <2>2
  <2> QED
    BY <1>6, <2>2, <2>3, <2>4
<1> QED
  BY <1>7, <1>8, <1>9, <1>10, <1>11 DEF Operate

(* The beginnings of operations find what they need. *)
LEMMA StartHeld ==
  ASSUME Safe, ~raced, ~raced', NEW t \in Threads, NEW what, NEW operation,
         op[t] = NoOp, op' = [op EXCEPT ![t] = operation], UNCHANGED memory,
         \/ operation = NoOp
         \/ \E this \in Cells : operation = Reset(this)
         \/ \E this \in Cells, rhs \in Cells, kind \in {"move", "copy"} :
              operation = Assignment(kind, this, rhs)
  PROVE  \A s \in Threads : Held(s)'
<1>1. /\ Known /\ op \in [Threads -> Operations] /\ \A s \in Threads : Held(s)
  BY DEF Safe, Pointers, Guarded, Shape
<1>2. ASSUME NEW s \in Threads \ {t} PROVE Held(s)'
  BY <1>1 DEF Held, memory
<1>3. Held(t)'
  <2>1. op'[t] = operation /\ UNCHANGED <<cell, owner, freed>>
    BY <1>1 DEF memory
  <2>2. CASE operation = NoOp
    BY <2>1, <2>2 DEF Held, NoOp
  <2>3. ASSUME NEW this \in Cells, operation = Reset(this), operation # NoOp PROVE Held(t)'
    BY <1>1, <2>1, <2>3 DEF Held, Known, Reset, Locking
  <2>4. ASSUME NEW this \in Cells, NEW rhs \in Cells, NEW kind \in {"move", "copy"},
               operation = Assignment(kind, this, rhs), operation # NoOp
        PROVE  Held(t)'
    <3>1. /\ operation.kind = kind /\ operation.this = this /\ operation.rhs = rhs
          /\ cell[rhs].raw # None
          /\ \/ operation.at = "lockThis" /\ operation.mutex = cell[this].mutex /\ cell[this].raw # None
             \/ operation.at = "lockRhs" /\ operation.mutex = cell[rhs].mutex
      BY <2>4 DEF Assignment, Locking
    <3>2. /\ cell[rhs].mutex = cell[rhs].raw
          /\ cell[this].raw # None => cell[this].mutex = cell[this].raw
      BY <1>1, <3>1 DEF Known
    <3> QED
      BY <2>1, <3>1, <3>2 DEF Held
  <2> QED
    BY <2>2, <2>3, <2>4
<1> QED
  BY <1>2, <1>3

LEMMA GuardedNext ==
  ASSUME Safe, [Next]_vars
  PROVE  Guarded'
<1> SUFFICES ASSUME ~raced'
             PROVE  /\ ~broken'
                    /\ doing'[Writer] = "destroy" => \A r \in Readers : doing'[r] # "read"
                    /\ \A t \in Threads : Held(t)'
  BY DEF Guarded
<1>1. ~raced
  BY DEF Next, Operate, Lock, Decrease, UnlockThis, Copy, UnlockRhs, Drop, Finish, Read, HaveRead,
     Make, Keep, Write, Written, Destroy, vars, users
<1>2. /\ ~broken /\ \A s \in Threads : Held(s)
      /\ doing[Writer] = "destroy" => \A r \in Readers : doing[r] # "read"
      /\ doing \in [Threads -> Whats] /\ op \in [Threads -> Operations]
  BY <1>1 DEF Safe, Guarded, Shape
<1>3. Writer \in Threads /\ Readers \subseteq Threads /\ Threads \subseteq Cells /\ Writer \notin Readers
      /\ Temp \in Cells /\ Slot \in Cells
  BY PointerAssumption DEF Threads, Cells
<1> DEFINE Goal == /\ ~broken'
                   /\ doing'[Writer] = "destroy" => \A r \in Readers : doing'[r] # "read"
                   /\ \A t \in Threads : Held(t)'
<1>4. ASSUME UNCHANGED <<cell, owner, freed, op, broken>> PROVE ~broken' /\ \A t \in Threads : Held(t)'
  BY <1>2, <1>4 DEF Held
<1>5. ASSUME NEW t \in Threads, Operate(t) PROVE Goal
  <2>1. ~broken' /\ \A s \in Threads : Held(s)'
    BY <1>1, <1>2, <1>5, OperateGuarded
  <2>2. UNCHANGED doing
    BY <1>5 DEF Operate, Lock, Decrease, UnlockThis, Copy, UnlockRhs, users
  <2> QED
    BY <1>2, <2>1, <2>2
<1>6. ASSUME NEW t \in Threads, Drop(t) PROVE Goal
  <2>1. \A s \in Threads : Held(s)'
    BY <1>1, <1>3, <1>6, StartHeld DEF Drop, Ready, Start
  <2> QED
    BY <1>2, <1>3, <1>6, <2>1 DEF Drop, Start, Ready
<1>7. ASSUME NEW t \in Threads, Finish(t) PROVE Goal
  BY <1>2, <1>3, <1>4, <1>7 DEF Finish, memory
<1>8. ASSUME NEW r \in Readers, Read(r) PROVE Goal
  <2>1. /\ op[r] = NoOp /\ op' = [op EXCEPT ![r] = Assignment("copy", r, Slot)] /\ UNCHANGED memory
        /\ UNCHANGED broken /\ doing' = [doing EXCEPT ![r] = "read"] /\ doing[Writer] # "destroy"
    BY <1>8 DEF Read, Ready, Start
  <2>2. \A s \in Threads : Held(s)'
    BY <1>1, <1>3, <2>1, StartHeld
  <2> QED
    BY <1>2, <1>3, <2>1, <2>2
<1>9. ASSUME NEW r \in Readers, HaveRead(r) PROVE Goal
  BY <1>2, <1>3, <1>4, <1>9 DEF HaveRead, memory
<1>10. ASSUME Make PROVE Goal
  <2>1. PICK o \in Objects : cell' = [cell EXCEPT ![Temp] = [raw |-> o, mutex |-> o]]
    BY <1>10 DEF Make
  <2>2. /\ op[Writer] = NoOp /\ UNCHANGED <<owner, freed, op, broken>>
        /\ doing' = [doing EXCEPT ![Writer] = "made"]
    BY <1>10 DEF Make, Ready
  <2>3. ASSUME NEW s \in Threads PROVE Held(s)'
    <3>1. CASE op[s].at = "over"
      BY <2>2, <3>1 DEF Held
    <3>2. CASE op[s].at # "over"
      <4>1. s \in Readers /\ Task(s) /\ op[s] # NoOp
        BY <2>2, <3>2 DEF NoOp, Threads, Safe, Shape
      <4>2. (op[s].this # Temp /\ op[s].rhs # Temp) \/ op[s].kind = "reset"
        BY <4>1, PointerAssumption DEF Task, Threads, Cells
      <4>3. op[s].this \in Cells /\ op[s].this # Temp /\ (op[s].kind # "reset" => op[s].rhs \in Cells)
        BY <3>2, <4>1, OperationCells, PointerAssumption DEF Safe
      <4>4. /\ cell'[op[s].this] = cell[op[s].this]
            /\ op[s].kind # "reset" => cell'[op[s].rhs] = cell[op[s].rhs]
        BY <2>1, <4>2, <4>3 DEF Safe, Shape
      <4> QED
        BY <1>2, <2>2, <3>2, <4>4, HeldStays DEF Safe
    <3> QED
      BY <3>1, <3>2
  <2> QED
    BY <1>2, <2>2, <2>3
<1>11. ASSUME Keep PROVE Goal
  <2>1. /\ op[Writer] = NoOp /\ op' = [op EXCEPT ![Writer] = Assignment("move", Writer, Temp)]
        /\ UNCHANGED memory /\ UNCHANGED broken /\ doing' = [doing EXCEPT ![Writer] = "keep"]
    BY <1>11 DEF Keep, Ready, Start
  <2>2. \A s \in Threads : Held(s)'
    BY <1>1, <1>3, <2>1, StartHeld
  <2> QED
    BY <1>2, <1>3, <2>1, <2>2
<1>12. ASSUME Write PROVE Goal
  <2>1. /\ op[Writer] = NoOp /\ op' = [op EXCEPT ![Writer] = Assignment("copy", Slot, Writer)]
        /\ UNCHANGED memory /\ UNCHANGED broken /\ doing' = [doing EXCEPT ![Writer] = "write"]
    BY <1>12 DEF Write, Ready, Start
  <2>2. \A s \in Threads : Held(s)'
    BY <1>1, <1>3, <2>1, StartHeld
  <2> QED
    BY <1>2, <1>3, <2>1, <2>2
<1>13. ASSUME Written PROVE Goal
  BY <1>2, <1>3, <1>4, <1>13 DEF Written, memory
<1>14. ASSUME Destroy PROVE Goal
  <2>1. /\ op[Writer] = NoOp /\ op' = [op EXCEPT ![Writer] = Reset(Slot)]
        /\ UNCHANGED memory /\ UNCHANGED broken /\ doing' = [doing EXCEPT ![Writer] = "destroy"]
        /\ Reading = {}
    BY <1>14 DEF Destroy, Ready, Start
  <2>2. \A s \in Threads : Held(s)'
    BY <1>1, <1>3, <2>1, StartHeld
  <2> QED
    BY <1>2, <1>3, <2>1, <2>2 DEF Reading
<1>15. ASSUME UNCHANGED vars PROVE Goal
  BY <1>2, <1>4, <1>15 DEF vars, memory, users
<1> QED
  BY <1>5, <1>6, <1>7, <1>8, <1>9, <1>10, <1>11, <1>12, <1>13, <1>14, <1>15 DEF Next

LEMMA SafeNext == Safe /\ [Next]_vars => Safe'
  BY ShapeNext, PointersNext, ExactNext, ItemsNext, GuardedNext DEF Safe

LEMMA SafeInit == Init => Safe
<1> SUFFICES ASSUME Init PROVE Items /\ Guarded
  BY CountedInit DEF Counted, Safe
<1>1. Items
  BY PointerAssumption DEF Init, Items, Threads, Cells
<1>2. Guarded
  BY DEF Init, Guarded, Held, NoOp, Threads
<1> QED
  BY <1>1, <1>2

LEMMA AlwaysSafe == Spec => []Safe
  BY SafeInit, SafeNext, PTL DEF Spec

(* Nobody touches or waits for what is freed, follows a null pointer or gives *)
(* back a mutex it does not hold, while ~LocalWriter does not empty the slot  *)
(* under a read() (local_channal.hpp:190).                                    *)
THEOREM SharedPointersAreSafe == Spec => []SafeUse
<1>1. ASSUME Safe PROVE SafeUse
  <2> SUFFICES ASSUME ~raced, NEW t \in Threads, op[t].at \in {"lockThis", "lockRhs"}
               PROVE  op[t].mutex \notin freed
    BY <1>1 DEF Safe, Guarded, SafeUse
  <2>1. Held(t) /\ Alive
    BY <1>1 DEF Safe, Guarded, Pointers
  <2>2. /\ op[t].this \in Cells /\ (op[t].kind # "reset" => op[t].rhs \in Cells)
        /\ op[t].at = "lockRhs" => op[t].kind # "reset"
    BY <1>1, OperationCells DEF Safe
  <2> QED
    BY <2>1, <2>2 DEF Held, Alive
<1> QED
  BY AlwaysSafe, <1>1, PTL

-----------------------------------------------------------------------------
(* What an operation does to the pointers that carry messages. *)
LEMMA OperatePaired ==
  ASSUME Shape, Items, Paired, NEW t \in Threads, Operate(t)
  PROVE  Paired'
<1> USE PointerAssumption
<1>0. /\ UNCHANGED users /\ op[t].at # "over" /\ op[t] # NoOp
      /\ \A s \in Threads \ {t} : op'[s] = op[s]
      /\ \A c \in Cells :
           c # op[t].this /\ ~(op[t].kind = "move" /\ c = Temp) => cell'[c] = cell[c]
  BY Locality DEF NoOp
<1>1. /\ Writer \in Threads /\ Readers \subseteq Threads /\ Threads \subseteq Cells /\ Slot \in Cells
      /\ Slot # Temp /\ Slot \notin Threads /\ Writer \notin Readers /\ Temp \notin Threads
  BY DEF Threads, Cells
<1>2. Task(t) /\ op[t].this \in Cells /\ (op[t].kind # "reset" => op[t].rhs \in Cells)
  BY <1>0, OperationCells DEF Shape
<1>3. Log'
  BY <1>0 DEF Paired, Log, users
<1>4. SlotIsLast'
  <2> SUFFICES ASSUME doing[Writer] # "write" PROVE LastIs(cell'[Slot].raw)
    BY <1>0 DEF SlotIsLast, LastIs, users
  <2>1. LastIs(cell[Slot].raw)
    BY DEF Paired, SlotIsLast
  <2>2. CASE op[t].this # Slot
    BY <1>0, <1>1, <2>1, <2>2
  <2>3. CASE op[t].this = Slot
    <3>1. op[t].kind = "reset" /\ op[t].at \in {"lockThis", "decrease", "unlockThis"}
      BY <1>0, <1>1, <1>2, <2>3 DEF Task
    <3>2. \/ UNCHANGED cell
          \/ cell' = [cell EXCEPT ![Slot] = Null]
          \/ cell' = [cell EXCEPT ![Slot].raw = None]
          \/ cell' = [cell EXCEPT ![Slot].mutex = None]
      BY <2>3, <3>1 DEF Operate, Lock, Decrease, UnlockThis, Copy, UnlockRhs, Break, memory
    <3>3. cell'[Slot].raw \in {cell[Slot].raw, None}
      BY <1>1, <3>2 DEF Null, Shape
    <3> QED
      BY <2>1, <3>3 DEF LastIs
  <2> QED
    BY <2>2, <2>3
<1>5. ASSUME NEW r \in Readers PROVE ReadIsLast(r)' /\ Remembered(r)'
  <2>1. Remembered(r)'
    BY <1>0 DEF Paired, Remembered, users
  <2>2. CASE t # r
    <3>1. op[t].this # r
      BY <1>0, <1>1, <1>2, <2>2 DEF Task
    <3>2. cell'[r] = cell[r] /\ op'[r] = op[r]
      BY <1>0, <1>1, <2>2, <3>1
    <3> QED
      BY <1>0, <2>1, <3>2 DEF Paired, ReadIsLast, LastIs, users
  <2>3. CASE t = r
    <3> SUFFICES ASSUME doing[r] = "read", op'[r] = NoOp \/ op'[r].at = "unlockRhs"
                 PROVE  LastIs(cell'[r].raw)
      BY <1>0, <2>1 DEF Paired, ReadIsLast, LastIs, users
    <3>1. op[r].kind = "copy" /\ op[r].this = r /\ op[r].rhs = Slot
      BY <1>0, <1>1, <1>2, <2>3 DEF Task
    <3>2. doing[Writer] # "write"
      BY <1>1 DEF Items
    <3>3. \/ cell' = cell /\ op[r].at = "unlockRhs"
          \/ cell' = [cell EXCEPT ![r] = cell[Slot]]
      BY <1>0, <2>3, <3>1 DEF Operate, Lock, Decrease, UnlockThis, Copy, UnlockRhs, Break, Step, Over,
         memory, Shape, Operations, NoOp
    <3>4. CASE cell' = cell /\ op[r].at = "unlockRhs"
      BY <3>4 DEF Paired, ReadIsLast
    <3>5. CASE cell' = [cell EXCEPT ![r] = cell[Slot]]
      <4>1. cell'[r] = cell[Slot]
        BY <1>1, <3>5 DEF Shape
      <4> QED
        BY <3>2, <4>1 DEF Paired, SlotIsLast
    <3> QED
      BY <3>3, <3>4, <3>5
  <2> QED
    BY <2>1, <2>2, <2>3
<1> QED
  BY <1>3, <1>4, <1>5 DEF Paired

LEMMA PairedNext ==
  ASSUME Shape, Items, Paired, [Next]_vars
  PROVE  Paired'
<1> USE PointerAssumption
<1>0. /\ Log /\ SlotIsLast /\ \A r \in Readers : ReadIsLast(r) /\ Remembered(r)
      /\ doing \in [Threads -> Whats] /\ op \in [Threads -> Operations]
      /\ cell \in [Cells -> [raw : Objects \cup {None}, mutex : Objects \cup {None}]]
      /\ index \in Nat /\ idx_ \in [Readers -> Nat] /\ got \in [Readers -> Objects \cup {None}]
  BY DEF Paired, Shape
<1>1. /\ Writer \in Threads /\ Readers \subseteq Threads /\ Threads \subseteq Cells
      /\ Slot \in Cells /\ Slot # Temp /\ Writer \notin Readers /\ Temp \notin Readers
  BY DEF Threads, Cells
(* steps that neither read nor write *)
<1>2. ASSUME UNCHANGED <<index, idx_, got, written>>,
             UNCHANGED cell \/ \E x : cell' = [cell EXCEPT ![Temp] = x],
             doing'[Writer] # "write" => doing[Writer] # "write",
             \A r \in Readers : /\ doing'[r] = "read" <=> doing[r] = "read"
                                /\ doing[r] = "read" => op'[r] = op[r]
      PROVE  Paired'
  <2>1. cell'[Slot] = cell[Slot] /\ \A r \in Readers : cell'[r] = cell[r]
    BY <1>0, <1>1, <1>2
  <2> QED
    BY <1>0, <1>2, <2>1 DEF Paired, Log, SlotIsLast, ReadIsLast, Remembered, LastIs
<1>3. ASSUME NEW t \in Threads, Operate(t) PROVE Paired'
  BY <1>3, OperatePaired
<1>4. ASSUME NEW t \in Threads, Drop(t) PROVE Paired'
  <2>1. /\ UNCHANGED <<index, idx_, got, written>> /\ UNCHANGED cell
        /\ doing[t] = "idle" /\ doing' = [doing EXCEPT ![t] = "drop"]
        /\ \A s \in Threads \ {t} : op'[s] = op[s]
    BY <1>0, <1>4 DEF Drop, Ready, Start, memory
  <2> QED
    BY <1>0, <1>1, <1>2, <2>1
<1>5. ASSUME NEW t \in Threads, Finish(t) PROVE Paired'
  <2>1. /\ UNCHANGED <<index, idx_, got, written>> /\ UNCHANGED <<cell, op>>
        /\ doing[t] \in {"keep", "destroy", "drop"} /\ doing' = [doing EXCEPT ![t] = "idle"]
    BY <1>5 DEF Finish, Ready, memory
  <2> QED
    BY <1>0, <1>1, <1>2, <2>1
<1>6. CASE Make
  <2>1. /\ UNCHANGED <<index, idx_, got, written>> /\ UNCHANGED op
        /\ \E x : cell' = [cell EXCEPT ![Temp] = x]
        /\ doing[Writer] = "idle" /\ doing' = [doing EXCEPT ![Writer] = "made"]
    BY <1>6 DEF Make, Ready
  <2> QED
    BY <1>0, <1>1, <1>2, <2>1
<1>7. CASE Keep \/ Write \/ Destroy
  <2>1. /\ UNCHANGED <<index, idx_, got, written>> /\ UNCHANGED cell
        /\ doing[Writer] \in {"idle", "made"}
        /\ \E what \in {"keep", "write", "destroy"} : doing' = [doing EXCEPT ![Writer] = what]
        /\ \A s \in Threads \ {Writer} : op'[s] = op[s]
    BY <1>0, <1>7 DEF Keep, Write, Destroy, Ready, Start, memory
  <2> QED
    BY <1>0, <1>1, <1>2, <2>1
<1>8. CASE Written
  <2>1. /\ index' = index + 1 /\ written' = Append(written, cell[Slot].raw)
        /\ UNCHANGED <<cell, op, idx_, got>>
        /\ doing[Writer] = "write" /\ doing' = [doing EXCEPT ![Writer] = "idle"]
    BY <1>8 DEF Written, Ready, memory
  <2>2. written \in Seq(Objects \cup {None}) /\ Len(written) = index /\ cell[Slot].raw \in Objects \cup {None}
    BY <1>0, <1>1 DEF Log
  <2>3. /\ written' \in Seq(Objects \cup {None}) /\ Len(written') = index'
        /\ written'[index'] = cell[Slot].raw
        /\ \A i \in 1 .. index : written'[i] = written[i]
    BY <1>0, <2>1, <2>2
  <2>4. \A r \in Readers : doing[r] # "read" /\ doing'[r] = doing[r]
    BY <1>0, <1>1, <2>1 DEF Items
  <2>5. \A r \in Readers : Remembered(r)'
    BY <1>0, <2>1, <2>3, <2>4 DEF Remembered
  <2> QED
    BY <1>0, <2>1, <2>3, <2>4, <2>5 DEF Paired, Log, SlotIsLast, ReadIsLast, LastIs
<1>9. ASSUME NEW r \in Readers, Read(r) PROVE Paired'
  <2>1. /\ UNCHANGED <<cell, index, got, written>> /\ cell[r].raw = None
        /\ idx_' = [idx_ EXCEPT ![r] = index] /\ doing' = [doing EXCEPT ![r] = "read"]
        /\ \A s \in Threads \ {r} : op'[s] = op[s]
    BY <1>0, <1>9 DEF Read, Ready, Start, memory
  <2>2. Log' /\ SlotIsLast'
    BY <1>0, <1>1, <2>1 DEF Log, SlotIsLast, LastIs
  <2>3. ASSUME NEW s \in Readers PROVE ReadIsLast(s)' /\ Remembered(s)'
    <3>1. CASE s = r
      BY <1>0, <1>1, <2>1, <3>1 DEF ReadIsLast, Remembered, LastIs
    <3>2. CASE s # r
      BY <1>0, <1>1, <2>1, <3>2 DEF ReadIsLast, Remembered, LastIs
    <3> QED
      BY <3>1, <3>2
  <2> QED
    BY <2>2, <2>3 DEF Paired
<1>10. ASSUME NEW r \in Readers, HaveRead(r) PROVE Paired'
  <2>1. /\ UNCHANGED <<cell, op, index, idx_, written>> /\ doing[r] = "read" /\ op[r] = NoOp
        /\ got' = [got EXCEPT ![r] = cell[r].raw] /\ doing' = [doing EXCEPT ![r] = "idle"]
    BY <1>10 DEF HaveRead, Ready, memory
  <2>2. Log' /\ SlotIsLast'
    BY <1>0, <1>1, <2>1 DEF Log, SlotIsLast, LastIs
  <2>3. ASSUME NEW s \in Readers PROVE ReadIsLast(s)' /\ Remembered(s)'
    <3>1. CASE s = r
      BY <1>0, <1>1, <2>1, <3>1 DEF ReadIsLast, Remembered, LastIs
    <3>2. CASE s # r
      BY <1>0, <1>1, <2>1, <3>2 DEF ReadIsLast, Remembered, LastIs
    <3> QED
      BY <3>1, <3>2
  <2> QED
    BY <2>2, <2>3 DEF Paired
<1>11. CASE UNCHANGED vars
  BY <1>2, <1>11 DEF vars, memory, users
<1> QED
  BY <1>3, <1>4, <1>5, <1>6, <1>7, <1>8, <1>9, <1>10, <1>11 DEF Next

LEMMA PairedInit == Init => Paired
  BY PointerAssumption
  DEF Init, Paired, Log, SlotIsLast, ReadIsLast, Remembered, LastIs, Null, Threads, Cells

(* What read() returns and the index it remembers are what one write() left,   *)
(* even when ~LocalWriter empties the slot meanwhile: then nothing is returned *)
(* (local_channal.hpp:258).                                                    *)
THEOREM ReadsArePaired == Spec => []PairedRead
<1>1. Safe /\ Paired /\ [Next]_vars => (Safe /\ Paired)'
  BY SafeNext, PairedNext DEF Safe
<1>2. Paired => PairedRead
  BY DEF Paired, Remembered, PairedRead
<1> QED
  BY SafeInit, PairedInit, <1>1, <1>2, PTL DEF Spec
=============================================================================
