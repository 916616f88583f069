------------------------ MODULE NodeDirectory_proofs ------------------------
(***************************************************************************)
(* What TLAPS proves about a node's directory, for any number of visitors, *)
(* key files and segments: scans leave a living node alone.                *)
(***************************************************************************)
EXTENDS NodeDirectory, FiniteSetTheorems, TLAPS

(* Whoever makes and attaches a segment has taken a key for it. *)
Keyed ==
  /\ owner \in HoldsLock \cup {"keyed", "open"} => own.key \in Inodes
  /\ \A v \in Visitors : stage[v] \in HoldsLock \cup {"open", "lock"} => at[v].key \in Inodes

Types == TypeOK /\ Keyed

(* What the owner has reached, step by step. *)
Named   == HoldsLock \cup {"keyed", "open", "made", "sized", "up"}
HasNone == {"keyed", "open", "locked", "cleared"}
HasSegment == {"created", "made", "sized", "up"}
HasAttached == {"made", "sized", "up"}

(* An owner that nobody disturbs keeps the file that it made, and the segment *)
(* the file leads to.                                                         *)
Established ==
  /\ owner = "off" => file = Nothing
  /\ owner \in Named => own.key = file /\ file # Nothing
  /\ owner \in {"off"} \cup HasNone => \A k \in Inodes : lookup[k] = Nothing
  /\ owner \in HasSegment => lookup[file] # Nothing
  /\ owner \in HasAttached => own.seg = lookup[file]
  /\ owner = "sized" => content = "sized"
  /\ owner = "up" => content = "full"

(* No visitor has begun a scan before the owner is up. *)
Unvisited == owner # "up" => \A v \in Visitors : stage[v] \in {"new", "idle"}

(* Visitors then find the segment of the file, and never take the owner for   *)
(* dead, the file for empty or the segment for nobody's; none attaches what   *)
(* it has attached already.                                                   *)
Harmless ==
  \A v \in Visitors :
    /\ stage[v] \notin {"remove", "destroy", "mismatch", "crashed"} /\ why[v] # "dead"
    /\ stage[v] \in HoldsLock \cup {"map", "key", "open", "lock"} => kept[v].seg = Nothing
    /\ why[v] = "clear" => kept[v].seg = Nothing
    /\ stage[v] \in HoldsLock \cup {"open", "lock"} => at[v].key = file

Undisturbed == ~early /\ ~Ending => Established /\ Unvisited /\ Harmless

Inv == Types /\ Undisturbed

-----------------------------------------------------------------------------
(* get_key_ leads to a file; it makes none while there is one. *)
LEMMA KeyIsTaken ==
  ASSUME TypeOK, get_key_
  PROVE  /\ CurrentFile \in Inodes /\ CurrentFile = file'
         /\ file' \in Inodes \cup {Nothing} /\ content' \in {"none", "sized", "full"}
         /\ (file' = Nothing => content' = "none") /\ inodes' \in 0 .. MaxInodes
         /\ file # Nothing => UNCHANGED fs
<1> USE DirectoryAssumption DEF TypeOK, Inodes, Nothing
<1>1. CASE file = Nothing
  BY <1>1 DEF get_key_, CurrentFile
<1>2. CASE file # Nothing
  BY <1>2 DEF get_key_, CurrentFile, fs
<1> QED
  BY <1>1, <1>2

LEMMA DestroyType ==
  ASSUME TypeOK, NEW k \in Inodes \cup {Nothing}, destroy(k)
  PROVE  /\ lookup' \in [Inodes -> Segments \cup {Nothing}]
         /\ file' \in Inodes \cup {Nothing} /\ content' \in {"none", "sized", "full"}
         /\ (file' = Nothing => content' = "none")
         /\ inodes' \in 0 .. MaxInodes /\ segments' \in 0 .. MaxSegments
<1> USE DEF TypeOK, destroy
<1>1. lookup' \in [Inodes -> Segments \cup {Nothing}]
  OBVIOUS
<1>2. CASE lookup[k] = Nothing
  BY <1>1, <1>2
<1>3. CASE lookup[k] # Nothing
  BY <1>1, <1>3
<1> QED
  BY <1>2, <1>3

LEMMA CreateType ==
  ASSUME TypeOK, NEW k \in Inodes, create(k)
  PROVE  lookup' \in [Inodes -> Segments \cup {Nothing}] /\ segments' \in 0 .. MaxSegments
<1> USE DirectoryAssumption DEF TypeOK, create, Segments, Nothing
<1>1. CASE lookup[k] = Nothing
  BY <1>1
<1>2. CASE lookup[k] # Nothing
  BY <1>2
<1> QED
  BY <1>1, <1>2

LEMMA LeftoverType ==
  ASSUME TypeOK, NEW k \in Inodes \cup {Nothing}, DestroyLeftover(k)
  PROVE  /\ lookup' \in [Inodes -> Segments \cup {Nothing}]
         /\ file' \in Inodes \cup {Nothing} /\ content' \in {"none", "sized", "full"}
         /\ (file' = Nothing => content' = "none")
         /\ inodes' \in 0 .. MaxInodes /\ segments' \in 0 .. MaxSegments
<1>1. CASE Leftover(CurrentFile) /\ lookup[k] # Nothing
  BY <1>1, DestroyType DEF DestroyLeftover
<1>2. CASE ~(Leftover(CurrentFile) /\ lookup[k] # Nothing)
  <2>1. get_key_ /\ segments' = segments /\ lookup' = lookup
    BY <1>2 DEF DestroyLeftover, segs
  <2> QED
    BY <2>1, KeyIsTaken DEF TypeOK
<1> QED
  BY <1>1, <1>2

LEMMA AttachedType ==
  ASSUME TypeOK, NEW shm \in Shm, shm.key \in Inodes PROVE Attached(shm) \in Shm
  BY DEF TypeOK, Shm, Attached, Nothing, Inodes

LEMMA TypeStep == Types /\ [Next]_vars => Types'
<1> SUFFICES ASSUME Types, [Next]_vars PROVE Types'
  OBVIOUS
<1> USE DEF Types, ofOwner, fs, segs, ofVisitors, noted
<1>1. /\ NoShm \in Shm /\ own.key \in Inodes \cup {Nothing}
      /\ \A v \in Visitors : at[v] \in Shm /\ at[v].key \in Inodes \cup {Nothing}
  BY DEF TypeOK, Keyed, NoShm, Shm
<1>2. CASE OwnerKey
  BY <1>2, <1>1, KeyIsTaken DEF TypeOK, Keyed, OwnerKey, NoShm, Shm, HoldsLock
<1>3. CASE OwnerOpen
  BY <1>3, <1>1, KeyIsTaken DEF TypeOK, Keyed, OwnerOpen, OpenFile, NoShm, Shm, HoldsLock
<1>4. CASE OwnerLock
  BY <1>4, <1>1 DEF TypeOK, Keyed, OwnerLock, LockFile, HoldsLock
<1>5. CASE OwnerClear
  BY <1>5, <1>1, LeftoverType DEF TypeOK, Keyed, OwnerClear, HoldsLock
<1>6. CASE OwnerCreate
  BY <1>6, <1>1, CreateType DEF TypeOK, Keyed, OwnerCreate, create, HoldsLock
<1>7. CASE OwnerAttach
  BY <1>7, <1>1, AttachedType DEF TypeOK, Keyed, OwnerAttach, HoldsLock
<1>8. CASE OwnerSize
  BY <1>8, <1>1, DirectoryAssumption DEF TypeOK, Keyed, OwnerSize, CurrentFile, Inodes,
     Nothing, HoldsLock
<1>9. CASE OwnerFill
  BY <1>9, <1>1 DEF TypeOK, Keyed, OwnerFill, HoldsLock
<1>10. CASE OwnerDetach
  BY <1>10, <1>1 DEF TypeOK, Keyed, OwnerDetach, NoShm, Shm, HoldsLock
<1>11. CASE OwnerIsFree
  BY <1>11, <1>1, KeyIsTaken DEF TypeOK, Keyed, OwnerIsFree, HoldsLock
<1>12. CASE OwnerDestroy
  BY <1>12, <1>1, DestroyType DEF TypeOK, Keyed, OwnerDestroy, HoldsLock
<1>13. CASE OwnerDies
  BY <1>13, <1>1 DEF TypeOK, Keyed, OwnerDies, Shm, HoldsLock
<1>14. CASE PidReused
  BY <1>14, <1>1 DEF TypeOK, Keyed, PidReused, HoldsLock
<1>15. ASSUME NEW v \in Visitors, Clear(v) \/ Discover(v) \/ Leave(v) \/ Proceed(v) PROVE Types'
  <2> USE DEF Go, At
  <2>1. CASE Clear(v)
    BY <2>1, <1>1 DEF TypeOK, Keyed, Clear, HoldsLock
  <2>2. CASE Discover(v)
    BY <2>2, <1>1 DEF TypeOK, Keyed, Discover, HoldsLock
  <2>3. CASE Leave(v)
    BY <2>3, <1>1 DEF TypeOK, Keyed, Leave, HoldsLock
  <2>4. CASE Alive(v)
    BY <2>4, <1>1 DEF TypeOK, Keyed, Alive, HoldsLock
  <2>5. CASE IsValid(v)
    BY <2>5, <1>1 DEF TypeOK, Keyed, IsValid, HoldsLock
  <2>6. CASE Remove(v)
    BY <2>6, <1>1 DEF TypeOK, Keyed, Remove, HoldsLock
  <2>7. CASE Map(v)
    <3>1. NoSegment \in Shm
      BY <1>1 DEF TypeOK, NoSegment, NoShm, Shm
    <3>2. at' \in [Visitors -> Shm] /\ kept' \in [Visitors -> Shm]
      BY <2>7, <1>1, <3>1 DEF TypeOK, Map, BreakDown
    <3>3. UNCHANGED <<why, noted, ofOwner, fs, segs>>
      BY <2>7 DEF Map
    <3>4. stage'[v] \in {"crashed", "idle", "remove", "key"} /\ TypeOK'
      BY <2>7, <3>2, <3>3 DEF TypeOK, Map, BreakDown, HoldsLock
    <3>5. \A x \in Visitors \ {v} : stage'[x] = stage[x] /\ at'[x] = at[x]
      BY <2>7 DEF TypeOK, Map, BreakDown
    <3> QED
      BY <3>3, <3>4, <3>5 DEF Keyed, HoldsLock
  <2>8. CASE Key(v)
    <3>1. CurrentFile \in Inodes /\ at' = [at EXCEPT ![v] = [at[v] EXCEPT !.key = CurrentFile]]
      BY <2>8, KeyIsTaken DEF Key
    <3>2. /\ [at[v] EXCEPT !.key = CurrentFile] \in Shm
          /\ [at[v] EXCEPT !.key = CurrentFile].key = CurrentFile
      BY <1>1, <3>1 DEF Shm
    <3>3. /\ at' \in [Visitors -> Shm] /\ at'[v].key \in Inodes
          /\ \A x \in Visitors \ {v} : at'[x] = at[x]
      BY <3>1, <3>2 DEF TypeOK
    <3> QED
      BY <2>8, <3>3, KeyIsTaken DEF TypeOK, Keyed, Key, HoldsLock
  <2>9. CASE Open(v)
    <3>1. PICK fd \in Inodes : OpenFile(fd) /\ at' = [at EXCEPT ![v].fd = fd]
      BY <2>9 DEF Open
    <3>2. [at[v] EXCEPT !.fd = fd] \in Shm /\ [at[v] EXCEPT !.fd = fd].key = at[v].key
      BY <1>1 DEF Shm
    <3>3. at' = [at EXCEPT ![v] = [at[v] EXCEPT !.fd = fd]]
      BY <3>1
    <3>4. at' \in [Visitors -> Shm] /\ \A w \in Visitors : at'[w].key = at[w].key
      BY <3>2, <3>3, <1>1 DEF TypeOK
    <3> QED
      BY <2>9, <3>1, <3>4, KeyIsTaken DEF TypeOK, Keyed, Open, OpenFile, HoldsLock
  <2>10. CASE Lock(v)
    BY <2>10, <1>1 DEF TypeOK, Keyed, Lock, LockFile, HoldsLock
  <2>11. CASE ClearLeftover(v)
    BY <2>11, <1>1, LeftoverType DEF TypeOK, Keyed, ClearLeftover, HoldsLock
  <2>12. CASE Create(v)
    BY <2>12, <1>1, CreateType DEF TypeOK, Keyed, Create, create, HoldsLock
  <2>13. CASE Attach(v)
    BY <2>13, <1>1, AttachedType DEF TypeOK, Keyed, Attach, HoldsLock
  <2>18. CASE Mismatch(v)
    BY <2>18, <1>1, DestroyType DEF TypeOK, Keyed, Mismatch, BreakDown, HoldsLock
  <2>14. CASE Busy(v)
    <3>1. at \in [Visitors -> Shm] /\ kept \in [Visitors -> Shm] /\ known \in [Visitors -> BOOLEAN]
      BY DEF TypeOK
    <3>2. \/ /\ kept' = [kept EXCEPT ![v] = at[v]] /\ at' = [at EXCEPT ![v] = NoShm]
             /\ known' = [known EXCEPT ![v] = TRUE]
          \/ kept' = kept /\ at' = at /\ known' = known
      BY <2>14 DEF Busy
    <3>3. /\ at' \in [Visitors -> Shm] /\ kept' \in [Visitors -> Shm]
          /\ known' \in [Visitors -> BOOLEAN]
          /\ \A x \in Visitors \ {v} : at'[x] = at[x]
      BY <3>1, <3>2, <1>1
    <3>4. /\ \E to \in {"idle", "detach"} : stage' = [stage EXCEPT ![v] = to]
          /\ get_key_ /\ UNCHANGED <<why, early, stranded, ofOwner, segs>>
      BY <2>14 DEF Busy
    <3> QED
      BY <3>3, <3>4, KeyIsTaken DEF TypeOK, Keyed, HoldsLock
  <2>15. CASE Detach(v)
    <3>1. [at[v] EXCEPT !.seg = Nothing] \in Shm /\ [at[v] EXCEPT !.seg = Nothing].key =
       at[v].key
      BY <1>1 DEF Shm
    <3>2. at' = [at EXCEPT ![v] = [at[v] EXCEPT !.seg = Nothing]]
      BY <2>15 DEF Detach
    <3>3. at' \in [Visitors -> Shm] /\ \A w \in Visitors : at'[w].key = at[w].key
      BY <3>1, <3>2, <1>1 DEF TypeOK
    <3> QED
      BY <2>15, <3>3 DEF TypeOK, Keyed, Detach, HoldsLock
  <2>16. CASE IsFree(v)
    BY <2>16, <1>1, KeyIsTaken DEF TypeOK, Keyed, IsFree, HoldsLock
  <2>17. CASE Destroy(v)
    BY <2>17, <1>1, DestroyType DEF TypeOK, Keyed, Destroy, HoldsLock
  <2> QED
    BY <1>15, <2>1, <2>2, <2>3, <2>4, <2>5, <2>6, <2>7, <2>8, <2>9, <2>10, <2>11, <2>12,
       <2>13, <2>14, <2>15, <2>16, <2>17, <2>18 DEF Proceed
<1>16. CASE UNCHANGED vars
  BY <1>16 DEF TypeOK, Keyed, vars
<1> QED
  BY <1>2, <1>3, <1>4, <1>5, <1>6, <1>7, <1>8, <1>9, <1>10, <1>11, <1>12, <1>13, <1>14,
     <1>15, <1>16 DEF Next, OwnerSteps

-----------------------------------------------------------------------------
(* The owner's attachment counts. *)
LEMMA OwnerIsCounted ==
  ASSUME TypeOK, NEW k \in Inodes, lookup[k] # Nothing, own.seg = lookup[k]
  PROVE  num_of_attach(k) \in Nat /\ num_of_attach(k) >= 1
<1> DEFINE A == {v \in Visitors : at[v].seg = lookup[k]}
           K == {v \in Visitors : kept[v].seg = lookup[k]}
<1>1. Cardinality(A) \in Nat /\ Cardinality(K) \in Nat
  BY DirectoryAssumption, FS_Subset, FS_CardinalityType
<1>2. num_of_attach(k) = Cardinality(A) + Cardinality(K) + 1
  BY DEF num_of_attach, TypeOK
<1> HIDE DEF A, K
<1> QED
  BY <1>1, <1>2

(* An owner that is dead or ending stays so, and what was early stays early. *)
LEMMA StaysUndisturbed ==
  ASSUME TypeOK, [Next]_vars, ~early', ~Ending'
  PROVE  ~early /\ ~Ending
<1> USE DEF Ending, Dead, ofOwner, fs, segs, ofVisitors, noted
<1>1. CASE OwnerSteps
  BY <1>1 DEF OwnerSteps, OwnerKey, OwnerOpen, OwnerLock, OwnerClear, OwnerCreate, OwnerAttach,
     OwnerSize, OwnerFill, OwnerDetach, OwnerIsFree, OwnerDestroy
<1>2. CASE OwnerDies \/ PidReused \/ UNCHANGED vars
  BY <1>2 DEF OwnerDies, PidReused, vars
<1>3. ASSUME NEW v \in Visitors, Clear(v) \/ Discover(v) \/ Leave(v) \/ Proceed(v)
      PROVE  UNCHANGED <<owner, own>> /\ (early => early')
  <2>1. CASE Clear(v) \/ Discover(v)
    <3>1. UNCHANGED <<owner, own>> /\ early' = (early \/ Starting)
      BY <2>1 DEF Clear, Discover
    <3> QED
      BY <3>1, Zenon
  <2>2. CASE Leave(v) \/ Proceed(v)
    BY <2>2 DEF Proceed, Leave, Alive, IsValid, Remove, Map, Key, Open, Lock,
       ClearLeftover, Create, Attach, Mismatch, Busy, Detach, IsFree, Destroy
  <2> QED
    BY <1>3, <2>1, <2>2
<1> QED
  BY <1>1, <1>2, <1>3 DEF Next

LEMMA UndisturbedStep ==
  ASSUME Inv, [Next]_vars, Types', ~early', ~Ending'
  PROVE  (Established /\ Unvisited /\ Harmless)'
<1> DEFINE Goal == (Established /\ Unvisited /\ Harmless)'
<1>1. ~early /\ ~Ending /\ Types /\ Established /\ Unvisited /\ Harmless
  BY StaysUndisturbed DEF Inv, Types, Undisturbed
<1>2. /\ file \in Inodes \cup {Nothing} /\ Nothing \notin Inodes /\ Nothing \notin Segments
      /\ lookup \in [Inodes -> Segments \cup {Nothing}]
  BY <1>1 DEF Types, TypeOK, Inodes, Segments, Nothing
<1> USE DEF Types, TypeOK, Established, Unvisited, Harmless, HoldsLock, Named, HasNone,
    HasSegment, HasAttached, ofOwner, fs, segs, ofVisitors, noted
<1>3. ASSUME OwnerKey PROVE Goal
  BY <1>1, <1>2, <1>3, KeyIsTaken
  DEF OwnerKey, Shm
<1>4. ASSUME OwnerOpen PROVE Goal
  BY <1>1, <1>2, <1>4, KeyIsTaken
  DEF OwnerOpen, OpenFile, Shm
<1>5. ASSUME OwnerLock PROVE Goal
  BY <1>1, <1>2, <1>5
  DEF OwnerLock, LockFile
<1>6. ASSUME OwnerClear PROVE Goal
  BY <1>1, <1>2, <1>6, KeyIsTaken
  DEF OwnerClear, DestroyLeftover, destroy
<1>7. ASSUME OwnerCreate PROVE Goal
  <2>1. owner = "cleared" /\ own.key = file /\ file \in Inodes /\ lookup[own.key] = Nothing
    BY <1>1, <1>2, <1>7 DEF OwnerCreate, Types, TypeOK, Established
  <2>2. segments + 1 \in Nat \ {0}
    BY <1>1, DirectoryAssumption DEF Types, TypeOK
  <2>3. /\ owner' = "created" /\ lookup' = [lookup EXCEPT ![own.key] = segments + 1]
        /\ UNCHANGED <<own, file, content, stage, why, at, kept, early>>
    BY <2>1, <1>7 DEF OwnerCreate, create
  <2> QED
    BY <1>1, <1>2, <2>1, <2>2, <2>3 DEF Established, Unvisited, Harmless, Nothing
<1>8. ASSUME OwnerAttach PROVE Goal
  BY <1>1, <1>2, <1>8
  DEF OwnerAttach, Attached, Shm
<1>9. ASSUME OwnerSize PROVE Goal
  BY <1>1, <1>2, <1>9
  DEF OwnerSize, CurrentFile
<1>10. ASSUME OwnerFill PROVE Goal
  BY <1>1, <1>2, <1>10
  DEF OwnerFill
<1>11. ASSUME OwnerDetach PROVE Goal
  BY <1>1, <1>2, <1>11
  DEF OwnerDetach, Shm, Ending, Dead
<1>12. ASSUME OwnerIsFree PROVE Goal
  BY <1>1, <1>2, <1>12, KeyIsTaken
  DEF OwnerIsFree, Ending, Dead
<1>13. ASSUME OwnerDestroy PROVE Goal
  BY <1>1, <1>2, <1>13
  DEF OwnerDestroy, destroy, Ending, Dead
<1>14. ASSUME OwnerDies PROVE Goal
  BY <1>1, <1>2, <1>14
  DEF OwnerDies, Running, Starting, Shm, Ending, Dead
<1>15. ASSUME PidReused PROVE Goal
  BY <1>1, <1>2, <1>15
  DEF PidReused, Ending, Dead
<1>16. ASSUME NEW v \in Visitors, Clear(v) \/ Discover(v) \/ Leave(v) \/ Proceed(v) PROVE Goal
  <2> USE DEF Go, At
  <2>0. ASSUME early' = (early \/ Starting) PROVE owner \in {"off", "up"}
    <3>1. ~Starting
      BY <2>0, Zenon
    <3> QED
      BY <1>1, <3>1 DEF Starting, Ending, Dead
  (* One that goes on, with the key of the file if it has one. *)
  <2>19. ASSUME NEW to \in {"open", "lock", "locked", "cleared"},
               stage' = [stage EXCEPT ![v] = to], owner = "up",
               UNCHANGED <<ofOwner, file, content, lookup, why, kept, early>>,
               \A x \in Visitors \ {v} : at'[x] = at[x], at'[v].key = file,
               stage[v] \in {"key", "open", "lock", "locked"}
        PROVE  Goal
    <3>1. Established' /\ Unvisited'
      BY <1>1, <2>19
    <3>2. kept[v].seg = Nothing
      BY <1>1, <2>19
    <3>3. /\ stage'[v] = to /\ why'[v] # "dead" /\ at'[v].key = file /\ kept'[v].seg = Nothing
          /\ file' = file
      BY <1>1, <2>19, <3>2
    <3>4. \A x \in Visitors \ {v} : /\ stage'[x] = stage[x] /\ why'[x] = why[x]
                                   /\ at'[x] = at[x] /\ kept'[x] = kept[x]
      BY <1>1, <2>19
    <3>5. Harmless'
      BY <1>1, <3>3, <3>4
    <3> QED
      BY <3>1, <3>5
  <2>1. ASSUME Clear(v) PROVE Goal
    <3>1. \E w \in {"idle", "valid"} :
            /\ stage' = [stage EXCEPT ![v] = w] /\ (w = "valid" => file # Nothing)
            /\ UNCHANGED <<why, at, kept, ofOwner, fs, segs>>
      BY <2>1 DEF Clear
    <3>2. owner \in {"off", "up"}
      BY <2>0, <2>1 DEF Clear
    <3> QED
      BY <1>1, <3>1, <3>2
  <2>2. ASSUME Discover(v) PROVE Goal
    <3>1. /\ stage' = [stage EXCEPT ![v] = "alive"] /\ why' = [why EXCEPT ![v] = "find"]
          /\ file # Nothing /\ UNCHANGED <<at, kept, known, ofOwner, fs, segs>>
      BY <2>2 DEF Discover
    <3>2. owner \in {"off", "up"}
      BY <2>0, <2>2 DEF Discover
    <3> QED
      BY <1>1, <3>1, <3>2
  <2>3. ASSUME Leave(v) PROVE Goal
    BY <1>1, <1>2, <2>3
    DEF Leave, Dead, Ending
  <2>4. ASSUME Alive(v) PROVE Goal
    BY <1>1, <1>2, <2>4
    DEF Alive, Running, Starting
  <2>5. ASSUME IsValid(v) PROVE Goal
    <3>1. owner = "up" /\ file # Nothing /\ content = "full"
      BY <1>1, <2>5 DEF IsValid, Types, TypeOK, Established, Unvisited, Ending, Dead
    <3>2. /\ \E w \in {"busy", "map"} :
               /\ stage' = [stage EXCEPT ![v] = w]
               /\ w = "map" => kept[v].seg = Nothing
          /\ UNCHANGED <<ofOwner, fs, segs, why, at, kept, early>>
      <4>1. why[v] # "find" => kept[v].seg = Nothing
        BY <1>1 DEF Types, TypeOK, Harmless
      <4>2. NoShm.seg = Nothing
        BY DEF NoShm
      <4> QED
        BY <3>1, <2>5, <4>1, <4>2 DEF IsValid
    <3> QED
      BY <1>1, <3>1, <3>2 DEF Goal
  <2>6. ASSUME Remove(v) PROVE Goal
    BY <1>1, <1>2, <2>6
    DEF Remove
  <2>7. ASSUME Map(v) PROVE Goal
    BY <1>1, <1>2, <2>7
    DEF Map, BreakDown
  <2>8. ASSUME Key(v) PROVE Goal
    <3>1. owner = "up" /\ file # Nothing
      BY <1>1, <2>8 DEF Key, Types, TypeOK, Established, Unvisited, Ending, Dead
    <3>2. /\ UNCHANGED fs /\ at' = [at EXCEPT ![v].key = file]
          /\ stage' = [stage EXCEPT ![v] = "open"]
          /\ UNCHANGED <<ofOwner, segs, why, kept, early>>
      BY <3>1, <2>8, <1>1, KeyIsTaken DEF Key, CurrentFile, Types
    <3>3. at'[v].key = file /\ \A w \in Visitors \ {v} : at'[w] = at[w]
      BY <3>2, <1>1 DEF Types, TypeOK, Shm
    <3> QED
      BY <2>8, <2>19, <3>1, <3>2, <3>3 DEF Key
  <2>9. ASSUME Open(v) PROVE Goal
    <3>1. owner = "up" /\ file # Nothing /\ at[v].key = file /\ at[v] \in Shm
      BY <1>1, <2>9 DEF Open, Types, TypeOK, Established, Unvisited, Harmless, Ending, Dead
    <3>2. PICK fd \in Inodes : OpenFile(fd) /\ at' = [at EXCEPT ![v].fd = fd]
      BY <2>9 DEF Open
    <3>3. UNCHANGED fs /\ stage' = [stage EXCEPT ![v] = "lock"]
          /\ UNCHANGED <<ofOwner, segs, why, kept, early>>
      BY <3>1, <3>2, <2>9, <1>1, KeyIsTaken DEF Open, OpenFile, Types
    <3>4. at'[v].key = file /\ \A w \in Visitors \ {v} : at'[w] = at[w]
      BY <3>1, <3>2, <1>1 DEF Types, TypeOK, Shm
    <3> QED
      BY <2>9, <2>19, <3>1, <3>3, <3>4 DEF Open
  <2>10. ASSUME Lock(v) PROVE Goal
    BY <1>1, <1>2, <2>10
    DEF Lock, LockFile
  <2>11. ASSUME ClearLeftover(v) PROVE Goal
    <3>1. /\ owner = "up" /\ file \in Inodes /\ CurrentFile = file /\ at[v].key = file
          /\ own.seg = lookup[file] /\ lookup[file] # Nothing
      BY <1>1, <1>2, <2>11 DEF ClearLeftover, CurrentFile, Types, TypeOK, Established,
         Unvisited,
         Harmless, Ending, Dead
    <3>2. ~Leftover(CurrentFile)
      BY <1>1, <3>1, OwnerIsCounted DEF Leftover, Types
    <3>3. /\ UNCHANGED <<file, content, inodes, lookup, segments>>
          /\ stage' = [stage EXCEPT ![v] = "cleared"]
          /\ UNCHANGED <<ofOwner, why, at, kept, early>>
      BY <1>1, <1>2, <2>11, <3>1, <3>2, KeyIsTaken DEF ClearLeftover, DestroyLeftover, Types
    <3> QED
      BY <2>11, <2>19, <3>1, <3>3 DEF ClearLeftover
  <2>12. ASSUME Create(v) PROVE Goal
    BY <1>1, <1>2, <2>12
    DEF Create, create
  <2>13. ASSUME Attach(v) PROVE Goal
    <3>1. /\ owner = "up" /\ at[v].key = file /\ lookup[file] # Nothing
          /\ why[v] # "dead" /\ kept[v].seg = Nothing
      BY <1>1, <1>2, <2>13 DEF Attach, Types, TypeOK, Established, Unvisited, Harmless,
         Ending, Dead
    <3>2. /\ stage' = [stage EXCEPT ![v] = "busy"]
          /\ UNCHANGED <<ofOwner, fs, segs, why, early>>
          /\ why[v] = "clear" => UNCHANGED kept
      BY <3>1, <2>13 DEF Attach
    <3>3. \A w \in Visitors \ {v} : at'[w] = at[w] /\ kept'[w] = kept[w]
      BY <2>13, <3>1, <1>1 DEF Attach, Types, TypeOK
    <3> QED
      BY <1>1, <3>1, <3>2, <3>3 DEF Goal
  <2>18. ASSUME Mismatch(v) PROVE Goal
    BY <1>1, <2>18
    DEF Mismatch
  <2>14. ASSUME Busy(v) PROVE Goal
    BY <1>1, <1>2, <2>14, KeyIsTaken
    DEF Busy
  <2>15. ASSUME Detach(v) PROVE Goal
    BY <1>1, <1>2, <2>15
    DEF Detach, Shm
  <2>16. ASSUME IsFree(v) PROVE Goal
    BY <1>1, <1>2, <2>16, KeyIsTaken, OwnerIsCounted
    DEF IsFree
  <2>17. ASSUME Destroy(v) PROVE Goal
    BY <1>1, <1>2, <2>17
    DEF Destroy, destroy
  <2> HIDE DEF Goal
  <2> QED
    BY <1>16, <2>1, <2>2, <2>3, <2>4, <2>5, <2>6, <2>7, <2>8, <2>9, <2>10, <2>11, <2>12,
       <2>13, <2>14, <2>15, <2>16, <2>17, <2>18 DEF Proceed
<1>17. ASSUME UNCHANGED vars PROVE Goal
  BY <1>1, <1>17 DEF vars, Established, Unvisited, Harmless
<1> HIDE DEF Goal
<1>18. Goal
  BY <1>3, <1>4, <1>5, <1>6, <1>7, <1>8, <1>9, <1>10, <1>11, <1>12, <1>13, <1>14, <1>15,
     <1>16, <1>17 DEF Next, OwnerSteps
<1> QED
  BY <1>18 DEF Goal

-----------------------------------------------------------------------------
LEMMA InvInit == Init => Inv
<1> SUFFICES ASSUME Init PROVE Inv
  OBVIOUS
<1> USE DirectoryAssumption DEF Init
<1>1. TypeOK
  <2>1. NoShm \in Shm
    BY DEF NoShm, Shm
  <2>2. lookup \in [Inodes -> Segments \cup {Nothing}]
    OBVIOUS
  <2>3. inodes \in 0 .. MaxInodes /\ segments \in 0 .. MaxSegments
    OBVIOUS
  <2>4. known \in [Visitors -> BOOLEAN]
    OBVIOUS
  <2> QED
    BY <2>1, <2>2, <2>3, <2>4 DEF TypeOK
<1>3. Keyed
  BY DEF Keyed, HoldsLock
<1>2. Undisturbed
  BY DEF Undisturbed, Established, Unvisited, Harmless, Named, HasNone, HasSegment, HasAttached,
     HoldsLock, NoShm
<1> QED
  BY <1>1, <1>2, <1>3 DEF Inv, Types

LEMMA InvNext == Inv /\ [Next]_vars => Inv'
  BY TypeStep, UndisturbedStep DEF Inv, Undisturbed

(* The inductive invariant holds in every reachable state. *)
LEMMA InvAlways == Spec => []Inv
  BY InvInit, InvNext, PTL DEF Spec

(* If nobody looked before its file had contents, a node that is up keeps its   *)
(* file and its segment, however many processes scan the directory, and no scan *)
(* crashes before the process that owns the entry ends.                         *)
THEOREM EstablishedNodesStay == Spec => []EstablishedStays
<1>1. Inv => EstablishedStays
  BY DEF Inv, Types, Undisturbed, EstablishedStays, Established, Harmless, Ending, Dead, At,
     Named,
     HasSegment, HasAttached
<1> QED
  BY <1>1, InvAlways, PTL

=============================================================================
