------------------------ MODULE ShmObjManager_proofs ------------------------
(***************************************************************************)
(* Reference counting of shared objects, proved for any number of threads, *)
(* subscribers, objects and incarnations, with crashes of either side, as  *)
(* long as no lock area gives up on a mutex that is only busy.             *)
(***************************************************************************)
EXTENDS ShmObjManager, FiniteSetTheorems, TLAPS

(* An object is mapped by one incarnation. *)
MapInjective ==
  \A i, j \in Pids :
    shm_obj_map[i] # NoObj /\ shm_obj_map[i] = shm_obj_map[j] => i = j

(* What is filed in obj_list has an object, and only such a retention is    *)
(* being retired.                                                           *)
ListedHasObject ==
  \A s \in Subs :
    /\ where[s] = "list" => ptr[s] # NoObj
    /\ spc[s] = "unlock" => where[s] = "list"

Counting == RefCountExact /\ RetainedIsLive /\ MapsConsistent /\ MapInjective

Inv == TypeOK /\ ListedHasObject /\ Counting

maps == <<shm_obj_map, shm_obj_removed_map, mem, ref_cnt>>

-----------------------------------------------------------------------------
LEMMA TypeInit == Init => TypeOK
<1> SUFFICES ASSUME Init PROVE TypeOK
  OBVIOUS
<1>1. 1 \in Pids
  BY ManagerAssumption DEF Pids
<1>2. /\ shm_obj_map \in [Pids -> Objects \cup {NoObj}]
      /\ shm_obj_removed_map \in [Pids -> SUBSET Objects]
  BY DEF Init
<1>3. /\ mem \in [Objects -> {"unborn", "live", "freed"}]
      /\ ref_cnt \in [Objects -> Int]
      /\ is_destroy \in [Objects -> BOOLEAN]
      /\ obj_mutex \in [Objects -> {"free", "held", "orphan"}]
      /\ map_mutex \in [Pids -> {"free", "orphan"}]
  BY DEF Init
<1>4. /\ att \in [Subs -> Pids \cup {0}]
      /\ where \in [Subs -> Places]
      /\ ptr \in [Subs -> Objects \cup {NoObj}]
      /\ weak \in [Subs -> Pids \cup {0}]
  BY DEF Init, Places
<1>5. /\ spc \in [Subs -> {"idle", "addwatch", "retire", "spent", "unlock", "dead"}]
      /\ upc \in [Subs -> {"idle", "locked", "func"}]
      /\ lk \in [Subs -> Objects \cup {NoObj}]
  BY DEF Init
<1>6. tpc \in [Threads -> {"idle", "destroy2", "func"}]
  BY DEF Init
<1> QED
  BY <1>1, <1>2, <1>3, <1>4, <1>5, <1>6 DEF Init, TypeOK, Places

LEMMA PublisherEndsType ==
  ASSUME TypeOK, NEW in_map \in BOOLEAN, NEW held,
         PublisherEnds(held, in_map),
         /\ shm_obj_removed_map' \in [Pids -> SUBSET Objects]
         /\ mem' \in [Objects -> {"unborn", "live", "freed"}]
         /\ is_destroy' \in [Objects -> BOOLEAN]
  PROVE  TypeOK'
  BY DEF TypeOK, PublisherEnds, Touch, sub, Places

LEMMA PublisherDiesType ==
  ASSUME TypeOK, NEW in_map \in BOOLEAN,
         PublisherDies(in_map)
  PROVE  TypeOK'
  BY PublisherEndsType DEF TypeOK, PublisherDies

LEMMA SubDiesType ==
  ASSUME TypeOK, NEW s \in Subs, NEW map, SubDies(s, map) PROVE TypeOK'
  BY DEF TypeOK, SubDies, At, pub, Places

LEMMA ThreadType ==
  ASSUME TypeOK, NEW t \in Threads, ThreadStep(t) PROVE TypeOK'
<1> USE ManagerAssumption DEF TypeOK, pub, shm, sub, Places, Touch
<1>1. CASE CreateFound(t) \/ CreateNull(t) \/ CreateGivesUp(t) \/ DropHandle(t)
  BY <1>1 DEF CreateFound, CreateNull, CreateGivesUp, DropHandle
<1>2. CASE CreateNew(t)
  BY <1>2 DEF CreateNew
<1>3. CASE Destroy1(t)
  BY <1>3 DEF Destroy1
<1>4. CASE Destroy2Absent(t) \/ Destroy2Skips(t) \/ Destroy2GivesUp(t)
  BY <1>4 DEF Destroy2Absent, Destroy2Skips, Destroy2GivesUp
<1>5. CASE Destroy2(t)
  BY <1>5 DEF Destroy2, Swept, Unswept
<1>6. CASE Destroy2Aborts(t) \/ OwnerLockAborts(t) \/ MapAborts(t)
  BY <1>6, PublisherDiesType DEF Destroy2Aborts, OwnerLockAborts, MapAborts
<1>9. CASE SweepAborts(t)
  <2>1. /\ shm_obj_removed_map' \in [Pids -> SUBSET Objects]
        /\ mem' \in [Objects -> {"unborn", "live", "freed"}]
        /\ is_destroy' \in [Objects -> BOOLEAN]
    BY <1>9 DEF SweepAborts
  <2>2. PublisherEnds({shm_obj_map[pid]}, TRUE)
    BY <1>9 DEF SweepAborts
  <2> HIDE DEF TypeOK
  <2> QED
    BY <2>1, <2>2, PublisherEndsType
<1>7. CASE OwnerLock(t)
  BY <1>7 DEF OwnerLock
<1>8. CASE OwnerUnlock(t)
  BY <1>8 DEF OwnerUnlock
<1> QED
  BY <1>1, <1>2, <1>3, <1>4, <1>5, <1>6, <1>7, <1>8, <1>9 DEF ThreadStep

LEMMA LookupType ==
  ASSUME TypeOK, NEW s \in Subs, Retain(s) \/ Forgo(s)
  PROVE  /\ att' \in [Subs -> Pids \cup {0}]
         /\ where' \in [Subs -> Places]
         /\ ptr' \in [Subs -> Objects \cup {NoObj}]
         /\ weak' \in [Subs -> Pids \cup {0}]
         /\ ref_cnt' \in [Objects -> Int]
  BY DEF TypeOK, Retain, Forgo, Hit, Segment, TakeRef, Places

LEMMA SubType ==
  ASSUME TypeOK, NEW s \in Subs,
         UserStep(s) \/ MonitorStep(s) \/ MonitorNode(s) \/ SubCrashes(s)
  PROVE  TypeOK'
<1> USE DEF TypeOK, pub, shm, Places, At, Touch
<1>1. CASE Discovery(s)
  BY <1>1, LookupType DEF Discovery, discovery_ext_map_
<1>12. CASE LookupGivesUp(s)
  BY <1>12 DEF LookupGivesUp, Segment
<1>2. CASE \/ LookupAborts(s) \/ RetireAborts(s)
           \/ NodeMonitorAborts(s) \/ LockObjectAborts(s) \/ SubCrashes(s)
  BY <1>2, SubDiesType DEF RetireAborts, NodeMonitorAborts, LockObjectAborts,
     SubCrashes, LookupAborts
<1>3. CASE LockObject(s)
  BY <1>3 DEF LockObject
<1>4. CASE EnterFunc(s)
  BY <1>4 DEF EnterFunc
<1>5. CASE UnlockObject(s)
  BY <1>5 DEF UnlockObject
<1>6. CASE AddWatch(s)
  BY <1>6 DEF AddWatch
<1>7. CASE HandleEvent(s)
  BY <1>7, LookupType DEF HandleEvent
<1>8. CASE RetireNone(s) \/ RetireGivesUp(s)
  <2>1. CASE RetireNone(s)
    BY <2>1 DEF RetireNone
  <2>2. CASE RetireGivesUp(s)
    BY <2>2 DEF RetireGivesUp
  <2> QED
    BY <1>8, <2>1, <2>2
<1>9. CASE Retire(s)
  <2>1. ref_cnt' \in [Objects -> Int]
    <3>1. ref_cnt' = [ref_cnt EXCEPT ![ptr[s]] = @ - 1]
      BY <1>9 DEF Retire
    <3>2. CASE ptr[s] \in Objects
      BY <3>1, <3>2
    <3>3. CASE ptr[s] \notin Objects
      BY <3>1, <3>3
    <3> QED
      BY <3>2, <3>3
  <2>2. obj_mutex' \in [Objects -> {"free", "held", "orphan"}]
    BY <1>9 DEF Retire
  <2> QED
    BY <1>9, <2>1, <2>2 DEF Retire
<1>10. CASE RetireUnlock(s)
  BY <1>10 DEF RetireUnlock
<1>11. CASE NodeMonitor(s)
  <2>1. /\ ref_cnt' \in [Objects -> Int]
        /\ is_destroy' \in [Objects -> BOOLEAN]
    <3>1. CASE where[s] = "list"
      <4>1. ref_cnt' = [ref_cnt EXCEPT ![ptr[s]] = @ - 1]
        BY <1>11, <3>1 DEF NodeMonitor
      <4>2. is_destroy' = [is_destroy EXCEPT ![ptr[s]] = TRUE]
        BY <1>11, <3>1 DEF NodeMonitor
      <4>3. CASE ptr[s] \in Objects
        BY <4>1, <4>2, <4>3
      <4>4. CASE ptr[s] \notin Objects
        <5>1. ref_cnt' = ref_cnt
          BY <4>1, <4>4
        <5>2. is_destroy' = is_destroy
          BY <4>2, <4>4
        <5> QED
          BY <5>1, <5>2
      <4> QED
        BY <4>3, <4>4
    <3>2. CASE where[s] # "list"
      BY <1>11, <3>2 DEF NodeMonitor
    <3> QED
      BY <3>1, <3>2
  <2>2. /\ where' \in [Subs -> Places]
        /\ weak' \in [Subs -> Pids \cup {0}]
        /\ att' \in [Subs -> Pids \cup {0}]
    BY <1>11 DEF NodeMonitor
  <2> QED
    BY <1>11, <2>1, <2>2 DEF NodeMonitor
<1> QED
  BY <1>1, <1>2, <1>3, <1>4, <1>5, <1>6, <1>7, <1>8, <1>9, <1>10, <1>11,
     <1>12
     DEF UserStep, MonitorStep, MonitorNode

LEMMA TypeNext == TypeOK /\ [Next]_vars => TypeOK'
<1> SUFFICES ASSUME TypeOK, [Next]_vars PROVE TypeOK'
  OBVIOUS
<1> USE DEF pub, shm, sub, Touch
<1>1. CASE UNCHANGED vars
  BY <1>1 DEF vars, TypeOK
<1>2. CASE PublisherCrash
  BY <1>2, PublisherDiesType DEF PublisherCrash
<1>3. CASE PublisherRestart
  BY <1>3, ManagerAssumption DEF PublisherRestart, TypeOK, Pids
<1>4. CASE OtherClose
  BY <1>4 DEF OtherClose, TypeOK
<1> QED
  BY <1>1, <1>2, <1>3, <1>4, ThreadType, SubType DEF Next

(* Every reachable state is well formed: the maps hold objects, counters    *)
(* are numbers and every thread and process is at one of its control        *)
(* points.                                                                  *)
THEOREM TypeCorrect == Spec => []TypeOK
<1>1. Init => TypeOK
  BY TypeInit
<1>2. TypeOK /\ [Next]_vars => TypeOK'
  BY TypeNext
<1> QED
  BY <1>1, <1>2, PTL DEF Spec

-----------------------------------------------------------------------------
LEMMA HoldersFinite == \A o : IsFiniteSet(RefHolders(o))
  BY FS_Subset, ManagerAssumption DEF RefHolders

(* Steps that touch neither the maps and counters nor what is counted. *)
LEMMA CountingFrame ==
  ASSUME Counting, UNCHANGED maps,
         \A q \in Subs, r \in Objects : Counts(q, r)' <=> Counts(q, r)
  PROVE  Counting'
<1>1. \A r \in Objects : RefHolders(r)' = RefHolders(r)
  BY DEF RefHolders
<1>2. \A r : Mapped(r)' = Mapped(r)
  BY DEF Mapped, maps
<1>3. RefCountExact'
  BY <1>1, <1>2 DEF Counting, RefCountExact, maps
<1>4. RetainedIsLive'
  BY DEF Counting, RetainedIsLive, maps
<1>5. MapsConsistent'
  BY <1>2 DEF Counting, MapsConsistent, maps
<1>6. MapInjective'
  BY DEF Counting, MapInjective, maps
<1> QED
  BY <1>3, <1>4, <1>5, <1>6 DEF Counting

(* A subscriber gives back the reference it counts. *)
LEMMA GiveBack ==
  ASSUME TypeOK, Counting, NEW s \in Subs, NEW o \in Objects, Counts(s, o),
         UNCHANGED <<shm_obj_map, shm_obj_removed_map, mem>>,
         ref_cnt' = [ref_cnt EXCEPT ![o] = @ - 1],
         \A q \in Subs, r \in Objects : Counts(q, r)' <=> Counts(q, r) /\ q # s
  PROVE  Counting'
<1>1. \A r : Mapped(r)' = Mapped(r)
  BY DEF Mapped
<1>2. RefHolders(o)' = RefHolders(o) \ {s}
  BY DEF RefHolders
<1>3. s \in RefHolders(o)
  BY DEF RefHolders
<1>4. Cardinality(RefHolders(o)') = Cardinality(RefHolders(o)) - 1
  BY <1>2, <1>3, HoldersFinite, FS_RemoveElement
<1>5. \A r \in Objects : r # o => RefHolders(r)' = RefHolders(r)
  BY DEF RefHolders, Counts
<1>6. Cardinality(RefHolders(o)) \in Nat
  BY HoldersFinite, FS_CardinalityType
<1>7. RefCountExact'
  <2> SUFFICES ASSUME NEW r \in Objects, mem[r] = "live"
               PROVE  ref_cnt'[r] = Cardinality(RefHolders(r)')
                                      + (IF Mapped(r) THEN 1 ELSE 0)
    BY <1>1 DEF RefCountExact
  <2>1. ref_cnt[r] = Cardinality(RefHolders(r)) + (IF Mapped(r) THEN 1 ELSE 0)
    BY DEF Counting, RefCountExact
  <2>2. CASE r = o
    BY <2>1, <2>2, <1>4, <1>6 DEF TypeOK
  <2>3. CASE r # o
    BY <2>1, <2>3, <1>5 DEF TypeOK
  <2> QED
    BY <2>2, <2>3
<1>8. RetainedIsLive'
  BY DEF Counting, RetainedIsLive
<1>9. MapsConsistent' /\ MapInjective'
  BY <1>1 DEF Counting, MapsConsistent, MapInjective
<1> QED
  BY <1>7, <1>8, <1>9 DEF Counting

(* A subscriber that counts nothing takes a reference to a live object. *)
LEMMA TakeOne ==
  ASSUME TypeOK, Counting, NEW s \in Subs, NEW o \in Objects, mem[o] = "live",
         ~Counts(s, o),
         UNCHANGED <<shm_obj_map, shm_obj_removed_map, mem>>,
         ref_cnt' = [ref_cnt EXCEPT ![o] = @ + 1],
         \A q \in Subs, r \in Objects :
           Counts(q, r)' <=> Counts(q, r) \/ (q = s /\ r = o)
  PROVE  Counting'
<1>1. \A r : Mapped(r)' = Mapped(r)
  BY DEF Mapped
<1>2. RefHolders(o)' = RefHolders(o) \cup {s}
  BY DEF RefHolders
<1>3. s \notin RefHolders(o)
  BY DEF RefHolders
<1>4. Cardinality(RefHolders(o)') = Cardinality(RefHolders(o)) + 1
  BY <1>2, <1>3, HoldersFinite, FS_AddElement
<1>5. \A r \in Objects : r # o => RefHolders(r)' = RefHolders(r)
  BY DEF RefHolders
<1>6. Cardinality(RefHolders(o)) \in Nat
  BY HoldersFinite, FS_CardinalityType
<1>7. RefCountExact'
  <2> SUFFICES ASSUME NEW r \in Objects, mem[r] = "live"
               PROVE  ref_cnt'[r] = Cardinality(RefHolders(r)')
                                      + (IF Mapped(r) THEN 1 ELSE 0)
    BY <1>1 DEF RefCountExact
  <2>1. ref_cnt[r] = Cardinality(RefHolders(r)) + (IF Mapped(r) THEN 1 ELSE 0)
    BY DEF Counting, RefCountExact
  <2>2. CASE r = o
    BY <2>1, <2>2, <1>4, <1>6 DEF TypeOK
  <2>3. CASE r # o
    BY <2>1, <2>3, <1>5 DEF TypeOK
  <2> QED
    BY <2>2, <2>3
<1>8. RetainedIsLive'
  BY DEF Counting, RetainedIsLive
<1>9. MapsConsistent' /\ MapInjective'
  BY <1>1 DEF Counting, MapsConsistent, MapInjective
<1> QED
  BY <1>7, <1>8, <1>9 DEF Counting

(* The object create() allocates starts with the map's reference alone. *)
LEMMA CreateCounting ==
  ASSUME TypeOK, ManagerAssumption, Counting, NEW t \in Threads, CreateNew(t)
  PROVE  Counting'
<1> PICK o \in Objects :
      /\ mem[o] = "unborn"
      /\ mem' = [mem EXCEPT ![o] = "live"]
      /\ ref_cnt' = [ref_cnt EXCEPT ![o] = 1]
      /\ shm_obj_map' = [shm_obj_map EXCEPT ![pid] = o]
  BY DEF CreateNew
<1>1. UNCHANGED <<shm_obj_removed_map, where, ptr, spc>> /\ shm_obj_map[pid] = NoObj
  BY DEF CreateNew, sub
<1>2. \A r \in Objects : RefHolders(r)' = RefHolders(r)
  BY <1>1 DEF RefHolders, Counts
<1>3. RefHolders(o) = {} /\ Cardinality(RefHolders(o)) = 0
  BY FS_EmptySet DEF RefHolders, Counting, RetainedIsLive
<1>4. \A r \in Objects : r # o => Mapped(r)' = Mapped(r)
  BY <1>1, ManagerAssumption DEF Mapped, TypeOK
<1>5. Mapped(o)' /\ ~Mapped(o)
  BY ManagerAssumption DEF Mapped, TypeOK, Counting, MapsConsistent
<1>6. RefCountExact'
  <2> SUFFICES ASSUME NEW r \in Objects, mem'[r] = "live"
               PROVE  ref_cnt'[r] = Cardinality(RefHolders(r)')
                                      + (IF Mapped(r)' THEN 1 ELSE 0)
    BY DEF RefCountExact
  <2>1. CASE r = o
    <3>1. Cardinality(RefHolders(o)') = 0
      BY <1>2, <1>3
    <3>2. ref_cnt'[o] = 1
      BY DEF TypeOK
    <3> QED
      BY <2>1, <3>1, <3>2, <1>5
  <2>2. CASE r # o
    BY <2>2, <1>2, <1>4 DEF TypeOK, Counting, RefCountExact
  <2> QED
    BY <2>1, <2>2
<1>7. RetainedIsLive'
  BY <1>1 DEF Counting, RetainedIsLive, Counts, TypeOK
<1>8. MapsConsistent'
  <2>1. \A i \in Pids : shm_obj_map'[i] # NoObj => mem'[shm_obj_map'[i]] = "live"
    BY DEF Counting, MapsConsistent, TypeOK
  <2>2. ASSUME NEW i \in Pids, NEW r \in shm_obj_removed_map[i]
        PROVE  mem'[r] = "live" /\ ~Mapped(r)'
    <3>1. r \in Objects /\ mem[r] = "live" /\ ~Mapped(r)
      BY DEF Counting, MapsConsistent, TypeOK
    <3>2. r # o
      BY <3>1
    <3> QED
      BY <3>1, <3>2, <1>4 DEF TypeOK
  <2> QED
    BY <1>1, <2>1, <2>2 DEF Counting, MapsConsistent
<1>9. MapInjective'
  BY <1>1, <1>5 DEF Counting, MapInjective, Mapped, TypeOK
<1> QED
  BY <1>6, <1>7, <1>8, <1>9 DEF Counting

(* What destroy() releases is referenced by nobody; what it keeps loses the *)
(* map's reference and only that.                                           *)
LEMMA DestroyCounting ==
  ASSUME TypeOK, ManagerAssumption, Counting, NEW t \in Threads, Destroy2(t)
  PROVE  Counting'
<1>0. shm_obj_map[pid] \in Objects
  BY DEF Destroy2, TypeOK
<1> PICK o \in Objects : o = shm_obj_map[pid]
  BY <1>0
<1> PICK kept \in BOOLEAN : kept = (ref_cnt[o] # 1)
  OBVIOUS
<1> PICK swept \in SUBSET Objects : swept = Swept
  BY DEF Swept, TypeOK
<1> PICK released \in SUBSET Objects :
      released = swept \cup (IF kept THEN {} ELSE {o})
  OBVIOUS
<1>1. /\ mem' = [r \in Objects |-> IF r \in released THEN "freed" ELSE mem[r]]
      /\ ref_cnt' = IF kept THEN [ref_cnt EXCEPT ![o] = @ - 1] ELSE ref_cnt
      /\ shm_obj_removed_map' =
           [shm_obj_removed_map EXCEPT
              ![pid] = (@ \ swept) \cup (IF kept THEN {o} ELSE {})]
      /\ shm_obj_map' = [shm_obj_map EXCEPT ![pid] = NoObj]
      /\ UNCHANGED <<where, ptr, spc>>
  BY DEF Destroy2, OnlyMapped, Unswept, sub
<1>2. pid \in Pids /\ o # NoObj /\ Mapped(o) /\ mem[o] = "live"
  BY <1>1, ManagerAssumption DEF TypeOK, Mapped, Counting, MapsConsistent
<1>3. ~Mapped(o)'
  BY <1>1, <1>2 DEF Mapped, Counting, MapInjective, TypeOK
<1>4. \A r \in Objects : r # o => Mapped(r)' = Mapped(r)
  BY <1>1, <1>2, ManagerAssumption DEF Mapped, TypeOK
<1>5. \A r \in Objects, q \in Subs : Counts(q, r)' = Counts(q, r)
  BY <1>1 DEF Counts
<1>6. \A r \in Objects : RefHolders(r)' = RefHolders(r)
  BY <1>5 DEF RefHolders
<1>7. \A r \in swept : r \in Objects /\ ~Mapped(r) /\ r # o
  BY <1>2 DEF Swept, TypeOK, Counting, MapsConsistent
<1>8. \A r \in Objects : Cardinality(RefHolders(r)) \in Nat
  BY HoldersFinite, FS_CardinalityType
<1>9. \A r \in released : RefHolders(r) = {}
  <2> SUFFICES ASSUME NEW r \in released PROVE Cardinality(RefHolders(r)) = 0
    BY HoldersFinite, FS_EmptySet
  <2>1. CASE r \in swept
    <3>1. r \in Objects /\ ref_cnt[r] = 0 /\ mem[r] = "live" /\ ~Mapped(r)
      BY <2>1, <1>7, <1>2 DEF Swept, Unreferenced, Counting, MapsConsistent
    <3>2. ref_cnt[r] = Cardinality(RefHolders(r))
      BY <3>1, <1>8 DEF Counting, RefCountExact
    <3> QED
      BY <3>1, <3>2
  <2>2. CASE r \notin swept
    <3>1. r = o /\ ref_cnt[o] = 1
      BY <2>2
    <3>2. ref_cnt[o] = Cardinality(RefHolders(o)) + 1
      BY <1>1, <1>2, <1>8 DEF Counting, RefCountExact
    <3> QED
      BY <3>1, <3>2, <1>1, <1>8
  <2> QED
    BY <2>1, <2>2
<1>10. RefCountExact'
  <2> SUFFICES ASSUME NEW r \in Objects, mem'[r] = "live"
               PROVE  ref_cnt'[r] = Cardinality(RefHolders(r)')
                                      + (IF Mapped(r)' THEN 1 ELSE 0)
    BY DEF RefCountExact
  <2>1. r \notin released /\ mem[r] = "live"
    BY <1>1
  <2>2. ref_cnt[r] = Cardinality(RefHolders(r)) + (IF Mapped(r) THEN 1 ELSE 0)
    BY <2>1 DEF Counting, RefCountExact
  <2>3. CASE r = o
    <3>1. kept
      BY <2>1, <2>3
    <3>2. ref_cnt'[o] = ref_cnt[o] - 1
      BY <3>1, <1>1 DEF TypeOK
    <3>3. ref_cnt[o] = Cardinality(RefHolders(o)) + 1
      BY <2>2, <2>3, <1>2
    <3>4. Cardinality(RefHolders(o)') = Cardinality(RefHolders(o))
      BY <1>1, <1>6
    <3> QED
      BY <2>3, <3>2, <3>3, <3>4, <1>1, <1>3, <1>8
  <2>4. CASE r # o
    <3>1. ref_cnt'[r] = ref_cnt[r]
      BY <2>4, <1>1 DEF TypeOK
    <3> QED
      BY <2>2, <2>4, <3>1, <1>4, <1>6
  <2> QED
    BY <2>3, <2>4
<1>11. RetainedIsLive'
  <2> SUFFICES ASSUME NEW q \in Subs, NEW r \in Objects, Counts(q, r)
               PROVE  mem'[r] = "live"
    BY <1>5 DEF RetainedIsLive
  <2>1. q \in RefHolders(r) /\ mem[r] = "live"
    BY DEF RefHolders, Counting, RetainedIsLive
  <2>2. r \notin released
    BY <2>1, <1>9
  <2> QED
    BY <2>1, <2>2, <1>1
<1>12. MapsConsistent'
  <2>1. ASSUME NEW i \in Pids, shm_obj_map'[i] # NoObj
        PROVE  mem'[shm_obj_map'[i]] = "live"
    <3>1. i # pid /\ shm_obj_map'[i] = shm_obj_map[i]
      BY <2>1, <1>1, <1>2 DEF TypeOK
    <3>2. shm_obj_map[i] \in Objects /\ mem[shm_obj_map[i]] = "live"
      BY <2>1, <3>1 DEF TypeOK, Counting, MapsConsistent
    <3>3. shm_obj_map[i] \notin swept
      BY <1>7, <3>2 DEF Mapped
    <3>4. shm_obj_map[i] # o
      BY <3>1, <1>2, <2>1 DEF Counting, MapInjective
    <3> QED
      BY <3>1, <3>2, <3>3, <3>4, <1>1
  <2>2. ASSUME NEW i \in Pids, NEW r \in shm_obj_removed_map'[i]
        PROVE  mem'[r] = "live" /\ ~Mapped(r)'
    <3>1. CASE r \in shm_obj_removed_map[i]
      <4>1. r \in Objects /\ mem[r] = "live" /\ ~Mapped(r) /\ r # o
        BY <3>1, <1>2 DEF TypeOK, Counting, MapsConsistent
      <4>2. r \notin swept
        BY <2>2, <3>1, <4>1, <1>1, <1>2
           DEF Swept, Unswept, TypeOK, Counting, MapsConsistent
      <4> QED
        BY <4>1, <4>2, <1>1, <1>4
    <3>2. CASE r \notin shm_obj_removed_map[i]
      <4>1. i = pid /\ kept /\ r = o
        BY <2>2, <3>2, <1>1, <1>2 DEF TypeOK
      <4>2. o \notin released
        BY <4>1, <1>7
      <4> QED
        BY <4>1, <4>2, <1>1, <1>2, <1>3
    <3> QED
      BY <3>1, <3>2
  <2>3. ASSUME NEW i \in Pids, NEW j \in Pids, i # j,
               NEW r \in shm_obj_removed_map'[i], r \in shm_obj_removed_map'[j]
        PROVE  FALSE
    <3>1. \A k \in Pids : r \in shm_obj_removed_map'[k]
            => r \in shm_obj_removed_map[k] \/ (k = pid /\ r = o)
      BY <1>1, <1>2 DEF TypeOK
    <3>2. \A k \in Pids : o \notin shm_obj_removed_map[k]
      BY <1>2 DEF Counting, MapsConsistent
    <3> QED
      BY <2>3, <3>1, <3>2 DEF Counting, MapsConsistent
  <2> QED
    BY <2>1, <2>2, <2>3 DEF MapsConsistent
<1>13. MapInjective'
  BY <1>1, <1>2 DEF Counting, MapInjective, TypeOK
<1> QED
  BY <1>10, <1>11, <1>12, <1>13 DEF Counting

(* A sweep that ends in abort() has released what nobody references.        *)
LEMMA SweepCounting ==
  ASSUME TypeOK, ManagerAssumption, Counting, NEW t \in Threads, SweepAborts(t)
  PROVE  Counting'
<1> PICK done \in SUBSET Swept :
      /\ mem' = [r \in Objects |-> IF r \in done THEN "freed" ELSE mem[r]]
      /\ shm_obj_removed_map' = [shm_obj_removed_map EXCEPT ![pid] = @ \ done]
  BY DEF SweepAborts
<1>1. UNCHANGED <<shm_obj_map, ref_cnt, where, ptr, spc>> /\ pid \in Pids
  BY DEF SweepAborts, PublisherEnds, sub, TypeOK
<1>2. \A r : Mapped(r)' = Mapped(r)
  BY <1>1 DEF Mapped
<1>3. \A r \in Objects, q \in Subs : Counts(q, r)' = Counts(q, r)
  BY <1>1 DEF Counts
<1>4. \A r \in Objects : RefHolders(r)' = RefHolders(r)
  BY <1>3 DEF RefHolders
<1>5. \A r \in done : r \in Objects /\ ref_cnt[r] = 0 /\ mem[r] = "live" /\ ~Mapped(r)
  BY <1>1 DEF Swept, Unreferenced, TypeOK, Counting, MapsConsistent
<1>6. \A r \in done : RefHolders(r) = {}
  <2> SUFFICES ASSUME NEW r \in done PROVE Cardinality(RefHolders(r)) = 0
    BY HoldersFinite, FS_EmptySet
  <2>1. Cardinality(RefHolders(r)) \in Nat
    BY HoldersFinite, FS_CardinalityType
  <2> QED
    BY <2>1, <1>5 DEF Counting, RefCountExact
<1>7. RefCountExact'
  BY <1>1, <1>2, <1>4 DEF Counting, RefCountExact
<1>8. RetainedIsLive'
  <2> SUFFICES ASSUME NEW q \in Subs, NEW r \in Objects, Counts(q, r)
               PROVE  mem'[r] = "live"
    BY <1>3 DEF RetainedIsLive
  <2>1. q \in RefHolders(r) /\ mem[r] = "live"
    BY DEF RefHolders, Counting, RetainedIsLive
  <2> QED
    BY <2>1, <1>6
<1>9. MapsConsistent'
  <2>1. ASSUME NEW i \in Pids, shm_obj_map[i] # NoObj
        PROVE  mem'[shm_obj_map[i]] = "live"
    <3>1. shm_obj_map[i] \in Objects /\ mem[shm_obj_map[i]] = "live"
      BY <2>1 DEF TypeOK, Counting, MapsConsistent
    <3>2. shm_obj_map[i] \notin done
      BY <1>5 DEF Mapped
    <3> QED
      BY <3>1, <3>2
  <2>2. ASSUME NEW i \in Pids, NEW r \in shm_obj_removed_map'[i]
        PROVE  r \in shm_obj_removed_map[i] /\ mem'[r] = "live" /\ ~Mapped(r)
    <3>1. r \in shm_obj_removed_map[i] /\ (i = pid => r \notin done)
      BY <1>1 DEF TypeOK
    <3>2. r \in Objects /\ mem[r] = "live" /\ ~Mapped(r)
      BY <3>1 DEF TypeOK, Counting, MapsConsistent
    <3>3. r \notin done
      BY <3>1, <1>1 DEF Swept, Counting, MapsConsistent
    <3> QED
      BY <3>1, <3>2, <3>3
  <2>3. ASSUME NEW i \in Pids, NEW j \in Pids, i # j
        PROVE  shm_obj_removed_map'[i] \cap shm_obj_removed_map'[j] = {}
    BY <2>2, <2>3 DEF Counting, MapsConsistent
  <2> QED
    BY <1>1, <1>2, <2>1, <2>2, <2>3 DEF MapsConsistent
<1>10. MapInjective'
  BY <1>1 DEF Counting, MapInjective
<1> QED
  BY <1>7, <1>8, <1>9, <1>10 DEF Counting

-----------------------------------------------------------------------------
(* A process that ends leaves the counters as they are. *)
LEMMA PublisherDiesInv ==
  ASSUME Inv, NEW in_map \in BOOLEAN, PublisherDies(in_map)
  PROVE  (ListedHasObject /\ Counting)'
<1>1. UNCHANGED maps /\ UNCHANGED <<where, ptr, spc>>
  BY DEF PublisherDies, PublisherEnds, maps, sub
<1>2. \A q \in Subs, r \in Objects : Counts(q, r)' <=> Counts(q, r)
  BY <1>1 DEF Counts
<1> QED
  BY <1>1, <1>2, CountingFrame DEF Inv, ListedHasObject

LEMMA SubDiesInv ==
  ASSUME Inv, NEW s \in Subs, NEW map, SubDies(s, map) PROVE (ListedHasObject /\ Counting)'
<1> USE DEF Inv, TypeOK
<1>1. UNCHANGED maps
  BY DEF SubDies, maps
<1>2. \A q \in Subs, r \in Objects : Counts(q, r)' <=> Counts(q, r)
  BY DEF SubDies, At, Counts
<1>3. ListedHasObject'
  BY DEF SubDies, At, ListedHasObject
<1> QED
  BY <1>1, <1>2, <1>3, CountingFrame

LEMMA ThreadInv ==
  ASSUME ManagerAssumption, GiveUp = FALSE, Inv,
         NEW t \in Threads, ThreadStep(t)
  PROVE  (ListedHasObject /\ Counting)'
<1>1. CASE CreateNew(t) \/ Destroy2(t)
  <2>1. Counting'
    BY <1>1, ManagerAssumption, CreateCounting, DestroyCounting DEF Inv
  <2>2. UNCHANGED <<where, ptr, spc>>
    BY <1>1 DEF CreateNew, Destroy2, sub
  <2> QED
    BY <2>1, <2>2 DEF Inv, ListedHasObject
<1>2. CASE Destroy2Aborts(t) \/ OwnerLockAborts(t) \/ MapAborts(t)
  BY <1>2, PublisherDiesInv DEF Destroy2Aborts, OwnerLockAborts, MapAborts
<1>5. CASE SweepAborts(t)
  <2>1. Counting'
    BY <1>5, SweepCounting, ManagerAssumption DEF Inv
  <2>2. UNCHANGED <<where, ptr, spc>>
    BY <1>5 DEF SweepAborts, PublisherEnds, sub
  <2> QED
    BY <2>1, <2>2 DEF Inv, ListedHasObject
<1>3. CASE CreateGivesUp(t) \/ Destroy2Skips(t) \/ Destroy2GivesUp(t)
  BY <1>3 DEF CreateGivesUp, Destroy2Skips, Destroy2GivesUp
<1>4. CASE \/ CreateFound(t) \/ CreateNull(t) \/ DropHandle(t) \/ Destroy1(t)
           \/ Destroy2Absent(t) \/ OwnerLock(t) \/ OwnerUnlock(t)
  <2>1. UNCHANGED maps /\ UNCHANGED <<where, ptr, spc>>
    BY <1>4 DEF CreateFound, CreateNull, DropHandle, Destroy1, Destroy2Absent,
       OwnerLock, OwnerUnlock, maps, shm, sub
  <2>2. \A q \in Subs, r \in Objects : Counts(q, r)' <=> Counts(q, r)
    BY <2>1 DEF Counts
  <2> QED
    BY <2>1, <2>2, CountingFrame DEF Inv, ListedHasObject
<1> QED
  BY <1>1, <1>2, <1>3, <1>4, <1>5 DEF ThreadStep

(* discovery_shm_, called for a retention that is not in obj_list. *)
LEMMA LookupInv ==
  ASSUME ManagerAssumption, GiveUp = FALSE, Inv, NEW s \in Subs,
         where[s] # "list", spc[s] = "idle",
         Retain(s) \/ Forgo(s),
         NEW next \in {"addwatch", "retire"}, At(s, next),
         UNCHANGED <<shm_obj_map, shm_obj_removed_map, mem>>
  PROVE  (ListedHasObject /\ Counting)'
<1> USE DEF Inv, TypeOK, At
<1>1. CASE Retain(s)
  <2>0. shm_obj_map[Segment(s)] \in Objects /\ Segment(s) \in Pids
    BY <1>1 DEF Retain, Hit, Segment
  <2> PICK o \in Objects : o = shm_obj_map[Segment(s)]
    BY <2>0
  <2>1. /\ ref_cnt' = [ref_cnt EXCEPT ![o] = @ + 1]
        /\ ptr' = [ptr EXCEPT ![s] = o]
        /\ where' = [where EXCEPT ![s] = "list"]
    BY <1>1 DEF Retain, TakeRef
  <2>2. mem[o] = "live" /\ o # NoObj
    BY <2>0, ManagerAssumption DEF Counting, MapsConsistent
  <2>3. \A q \in Subs, r \in Objects :
          Counts(q, r)' <=> Counts(q, r) \/ (q = s /\ r = o)
    BY <2>1 DEF Counts
  <2>4. ~Counts(s, o)
    BY DEF Counts
  <2>5. Counting'
    <3>1. TypeOK /\ Counting
      OBVIOUS
    <3> HIDE DEF TypeOK, Inv
    <3> QED
      BY <2>1, <2>2, <2>3, <2>4, <3>1, TakeOne
  <2>6. ListedHasObject'
    BY <2>1, <2>2 DEF ListedHasObject
  <2> QED
    BY <2>5, <2>6
<1>2. CASE Forgo(s)
  <2>1. UNCHANGED maps
    BY <1>2 DEF Forgo, maps
  <2>2. \A q \in Subs, r \in Objects : Counts(q, r)' <=> Counts(q, r)
    BY <1>2 DEF Forgo, Counts
  <2>3. ListedHasObject'
    BY <1>2 DEF Forgo, ListedHasObject
  <2> QED
    BY <2>1, <2>2, <2>3, CountingFrame
<1> QED
  BY <1>1, <1>2

LEMMA SubInv ==
  ASSUME ManagerAssumption, GiveUp = FALSE, Inv, NEW s \in Subs,
         UserStep(s) \/ MonitorStep(s) \/ MonitorNode(s) \/ SubCrashes(s)
  PROVE  (ListedHasObject /\ Counting)'
<1> USE DEF Inv, TypeOK, At
<1>1. CASE Discovery(s)
  BY <1>1, ManagerAssumption, LookupInv DEF Discovery, discovery_ext_map_
<1>2. CASE \/ LookupAborts(s) \/ RetireAborts(s)
           \/ NodeMonitorAborts(s) \/ LockObjectAborts(s) \/ SubCrashes(s)
  BY <1>2, SubDiesInv DEF RetireAborts, NodeMonitorAborts, LockObjectAborts,
     SubCrashes, LookupAborts
<1>3. CASE \/ LockObject(s) \/ EnterFunc(s) \/ UnlockObject(s)
           \/ AddWatch(s) \/ RetireNone(s)
  <2>1. UNCHANGED maps /\ UNCHANGED <<where, ptr>>
    BY <1>3 DEF LockObject, EnterFunc, UnlockObject, AddWatch, RetireNone,
       maps, shm
  <2>2. \A q \in Subs : spc'[q] = "unlock" <=> spc[q] = "unlock"
    BY <1>3 DEF LockObject, EnterFunc, UnlockObject, AddWatch, RetireNone
  <2>3. \A q \in Subs, r \in Objects : Counts(q, r)' <=> Counts(q, r)
    BY <2>1, <2>2 DEF Counts
  <2> QED
    BY <2>1, <2>2, <2>3, CountingFrame DEF ListedHasObject
<1>4. CASE HandleEvent(s)
  <2>1. CASE where[s] = "removed"
    BY <1>4, <2>1, ManagerAssumption, LookupInv DEF HandleEvent
  <2>2. CASE where[s] # "removed"
    <3>1. UNCHANGED maps /\ UNCHANGED <<where, ptr>>
      BY <1>4, <2>2 DEF HandleEvent, maps
    <3>2. \A q \in Subs : spc'[q] = "unlock" <=> spc[q] = "unlock"
      BY <1>4 DEF HandleEvent
    <3>3. \A q \in Subs, r \in Objects : Counts(q, r)' <=> Counts(q, r)
      BY <3>1, <3>2 DEF Counts
    <3> QED
      BY <3>1, <3>2, <3>3, CountingFrame DEF ListedHasObject
  <2> QED
    BY <2>1, <2>2
<1>5. CASE LookupGivesUp(s) \/ RetireGivesUp(s)
  BY <1>5 DEF LookupGivesUp, RetireGivesUp
<1>6. CASE Retire(s)
  <2>0. ptr[s] \in Objects /\ where[s] = "list" /\ spc[s] = "retire"
    BY <1>6 DEF Retire, Retires, ListedHasObject
  <2> PICK o \in Objects : o = ptr[s]
    BY <2>0
  <2>1. Counts(s, o)
    BY <2>0 DEF Counts
  <2>2. ref_cnt' = [ref_cnt EXCEPT ![o] = @ - 1]
    BY <1>6 DEF Retire
  <2>3. UNCHANGED <<shm_obj_map, shm_obj_removed_map, mem, where, ptr>>
    BY <1>6 DEF Retire
  <2>4. \A q \in Subs, r \in Objects : Counts(q, r)' <=> Counts(q, r) /\ q # s
    BY <1>6, <2>3 DEF Retire, Counts
  <2>5. Counting'
    BY <2>1, <2>2, <2>3, <2>4, GiveBack
  <2>6. ListedHasObject'
    BY <1>6, <2>0, <2>3 DEF Retire, ListedHasObject
  <2> QED
    BY <2>5, <2>6
<1>7. CASE RetireUnlock(s)
  <2>1. UNCHANGED maps
    BY <1>7 DEF RetireUnlock, maps
  <2>2. \A q \in Subs, r \in Objects : Counts(q, r)' <=> Counts(q, r)
    BY <1>7 DEF RetireUnlock, Counts
  <2>3. ListedHasObject'
    BY <1>7 DEF RetireUnlock, ListedHasObject
  <2> QED
    BY <2>1, <2>2, <2>3, CountingFrame
<1>8. CASE NodeMonitor(s)
  <2>1. CASE where[s] = "list"
    <3>0. ptr[s] \in Objects /\ spc[s] = "idle"
      BY <1>8, <2>1 DEF NodeMonitor, ListedHasObject
    <3> PICK o \in Objects : o = ptr[s]
      BY <3>0
    <3>1. Counts(s, o)
      BY <2>1, <3>0 DEF Counts
    <3>2. ref_cnt' = [ref_cnt EXCEPT ![o] = @ - 1]
      BY <1>8, <2>1 DEF NodeMonitor
    <3>3. /\ UNCHANGED <<shm_obj_map, shm_obj_removed_map, mem, ptr, spc>>
          /\ where' = [where EXCEPT ![s] = "removed"]
      BY <1>8, <2>1 DEF NodeMonitor
    <3>4. \A q \in Subs, r \in Objects : Counts(q, r)' <=> Counts(q, r) /\ q # s
      BY <3>3 DEF Counts
    <3>5. Counting'
      BY <3>1, <3>2, <3>3, <3>4, GiveBack
    <3>6. ListedHasObject'
      BY <3>0, <3>3 DEF ListedHasObject
    <3> QED
      BY <3>5, <3>6
  <2>2. CASE where[s] # "list"
    <3>1. UNCHANGED maps /\ UNCHANGED <<where, ptr, spc>>
      BY <1>8, <2>2 DEF NodeMonitor, maps
    <3>2. \A q \in Subs, r \in Objects : Counts(q, r)' <=> Counts(q, r)
      BY <3>1 DEF Counts
    <3> QED
      BY <3>1, <3>2, CountingFrame DEF ListedHasObject
  <2> QED
    BY <2>1, <2>2
<1> QED
  BY <1>1, <1>2, <1>3, <1>4, <1>5, <1>6, <1>7, <1>8
     DEF UserStep, MonitorStep, MonitorNode

LEMMA InvInit == Init => Inv
<1> SUFFICES ASSUME Init PROVE Inv
  OBVIOUS
<1>1. TypeOK
  BY TypeInit
<1>2. ListedHasObject
  BY DEF Init, ListedHasObject
<1>3. RefCountExact /\ RetainedIsLive
  BY DEF Init, RefCountExact, RetainedIsLive, Counts
<1>4. MapsConsistent /\ MapInjective
  BY DEF Init, MapsConsistent, MapInjective
<1> QED
  BY <1>1, <1>2, <1>3, <1>4 DEF Inv, Counting

LEMMA InvNext ==
  ASSUME GiveUp = FALSE, Inv, [Next]_vars PROVE Inv'
<1>1. TypeOK'
  BY TypeNext DEF Inv
<1>2. CASE PublisherCrash
  BY <1>1, <1>2, PublisherDiesInv DEF PublisherCrash, Inv
<1>3. CASE PublisherRestart \/ OtherClose \/ UNCHANGED vars
  <2>1. UNCHANGED maps /\ UNCHANGED <<where, ptr, spc>>
    BY <1>3 DEF PublisherRestart, OtherClose, vars, maps, shm, sub
  <2>2. \A q \in Subs, r \in Objects : Counts(q, r)' <=> Counts(q, r)
    BY <2>1 DEF Counts
  <2> QED
    BY <1>1, <2>1, <2>2, CountingFrame DEF Inv, ListedHasObject
<1> QED
  BY <1>1, <1>2, <1>3, ManagerAssumption, ThreadInv, SubInv DEF Next, Inv

-----------------------------------------------------------------------------
(* The invariant behind reference counting holds in every execution in      *)
(* which no lock area gives up.                                             *)
LEMMA Invariance == ASSUME GiveUp = FALSE PROVE Spec => []Inv
<1>1. Init => Inv
  BY InvInit
<1>2. Inv /\ [Next]_vars => Inv'
  BY InvNext
<1> QED
  BY <1>1, <1>2, PTL DEF Spec

(* ref_cnt is at all times the exact number of users of an object: its      *)
(* shm_obj_map and the subscribers that hold it, whoever crashes when.      *)
THEOREM ReferencesAreCounted ==
  ASSUME GiveUp = FALSE PROVE Spec => []RefCountExact
<1>1. Inv => RefCountExact
  BY DEF Inv, Counting
<1> QED
  BY <1>1, Invariance, PTL

(* destroy() and its sweep never release an object that some subscriber has *)
(* in its obj_list.                                                         *)
THEOREM RetainedStaysLive ==
  ASSUME GiveUp = FALSE PROVE Spec => []RetainedIsLive
<1>1. Inv => RetainedIsLive
  BY DEF Inv, Counting
<1> QED
  BY <1>1, Invariance, PTL

(* The object maps of all incarnations refer to live objects only, each     *)
(* reachable in one way: nothing is released twice.                         *)
THEOREM MapsStayConsistent ==
  ASSUME GiveUp = FALSE PROVE Spec => []MapsConsistent
<1>1. Inv => MapsConsistent
  BY DEF Inv, Counting
<1> QED
  BY <1>1, Invariance, PTL
-----------------------------------------------------------------------------
(* A dead publisher has no retention, and its thread lists none while it is *)
(* between the two parts of destroy().                                      *)
DestroyedIsUnlisted ==
  /\ ~up => own = "none" /\ \A t \in Threads : tpc[t] = "idle"
  /\ \A t \in Threads : tpc[t] = "destroy2" => own # "list"

Listing == TypeOK /\ ListedIsMapped /\ DestroyedIsUnlisted

LEMMA PublisherEndsListing ==
  ASSUME TypeOK, NEW held, NEW in_map, PublisherEnds(held, in_map)
  PROVE  (ListedIsMapped /\ DestroyedIsUnlisted)'
  BY DEF PublisherEnds, ListedIsMapped, DestroyedIsUnlisted

LEMMA ThreadListing ==
  ASSUME \A t, u \in Threads : t = u,
         Listing, NEW t \in Threads, ThreadStep(t)
  PROVE  (ListedIsMapped /\ DestroyedIsUnlisted)'
<1> USE DEF Listing, TypeOK, ListedIsMapped, DestroyedIsUnlisted, pub, shm
<1>1. CASE CreateFound(t) \/ CreateNull(t) \/ CreateGivesUp(t) \/ DropHandle(t)
  BY <1>1 DEF CreateFound, CreateNull, CreateGivesUp, DropHandle
<1>2. CASE CreateNew(t)
  BY <1>2 DEF CreateNew, Ready
<1>3. CASE Destroy1(t)
  BY <1>3 DEF Destroy1, Ready
<1>4. CASE \/ Destroy2Absent(t) \/ Destroy2(t)
           \/ Destroy2Skips(t) \/ Destroy2GivesUp(t)
  BY <1>4 DEF Destroy2Absent, Destroy2, Destroy2Skips, Destroy2GivesUp
<1>5. CASE Destroy2Aborts(t) \/ SweepAborts(t) \/ MapAborts(t) \/ OwnerLockAborts(t)
  BY <1>5, PublisherEndsListing
  DEF Destroy2Aborts, SweepAborts, MapAborts, OwnerLockAborts, PublisherDies
<1>6. CASE OwnerLock(t) \/ OwnerUnlock(t)
  <2>1. /\ UNCHANGED <<pid, up, own, ownPtr, shm_obj_map>>
        /\ \E where_ \in {"func", "idle"} : tpc' = [tpc EXCEPT ![t] = where_]
        /\ up /\ tpc[t] # "destroy2"
    BY <1>6 DEF OwnerLock, OwnerUnlock, Ready
  <2> QED
    BY <2>1
<1> QED
  BY <1>1, <1>2, <1>3, <1>4, <1>5, <1>6 DEF ThreadStep

LEMMA SubListing ==
  ASSUME NEW s \in Subs, UserStep(s) \/ MonitorStep(s) \/ MonitorNode(s) \/ SubCrashes(s)
  PROVE  UNCHANGED <<pid, up, own, ownPtr, tpc, shm_obj_map>>
<1> USE DEF pub, shm, SubDies
<1>1. CASE UserStep(s)
  BY <1>1 DEF UserStep, Discovery, LookupAborts, LookupGivesUp, LockObject, LockObjectAborts, EnterFunc,
     UnlockObject
<1>2. CASE MonitorStep(s)
  BY <1>2 DEF MonitorStep, AddWatch, HandleEvent, LookupAborts, LookupGivesUp, RetireNone, Retire,
     RetireUnlock, RetireAborts, RetireGivesUp
<1>3. CASE MonitorNode(s) \/ SubCrashes(s)
  BY <1>3 DEF MonitorNode, NodeMonitor, NodeMonitorAborts, SubCrashes
<1> QED
  BY <1>1, <1>2, <1>3

(* With one thread that creates and destroys, what the publisher has in its *)
(* obj_list is what its map lists, even when lock areas give up half way    *)
(* and whoever crashes; no two destroy() calls can overlap then.            *)
THEOREM ListedStaysMapped ==
  ASSUME \A t, u \in Threads : t = u PROVE Spec => []ListedIsMapped
<1>1. Init => Listing
  BY TypeInit DEF Init, Listing, ListedIsMapped, DestroyedIsUnlisted
<1>2. Listing /\ [Next]_vars => Listing'
  <2> SUFFICES ASSUME Listing, [Next]_vars PROVE (ListedIsMapped /\ DestroyedIsUnlisted)'
    BY TypeNext DEF Listing
  <2>1. CASE PublisherCrash
    BY <2>1, PublisherEndsListing DEF PublisherCrash, PublisherDies, Listing
  <2>2. CASE PublisherRestart
    BY <2>2 DEF PublisherRestart, Listing, ListedIsMapped, DestroyedIsUnlisted, shm
  <2>3. CASE OtherClose \/ UNCHANGED vars
    BY <2>3 DEF OtherClose, vars, pub, shm, Listing, ListedIsMapped, DestroyedIsUnlisted
  <2>4. ASSUME NEW t \in Threads, ThreadStep(t)
        PROVE  (ListedIsMapped /\ DestroyedIsUnlisted)'
    BY <2>4, ThreadListing
  <2>5. ASSUME NEW s \in Subs, UserStep(s) \/ MonitorStep(s) \/ MonitorNode(s) \/ SubCrashes(s)
        PROVE  (ListedIsMapped /\ DestroyedIsUnlisted)'
    BY <2>5, SubListing DEF Listing, ListedIsMapped, DestroyedIsUnlisted
  <2> QED
    BY <2>1, <2>2, <2>3, <2>4, <2>5 DEF Next
<1>3. Listing => ListedIsMapped
  BY DEF Listing
<1> QED
  BY <1>1, <1>2, <1>3, PTL DEF Spec
=============================================================================
