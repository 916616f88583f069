--------------------------- MODULE ShmObjManager ---------------------------
(***************************************************************************)
(* Shared objects of one node (local/impl/shmobj_manager.{hpp,cpp}): a     *)
(* publisher process creates, locks and destroys the object of one key in  *)
(* its shared segment; subscriber processes discover it, are told of       *)
(* changes through inotify, lock it, and release it; either may die.       *)
(*                                                                         *)
(* One key of one node is modelled: keys only share the maps they are      *)
(* stored in. A code block that holds shm_obj_map_mutex or node_map_mutex_ *)
(* from start to end is one action unless another process or thread can    *)
(* see its middle; program counters mark the places where it can.          *)
(***************************************************************************)
EXTENDS Integers, FiniteSets

CONSTANTS Threads,      \* threads of the publisher process
          Destroyers,   \* those that call destroy()
          Subs,         \* subscriber processes
          Objects,      \* the ObjectInfo records that may be allocated
          NoObj,        \* a null ObjectInfo*
          MaxPid,       \* incarnations of the publisher
          PubCrash,     \* whether the publisher may die
          SubCrash,     \* the subscribers that may die
          GiveUp,       \* whether a lock area may give up on a busy mutex: an
                        \* object's when held, the map's, which all keys of
                        \* the node share, at any time
          OtherClosers  \* whether other files of the node are closed too

Pids == 1 .. MaxPid

ASSUME ManagerAssumption ==
  /\ Destroyers \subseteq Threads
  /\ IsFiniteSet(Subs)
  /\ NoObj \notin Objects
  /\ MaxPid \in Nat \ {0}
  /\ PubCrash \in BOOLEAN /\ GiveUp \in BOOLEAN /\ OtherClosers \in BOOLEAN
  /\ SubCrash \subseteq Subs

VARIABLES
  \* the publisher process
  pid, up,       \* its incarnation, and whether that one is alive
  own, ownPtr,   \* where its retention is filed, and the retention's ptr_
  handle,        \* threads that hold a shared_ptr to the retention
  tpc,           \* control point of each thread
  \* the shared segments, one per incarnation
  shm_obj_map, shm_obj_removed_map,
  mem,           \* allocation state of each ObjectInfo
  ref_cnt, is_destroy,
  obj_mutex,     \* "free", "held", or "orphan": its holder died
  map_mutex,     \* shm_obj_map_mutex, "free" between blocks, or "orphan"
  \* the subscriber processes
  att,           \* incarnation attached as the node's shared_info, 0: none
  where,         \* where the retention is filed
  ptr,           \* the retention's ptr_
  weak,          \* incarnation its weak pointers refer to, 0: reset
  spc,           \* control point of the holder of node_map_mutex_
  upc, lk,       \* control point of lock_object_, and the mutex it took
  \* inotify
  watch,         \* subscribers watching the directory of the node
  event          \* subscribers with an unread event

pub  == <<pid, up, own, ownPtr, handle, tpc>>
shm  == <<shm_obj_map, shm_obj_removed_map, mem, ref_cnt, is_destroy,
          obj_mutex, map_mutex>>
sub  == <<att, where, ptr, weak, spc, upc, lk>>
vars == <<pub, shm, sub, watch, event>>

Places == {"none", "list", "removed"}   \* obj_list, obj_removed_list

TypeOK ==
  /\ pid \in Pids /\ up \in BOOLEAN
  /\ own \in Places /\ ownPtr \in Objects \cup {NoObj}
  /\ handle \subseteq Threads
  /\ tpc \in [Threads -> {"idle", "destroy2", "func"}]
  /\ shm_obj_map \in [Pids -> Objects \cup {NoObj}]
  /\ shm_obj_removed_map \in [Pids -> SUBSET Objects]
  /\ mem \in [Objects -> {"unborn", "live", "freed"}]
  /\ ref_cnt \in [Objects -> Int]
  /\ is_destroy \in [Objects -> BOOLEAN]
  /\ obj_mutex \in [Objects -> {"free", "held", "orphan"}]
  /\ map_mutex \in [Pids -> {"free", "orphan"}]
  /\ att \in [Subs -> Pids \cup {0}]
  /\ where \in [Subs -> Places]
  /\ ptr \in [Subs -> Objects \cup {NoObj}]
  /\ weak \in [Subs -> Pids \cup {0}]
  /\ spc \in [Subs -> {"idle", "addwatch", "retire", "spent", "unlock", "dead"}]
  /\ upc \in [Subs -> {"idle", "locked", "func"}]
  /\ lk \in [Subs -> Objects \cup {NoObj}]
  /\ watch \subseteq Subs /\ event \subseteq Subs

Init ==
  /\ pid = 1 /\ up = TRUE
  /\ own = "none" /\ ownPtr = NoObj /\ handle = {}
  /\ tpc = [t \in Threads |-> "idle"]
  /\ shm_obj_map = [i \in Pids |-> NoObj]
  /\ shm_obj_removed_map = [i \in Pids |-> {}]
  /\ mem = [o \in Objects |-> "unborn"]
  /\ ref_cnt = [o \in Objects |-> 0]
  /\ is_destroy = [o \in Objects |-> FALSE]
  /\ obj_mutex = [o \in Objects |-> "free"]
  /\ map_mutex = [i \in Pids |-> "free"]
  /\ att = [s \in Subs |-> 0]
  /\ where = [s \in Subs |-> "none"]
  /\ ptr = [s \in Subs |-> NoObj]
  /\ weak = [s \in Subs |-> 0]
  /\ spc = [s \in Subs |-> "idle"]
  /\ upc = [s \in Subs |-> "idle"]
  /\ lk = [s \in Subs |-> NoObj]
  /\ watch = {} /\ event = {}

-----------------------------------------------------------------------------
(* A file of the node's directory is opened and closed: every watcher gets  *)
(* an IN_CLOSE event, merged with an equal one it has not read yet.         *)
Touch == event' = event \cup watch

(* ~ProcessMutex: abort() if the mutex is in use. *)
MayDestroyMutex(o) == obj_mutex[o] = "free"

(* A read of is_destroy may give m: the bytes of released memory may hold   *)
(* anything.                                                                *)
MayRead(o, m) == mem[o] = "freed" \/ is_destroy[o] = m

(* The publisher process ends, by a crash or by abort(): the kernel marks   *)
(* the robust mutexes it holds and closes its files.                        *)
PublisherEnds(held, in_map) ==
  /\ up' = FALSE
  /\ own' = "none" /\ ownPtr' = NoObj /\ handle' = {}
  /\ tpc' = [t \in Threads |-> "idle"]
  /\ obj_mutex' = [o \in Objects |->
                     IF \/ o \in held
                        \/ o = ownPtr /\ \E t \in Threads : tpc[t] = "func"
                       THEN "orphan" ELSE obj_mutex[o]]
  /\ map_mutex' = IF in_map THEN [map_mutex EXCEPT ![pid] = "orphan"]
                             ELSE map_mutex
  /\ Touch
  /\ UNCHANGED <<pid, shm_obj_map, ref_cnt, sub, watch>>

PublisherDies(in_map) ==
  /\ PublisherEnds({}, in_map)
  /\ UNCHANGED <<shm_obj_removed_map, mem, is_destroy>>

(* A crash may come just when a thread has locked the map. *)
PublisherCrash ==
  /\ PubCrash /\ up
  /\ \E in_map \in BOOLEAN : PublisherDies(in_map)

(* ShmObjManager::init in a new process: new segment, new empty maps. *)
PublisherRestart ==
  /\ ~up /\ pid < MaxPid
  /\ pid' = pid + 1 /\ up' = TRUE
  /\ Touch
  /\ UNCHANGED <<own, ownPtr, handle, tpc, shm, sub, watch>>

Ready(t) == up /\ tpc[t] = "idle"

(* The publisher can lock its map, ... *)
MapIsFree == map_mutex[pid] = "free"

(* ... or create() and destroy() end in the abort() of timedlock().         *)
MapAborts(t) ==
  /\ (Ready(t) /\ own # "list") \/ tpc[t] = "destroy2"
  /\ ~MapIsFree
  /\ PublisherDies(FALSE)

(* create() finds the retention in obj_list and returns it. *)
CreateFound(t) ==
  /\ Ready(t) /\ own = "list"
  /\ handle' = handle \cup {t}
  /\ UNCHANGED <<pid, up, own, ownPtr, tpc, shm, sub, watch, event>>

(* create() allocates the object with reference count 1, maps it, files a   *)
(* new retention or the one remembered in obj_removed_list, and notifies.   *)
CreateNew(t) ==
  /\ Ready(t) /\ own # "list" /\ MapIsFree
  /\ shm_obj_map[pid] = NoObj
  /\ \E o \in Objects :
       /\ mem[o] = "unborn"
       /\ mem' = [mem EXCEPT ![o] = "live"]
       /\ ref_cnt' = [ref_cnt EXCEPT ![o] = 1]
       /\ shm_obj_map' = [shm_obj_map EXCEPT ![pid] = o]
       /\ ownPtr' = o
  /\ own' = "list"
  /\ handle' = handle \cup {t}
  /\ Touch
  /\ UNCHANGED <<pid, up, tpc, shm_obj_removed_map, is_destroy,
                 obj_mutex, map_mutex, sub, watch>>

(* create() finds the key in shm_obj_map but not in obj_list: null. *)
CreateNull(t) ==
  /\ Ready(t) /\ own # "list" /\ MapIsFree
  /\ shm_obj_map[pid] # NoObj
  /\ handle' = handle \ {t}
  /\ UNCHANGED <<pid, up, own, ownPtr, tpc, shm, sub, watch, event>>

(* create() gives up on the map's mutex: null. *)
CreateGivesUp(t) ==
  /\ GiveUp
  /\ Ready(t) /\ own # "list" /\ MapIsFree
  /\ handle' = handle \ {t}
  /\ UNCHANGED <<pid, up, own, ownPtr, tpc, shm, sub, watch, event>>

(* The caller drops its shared_ptr. *)
DropHandle(t) ==
  /\ Ready(t) /\ t \in handle
  /\ handle' = handle \ {t}
  /\ UNCHANGED <<pid, up, own, ownPtr, tpc, shm, sub, watch, event>>

(* Mutant: a retention that is still referenced stays in obj_list. *)
Destroy1KeepsListed(t) ==
  /\ Ready(t) /\ t \in Destroyers
  /\ IF own = "list"
       THEN /\ \A u \in Threads : tpc[u] # "func"
            /\ ownPtr' = NoObj
            /\ own' = IF handle # {} THEN "list" ELSE "none"
       ELSE UNCHANGED <<own, ownPtr>>
  /\ tpc' = [tpc EXCEPT ![t] = "destroy2"]
  /\ UNCHANGED <<pid, up, handle, shm, sub, watch, event>>

(* destroy(), first part, under node_map_mutex_ and the retention's lock_:  *)
(* the retention loses its pointers and is remembered if still referenced.  *)
Destroy1(t) ==
  /\ Ready(t) /\ t \in Destroyers
  /\ IF own = "list"
       THEN /\ \A u \in Threads : tpc[u] # "func"
            /\ ownPtr' = NoObj
            /\ own' = IF handle # {} THEN "removed" ELSE "none"
       ELSE UNCHANGED <<own, ownPtr>>
  /\ tpc' = [tpc EXCEPT ![t] = "destroy2"]
  /\ UNCHANGED <<pid, up, handle, shm, sub, watch, event>>

(* destroy(), second part, when the key is not (any more) in shm_obj_map. *)
Destroy2Absent(t) ==
  /\ tpc[t] = "destroy2" /\ MapIsFree
  /\ shm_obj_map[pid] = NoObj
  /\ tpc' = [tpc EXCEPT ![t] = "idle"]
  /\ UNCHANGED <<pid, up, own, ownPtr, handle, shm, sub, watch, event>>

(* destroy(), second part, when the lock area gives up on the map's mutex:  *)
(* the object stays mapped and unmarked, nobody is told.                    *)
Destroy2Skips(t) ==
  /\ GiveUp
  /\ tpc[t] = "destroy2" /\ MapIsFree
  /\ tpc' = [tpc EXCEPT ![t] = "idle"]
  /\ UNCHANGED <<pid, up, own, ownPtr, handle, shm, sub, watch, event>>

(* Mutant: the count of an object that nobody uses is taken to be 1. *)
UnreferencedOffByOne(o) == ref_cnt[o] <= 1

(* clear_shm_obj_remove_map_: what it releases. *)
Unreferenced(o) == ref_cnt[o] = 0
Swept == {o \in shm_obj_removed_map[pid] : Unreferenced(o)}

(* Mutant: what is released is not erased. *)
UnsweptAll == shm_obj_removed_map[pid]

(* What it leaves. *)
Unswept == shm_obj_removed_map[pid] \ Swept

(* destroy() releases the object at once if only the map references it. *)
OnlyMapped(o) == ref_cnt[o] = 1

(* destroy(), second part: mark the object, sweep the removed map, release  *)
(* the object or keep it in the removed map, unmap it, notify.              *)
Destroy2(t) ==
  LET o == shm_obj_map[pid]
      kept == ~OnlyMapped(o)
      released == Swept \cup (IF kept THEN {} ELSE {o})
  IN /\ tpc[t] = "destroy2" /\ MapIsFree
     /\ o # NoObj /\ obj_mutex[o] = "free"
     /\ \A r \in Swept : MayDestroyMutex(r)
     /\ is_destroy' = [is_destroy EXCEPT ![o] = TRUE]
     /\ mem' = [r \in Objects |-> IF r \in released THEN "freed" ELSE mem[r]]
     /\ ref_cnt' = IF kept THEN [ref_cnt EXCEPT ![o] = @ - 1] ELSE ref_cnt
     /\ shm_obj_removed_map' =
          [shm_obj_removed_map EXCEPT
             ![pid] = Unswept \cup (IF kept THEN {o} ELSE {})]
     /\ shm_obj_map' = [shm_obj_map EXCEPT ![pid] = NoObj]
     /\ tpc' = [tpc EXCEPT ![t] = "idle"]
     /\ Touch
     /\ UNCHANGED <<pid, up, own, ownPtr, handle, obj_mutex,
                    map_mutex, sub,
                    watch>>

(* destroy(), second part, ending in abort() because the mutex of the       *)
(* object was left by a dead process, ...                                   *)
Destroy2Aborts(t) ==
  /\ tpc[t] = "destroy2" /\ MapIsFree
  /\ shm_obj_map[pid] # NoObj /\ obj_mutex[shm_obj_map[pid]] = "orphan"
  /\ PublisherDies(TRUE)

(* ... or because the sweep destroys a mutex that is in use, after it has   *)
(* released some of the objects.                                            *)
SweepAborts(t) ==
  LET o == shm_obj_map[pid]
  IN /\ tpc[t] = "destroy2" /\ MapIsFree
     /\ o # NoObj /\ obj_mutex[o] = "free"
     /\ \E r \in Swept : ~MayDestroyMutex(r)
     /\ is_destroy' = [is_destroy EXCEPT ![o] = TRUE]
     /\ \E done \in SUBSET {r \in Swept : MayDestroyMutex(r)} :
          /\ mem' = [r \in Objects |-> IF r \in done THEN "freed" ELSE mem[r]]
          /\ shm_obj_removed_map' = [shm_obj_removed_map EXCEPT ![pid] = @ \ done]
     /\ PublisherEnds({o}, TRUE)

(* destroy(), second part, when the lock area gives up on the object: it is *)
(* unmapped all the same, unmarked, its reference never returned.           *)
Destroy2GivesUp(t) ==
  /\ GiveUp
  /\ tpc[t] = "destroy2" /\ MapIsFree
  /\ shm_obj_map[pid] # NoObj /\ obj_mutex[shm_obj_map[pid]] = "held"
  /\ shm_obj_map' = [shm_obj_map EXCEPT ![pid] = NoObj]
  /\ tpc' = [tpc EXCEPT ![t] = "idle"]
  /\ Touch
  /\ UNCHANGED <<pid, up, own, ownPtr, handle, shm_obj_removed_map, mem,
                 ref_cnt, is_destroy, obj_mutex, map_mutex, sub, watch>>

(* lock_object_ in the publisher: the callback runs with the retention's    *)
(* lock_ and the object's mutex, unless the object is marked.               *)
OwnerLock(t) ==
  /\ Ready(t) /\ t \in handle
  /\ ownPtr # NoObj /\ MayRead(ownPtr, FALSE)
  /\ \A u \in Threads : tpc[u] # "func"
  /\ obj_mutex[ownPtr] = "free"
  /\ obj_mutex' = [obj_mutex EXCEPT ![ownPtr] = "held"]
  /\ tpc' = [tpc EXCEPT ![t] = "func"]
  /\ UNCHANGED <<pid, up, own, ownPtr, handle, sub, watch, event>>
  /\ UNCHANGED <<shm_obj_map, shm_obj_removed_map, mem, ref_cnt, is_destroy,
                 map_mutex>>

(* timedlock() on a mutex whose holder died. *)
OwnerLockAborts(t) ==
  /\ Ready(t) /\ t \in handle
  /\ ownPtr # NoObj /\ obj_mutex[ownPtr] = "orphan"
  /\ PublisherDies(FALSE)

OwnerUnlock(t) ==
  /\ tpc[t] = "func"
  /\ obj_mutex' = [obj_mutex EXCEPT ![ownPtr] = "free"]
  /\ tpc' = [tpc EXCEPT ![t] = "idle"]
  /\ UNCHANGED <<pid, up, own, ownPtr, handle, sub, watch, event>>
  /\ UNCHANGED <<shm_obj_map, shm_obj_removed_map, mem, ref_cnt, is_destroy,
                 map_mutex>>

-----------------------------------------------------------------------------
At(s, where_) == spc' = [spc EXCEPT ![s] = where_]

(* A subscriber process ends, holding the map mutex of incarnation map (0:  *)
(* of none). The references it counted stay counted: once its retire step   *)
(* has given one back, the retention no longer stands for it.               *)
SubDies(s, map) ==
  /\ At(s, "dead")
  /\ upc' = [upc EXCEPT ![s] = "idle"]
  /\ where' = [where EXCEPT ![s] = IF spc[s] = "unlock" THEN "removed" ELSE @]
  /\ att' = [att EXCEPT ![s] = 0]
  /\ obj_mutex' = [o \in Objects |->
                     IF \/ spc[s] = "unlock" /\ o = ptr[s]
                        \/ upc[s] # "idle" /\ o = lk[s]
                       THEN "orphan" ELSE obj_mutex[o]]
  /\ map_mutex' = [i \in Pids |-> IF i = map THEN "orphan" ELSE map_mutex[i]]
  /\ watch' = watch \ {s} /\ event' = event \ {s}
  /\ UNCHANGED <<pub, shm_obj_map, shm_obj_removed_map, mem, ref_cnt, is_destroy>>
  /\ UNCHANGED <<ptr, weak, lk>>

(* discovery_shm_ uses the segment the node is attached to, if any, even    *)
(* when the file it is looking at belongs to a newer incarnation.           *)
Segment(s) == IF att[s] # 0 THEN att[s] ELSE pid

(* The segment has another attachment: is_busy(). *)
Busy(s) == Segment(s) = pid \/ \E q \in Subs \ {s} : att[q] = Segment(s)

(* discovery_shm_ is called for the key, and locks the map of the segment.  *)
LooksUp(s) ==
  /\ spc[s] = "idle"
  /\ where[s] = "none" \/ (s \in event /\ where[s] = "removed")
  /\ up /\ Busy(s)

(* A crash may come just then. *)
SubCrashes(s) ==
  /\ s \in SubCrash /\ spc[s] # "dead"
  /\ SubDies(s, 0) \/ (LooksUp(s) /\ SubDies(s, Segment(s)))

(* discovery_shm_ may find the key: some incarnation is alive, and the      *)
(* segment is in use and maps it. ...                                       *)
Hit(s) ==
  /\ up /\ Busy(s)
  /\ map_mutex[Segment(s)] = "free"
  /\ shm_obj_map[Segment(s)] # NoObj

(* ... It may miss it: nothing is mapped, or the segment is the one of a    *)
(* dead incarnation, whose key file may be gone so that it looks unused.    *)
Miss(s) ==
  ~up \/ Segment(s) # pid \/ (MapIsFree /\ shm_obj_map[pid] = NoObj)

(* The reference discovery_shm_ takes, under the object's mutex. *)
TakeRef(o) == ref_cnt' = [ref_cnt EXCEPT ![o] = @ + 1]

(* discovery_shm_ returns true: the retention gets the object. *)
Retain(s) ==
  LET a == Segment(s)
      o == shm_obj_map[a]
  IN /\ Hit(s)
     /\ \/ obj_mutex[o] = "free" /\ TakeRef(o)
        \/ GiveUp /\ obj_mutex[o] = "held" /\ UNCHANGED ref_cnt
     /\ att' = [att EXCEPT ![s] = a]
     /\ weak' = [weak EXCEPT ![s] = a]
     /\ ptr' = [ptr EXCEPT ![s] = o]
     /\ where' = [where EXCEPT ![s] = "list"]

(* discovery_shm_ returns false; a known node keeps a fresh attachment. *)
Forgo(s) ==
  /\ Miss(s)
  /\ att' = [att EXCEPT ![s] = IF up /\ where[s] # "none" THEN Segment(s) ELSE @]
  /\ where' = [where EXCEPT ![s] = "removed"]
  /\ UNCHANGED <<weak, ptr, ref_cnt>>

(* The mutex of the map, or of the object, was left by a dead process:      *)
(* timedlock() aborts.                                                      *)
LookupAborts(s) ==
  /\ LooksUp(s)
  /\ \/ map_mutex[Segment(s)] = "orphan" /\ SubDies(s, 0)
     \/ /\ Hit(s) /\ obj_mutex[shm_obj_map[Segment(s)]] = "orphan"
        /\ SubDies(s, Segment(s))

(* The lock area of discovery_shm_ on the mutex of the map gives up, which  *)
(* create() still holds while it notifies: discovery_shm_ returns false,    *)
(* the event that led to it is spent. A known node stays attached.          *)
LookupGivesUp(s) ==
  /\ GiveUp
  /\ LooksUp(s) /\ map_mutex[Segment(s)] = "free"
  /\ att' = [att EXCEPT ![s] = IF where[s] # "none" THEN Segment(s) ELSE @]
  /\ where' = [where EXCEPT ![s] = "removed"]
  /\ event' = event \ {s}
  /\ At(s, IF where[s] = "none" THEN "addwatch" ELSE "spent")
  /\ UNCHANGED <<pub, shm, ptr, weak, upc, lk, watch>>

(* The retention of the key is in obj_list or in obj_removed_list. *)
discovery_ext_map_(s) == where[s] # "none"

(* discovery(), up to the lookup: the first call for this key. Later calls  *)
(* find the retention.                                                      *)
Discovery(s) ==
  /\ spc[s] = "idle" /\ ~discovery_ext_map_(s)
  /\ Retain(s) \/ Forgo(s)
  /\ At(s, "addwatch")
  /\ UNCHANGED <<pub, shm_obj_map, shm_obj_removed_map, map_mutex, mem,
                 is_destroy, obj_mutex>>
  /\ UNCHANGED <<upc, lk, watch, event>>

(* discovery(), the rest: inotify_monitor_->add(node_path, IN_CLOSE). *)
AddWatch(s) ==
  /\ spc[s] = "addwatch"
  /\ watch' = watch \cup {s}
  /\ At(s, "idle")
  /\ UNCHANGED <<pub, shm, att, where, ptr, weak, upc, lk, event>>

(* Mutant: the second loop is skipped when the first has nothing to do. *)
HandleEventOnce(s) ==
  /\ spc[s] = "idle" /\ s \in event
  /\ event' = event \ {s}
  /\ IF where[s] = "removed"
       THEN Retain(s) \/ Forgo(s)
       ELSE UNCHANGED <<att, where, weak, ptr, ref_cnt>>
  /\ At(s, IF where[s] = "removed" THEN "retire" ELSE "idle")
  /\ UNCHANGED <<pub, shm_obj_map, shm_obj_removed_map, map_mutex, mem,
                 is_destroy, obj_mutex>>
  /\ UNCHANGED <<upc, lk, watch>>

(* inotify_shared_object_monitor_, first loop: look again for what is in    *)
(* obj_removed_list.                                                        *)
HandleEvent(s) ==
  /\ spc[s] = "idle" /\ s \in event
  /\ event' = event \ {s}
  /\ IF where[s] = "removed"
       THEN Retain(s) \/ Forgo(s)
       ELSE UNCHANGED <<att, where, weak, ptr, ref_cnt>>
  /\ At(s, "retire")
  /\ UNCHANGED <<pub, shm_obj_map, shm_obj_removed_map, map_mutex, mem,
                 is_destroy, obj_mutex>>
  /\ UNCHANGED <<upc, lk, watch>>

(* The second loop gives up the objects that are marked, reading the mark   *)
(* before it takes the object's mutex.                                      *)
Retires(s) == where[s] = "list" /\ MayRead(ptr[s], TRUE)

RetireNone(s) ==
  /\ spc[s] \in {"retire", "spent"}
  /\ where[s] = "list" => MayRead(ptr[s], FALSE)
  /\ At(s, "idle")
  /\ UNCHANGED <<pub, shm, att, where, ptr, weak, upc, lk, watch, event>>

(* ref_cnt.fetch_sub(1) under the object's mutex ... *)
Retire(s) ==
  /\ spc[s] = "retire" /\ Retires(s)
  /\ obj_mutex[ptr[s]] = "free"
  /\ obj_mutex' = [obj_mutex EXCEPT ![ptr[s]] = "held"]
  /\ ref_cnt' = [ref_cnt EXCEPT ![ptr[s]] = @ - 1]
  /\ At(s, "unlock")
  /\ UNCHANGED <<pub, shm_obj_map, shm_obj_removed_map, map_mutex, mem,
                 is_destroy>>
  /\ UNCHANGED <<att, where, ptr, weak, upc, lk, watch, event>>

(* ... which is then released, and the retention moves to obj_removed_list  *)
(* with its ptr_ and weak pointers as they were.                            *)
RetireUnlock(s) ==
  /\ spc[s] = "unlock"
  /\ obj_mutex' = [obj_mutex EXCEPT ![ptr[s]] = "free"]
  /\ where' = [where EXCEPT ![s] = "removed"]
  /\ At(s, "idle")
  /\ UNCHANGED <<pub, shm_obj_map, shm_obj_removed_map, map_mutex, mem,
                 ref_cnt, is_destroy>>
  /\ UNCHANGED <<att, ptr, weak, upc, lk, watch, event>>

RetireAborts(s) ==
  /\ spc[s] = "retire" /\ Retires(s)
  /\ obj_mutex[ptr[s]] = "orphan"
  /\ SubDies(s, 0)

(* The lock area gives up: the reference is never returned. *)
RetireGivesUp(s) ==
  /\ GiveUp
  /\ spc[s] = "retire" /\ Retires(s)
  /\ obj_mutex[ptr[s]] = "held"
  /\ where' = [where EXCEPT ![s] = "removed"]
  /\ At(s, "idle")
  /\ UNCHANGED <<pub, shm, att, ptr, weak, upc, lk, watch, event>>

(* kill(self_pid, 0) != 0 for the incarnation the node is attached to. *)
NodeDied(s) == att[s] # 0 /\ ~(up /\ att[s] = pid)

(* Mutants of NodeMonitor: the attachment to a segment without a listed     *)
(* object is kept open; the reference is kept; a node without a listed      *)
(* object stays in the node map; -1 stands for no attachment.               *)
NodeMonitorQuiet(s) ==
  /\ spc[s] = "idle" /\ NodeDied(s)
  /\ IF where[s] = "list"
       THEN /\ obj_mutex[ptr[s]] = "free" \/ (GiveUp /\ obj_mutex[ptr[s]] = "held")
            /\ ref_cnt' = [ref_cnt EXCEPT ![ptr[s]] = @ - 1]
            /\ is_destroy' = [is_destroy EXCEPT ![ptr[s]] = TRUE]
            /\ where' = [where EXCEPT ![s] = "removed"]
            /\ weak' = [weak EXCEPT ![s] = 0]
       ELSE UNCHANGED <<ref_cnt, is_destroy, where, weak>>
  /\ att' = [att EXCEPT ![s] = 0]
  /\ UNCHANGED <<pub, shm_obj_map, shm_obj_removed_map, map_mutex, mem,
                 obj_mutex>>
  /\ UNCHANGED <<ptr, spc, upc, lk, watch, event>>

NodeMonitorLeaks(s) ==
  /\ spc[s] = "idle" /\ NodeDied(s)
  /\ IF where[s] = "list"
       THEN /\ obj_mutex[ptr[s]] = "free"
            /\ is_destroy' = [is_destroy EXCEPT ![ptr[s]] = TRUE]
            /\ where' = [where EXCEPT ![s] = "removed"]
            /\ weak' = [weak EXCEPT ![s] = 0]
       ELSE UNCHANGED <<is_destroy, where, weak>>
  /\ att' = [att EXCEPT ![s] = 0]
  /\ Touch
  /\ UNCHANGED <<pub, shm_obj_map, shm_obj_removed_map, map_mutex, mem,
                 ref_cnt, obj_mutex>>
  /\ UNCHANGED <<ptr, spc, upc, lk, watch>>

NodeMonitorListedOnly(s) ==
  /\ spc[s] = "idle" /\ NodeDied(s)
  /\ where[s] = "list" /\ obj_mutex[ptr[s]] = "free"
  /\ ref_cnt' = [ref_cnt EXCEPT ![ptr[s]] = @ - 1]
  /\ is_destroy' = [is_destroy EXCEPT ![ptr[s]] = TRUE]
  /\ where' = [where EXCEPT ![s] = "removed"]
  /\ weak' = [weak EXCEPT ![s] = 0]
  /\ att' = [att EXCEPT ![s] = 0]
  /\ Touch
  /\ UNCHANGED <<pub, shm_obj_map, shm_obj_removed_map, map_mutex, mem,
                 obj_mutex>>
  /\ UNCHANGED <<ptr, spc, upc, lk, watch>>

(* node_monitor_, for a node whose process died: release and mark its       *)
(* object, forget the attachment (which closes its file). The lock area     *)
(* runs the same function when it gives up.                                 *)
NodeMonitor(s) ==
  /\ spc[s] = "idle" /\ NodeDied(s)
  /\ IF where[s] = "list"
       THEN /\ obj_mutex[ptr[s]] = "free" \/ (GiveUp /\ obj_mutex[ptr[s]] = "held")
            /\ ref_cnt' = [ref_cnt EXCEPT ![ptr[s]] = @ - 1]
            /\ is_destroy' = [is_destroy EXCEPT ![ptr[s]] = TRUE]
            /\ where' = [where EXCEPT ![s] = "removed"]
            /\ weak' = [weak EXCEPT ![s] = 0]
       ELSE UNCHANGED <<ref_cnt, is_destroy, where, weak>>
  /\ att' = [att EXCEPT ![s] = 0]
  /\ Touch
  /\ UNCHANGED <<pub, shm_obj_map, shm_obj_removed_map, map_mutex, mem,
                 obj_mutex>>
  /\ UNCHANGED <<ptr, spc, upc, lk, watch>>

NodeMonitorAborts(s) ==
  /\ spc[s] = "idle" /\ NodeDied(s)
  /\ where[s] = "list" /\ obj_mutex[ptr[s]] = "orphan"
  /\ SubDies(s, 0)

(* lock_object_ checks the weak pointers and ptr_ before it locks. *)
Usable(s) ==
  /\ spc[s] # "dead" /\ where[s] # "none"
  /\ weak[s] # 0 /\ weak[s] = att[s]
  /\ ptr[s] # NoObj

(* lock_object_: take the object's mutex, without node_map_mutex_ ... *)
LockObject(s) ==
  /\ upc[s] = "idle" /\ Usable(s)
  /\ obj_mutex[ptr[s]] = "free"
  /\ obj_mutex' = [obj_mutex EXCEPT ![ptr[s]] = "held"]
  /\ lk' = [lk EXCEPT ![s] = ptr[s]]
  /\ upc' = [upc EXCEPT ![s] = "locked"]
  /\ UNCHANGED <<pub, shm_obj_map, shm_obj_removed_map, map_mutex, mem,
                 ref_cnt, is_destroy>>
  /\ UNCHANGED <<att, where, ptr, weak, spc, watch, event>>

LockObjectAborts(s) ==
  /\ upc[s] = "idle" /\ Usable(s)
  /\ obj_mutex[ptr[s]] = "orphan"
  /\ SubDies(s, 0)

(* ... then read ptr_ again: run the callback unless its object is marked. *)
EnterFunc(s) ==
  /\ upc[s] = "locked" /\ MayRead(ptr[s], FALSE)
  /\ upc' = [upc EXCEPT ![s] = "func"]
  /\ UNCHANGED <<pub, shm, att, where, ptr, weak, spc, lk, watch, event>>

UnlockObject(s) ==
  /\ upc[s] = "func" \/ (upc[s] = "locked" /\ MayRead(ptr[s], TRUE))
  /\ obj_mutex' = [obj_mutex EXCEPT ![lk[s]] = "free"]
  /\ upc' = [upc EXCEPT ![s] = "idle"]
  /\ lk' = [lk EXCEPT ![s] = NoObj]
  /\ UNCHANGED <<pub, shm_obj_map, shm_obj_removed_map, map_mutex, mem,
                 ref_cnt, is_destroy>>
  /\ UNCHANGED <<att, where, ptr, weak, spc, watch, event>>

(* Other closes in the directory: the temporary attachments discovery_shm_  *)
(* and clear_invalid_shm_ make to look into a segment.                      *)
OtherClose ==
  /\ OtherClosers
  /\ Touch
  /\ UNCHANGED <<pub, shm, sub, watch>>

-----------------------------------------------------------------------------
ThreadStep(t) ==
  \/ CreateFound(t) \/ CreateNew(t) \/ CreateNull(t) \/ CreateGivesUp(t)
  \/ DropHandle(t)
  \/ Destroy1(t) \/ Destroy2Absent(t) \/ Destroy2(t)
  \/ Destroy2Aborts(t) \/ SweepAborts(t) \/ MapAborts(t)
  \/ Destroy2Skips(t) \/ Destroy2GivesUp(t)
  \/ OwnerLock(t) \/ OwnerLockAborts(t) \/ OwnerUnlock(t)

UserStep(s) ==
  \/ Discovery(s)
  \/ where[s] = "none" /\ (LookupAborts(s) \/ LookupGivesUp(s))
  \/ LockObject(s) \/ LockObjectAborts(s) \/ EnterFunc(s) \/ UnlockObject(s)

MonitorStep(s) ==
  \/ AddWatch(s)
  \/ HandleEvent(s)
  \/ where[s] = "removed" /\ (LookupAborts(s) \/ LookupGivesUp(s))
  \/ RetireNone(s) \/ Retire(s) \/ RetireUnlock(s)
  \/ RetireAborts(s) \/ RetireGivesUp(s)

MonitorNode(s) == NodeMonitor(s) \/ NodeMonitorAborts(s)

Next ==
  \/ PublisherCrash \/ PublisherRestart \/ OtherClose
  \/ \E t \in Threads : ThreadStep(t)
  \/ \E s \in Subs : UserStep(s) \/ MonitorStep(s) \/ MonitorNode(s) \/ SubCrashes(s)

Spec == Init /\ [][Next]_vars

(* Threads keep running, callbacks return, the detached monitor threads     *)
(* never stop, and a lock area that retries on a mutex that is free again   *)
(* and again gets it.                                                       *)
FairSpec ==
  /\ Spec
  /\ \A t \in Threads :
       /\ WF_vars(Destroy2Absent(t)) /\ SF_vars(Destroy2(t))
       /\ WF_vars(Destroy2Aborts(t) \/ SweepAborts(t) \/ MapAborts(t))
       /\ WF_vars(OwnerUnlock(t))
  /\ \A s \in Subs :
       /\ WF_vars(EnterFunc(s) \/ UnlockObject(s))
       /\ SF_vars(MonitorStep(s)) /\ SF_vars(MonitorNode(s))

-----------------------------------------------------------------------------
(* A retention in obj_list stands for one counted reference, until its      *)
(* retire step has given it back.                                           *)
Counts(s, o) == where[s] = "list" /\ ptr[s] = o /\ spc[s] # "unlock"

Mapped(o) == \E i \in Pids : shm_obj_map[i] = o

RefHolders(o) == {s \in Subs : Counts(s, o)}

(* ref_cnt is exactly the number of the object's users: the map that lists  *)
(* it, and the subscribers (dead ones included) that hold it in obj_list,   *)
(* across creation, destruction, discovery, retirement, death and restart.  *)
RefCountExact ==
  \A o \in Objects :
    mem[o] = "live" =>
      ref_cnt[o] = Cardinality(RefHolders(o)) + (IF Mapped(o) THEN 1 ELSE 0)

(* What a subscriber holds in obj_list has not been released by the sweep   *)
(* of a later destroy() nor by destroy() itself.                            *)
RetainedIsLive ==
  \A s \in Subs, o \in Objects : Counts(s, o) => mem[o] = "live"

(* No object is waiting for release in the removed map while still listed,  *)
(* nor released while the map or the removed map can still reach it: the    *)
(* sweep never releases an object twice.                                    *)
MapsConsistent ==
  /\ \A i \in Pids : shm_obj_map[i] # NoObj => mem[shm_obj_map[i]] = "live"
  /\ \A i \in Pids : \A o \in shm_obj_removed_map[i] : mem[o] = "live" /\ ~Mapped(o)
  /\ \A i, j \in Pids : i # j =>
       shm_obj_removed_map[i] \cap shm_obj_removed_map[j] = {}

(* A subscriber that is told of the destruction of its object gives the     *)
(* object up, whatever else is going on (or dies, or loses the object to a  *)
(* release that a lock area that gave up let through).                      *)
DestroyedIsGivenUp ==
  \A s \in Subs :
    s \in event /\ Retires(s)
      ~> ~Retires(s) \/ spc[s] = "dead" \/ mem[ptr[s]] = "freed"

(* A subscriber notices that the process it is attached to died, and frees  *)
(* itself for the next incarnation (or dies on a mutex that one left).      *)
DeadNodeIsNoticed ==
  \A s \in Subs : NodeDied(s) ~> ~NodeDied(s) \/ spc[s] = "dead"

(* With one thread that creates and destroys, what the publisher has in     *)
(* obj_list is what its map lists: destroy() works in two separately locked *)
(* parts, retentions are reused, lock areas give up half way, and still the *)
(* object is not unmapped behind the publisher's back.                      *)
ListedIsMapped == own = "list" => shm_obj_map[pid] = ownPtr

(* A subscriber that watches the node and has an event to read gets the     *)
(* object that is there, unless this very lookup gives up on the map's      *)
(* mutex. What spoiled an earlier lookup does no harm: a give-up, or an     *)
(* event spent on the segment of an incarnation that died, to which the     *)
(* subscriber was still attached.                                           *)
WatchedIsServed ==
  \A s \in Subs, o \in Objects :
    s \in watch \cap event /\ where[s] = "removed" /\ up /\ shm_obj_map[pid] = o
      ~> \/ where[s] = "list" \/ spc[s] \in {"spent", "dead"}
         \/ ~up \/ shm_obj_map[pid] # o
=============================================================================
