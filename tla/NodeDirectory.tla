---------------------------- MODULE NodeDirectory ----------------------------
(***************************************************************************)
(* One entry of a node's directory under /dev/shm/coin: the key file of    *)
(* one process, the owner, and the System V segments found through it      *)
(* (shmobj_manager.cpp, shm_manager.{hpp,cpp}, ipcs.cpp and                *)
(* coin-commons/ipcs/shm.cpp). The key of a segment is ftok() of the file, *)
(* that is its inode: a file that was removed and made anew leads          *)
(* elsewhere. Visitors are processes that scan the directory, once when    *)
(* they start in the node and then to discover it. The data segment and    *)
(* its key file are made, used and removed along with the control segment, *)
(* which stands for both, but where a visitor breaks down between the two. *)
(*                                                                         *)
(* Every system call on the file is a step. The lock under which a segment *)
(* is made or attached is on the file that was opened for it: it keeps     *)
(* nobody out who opens the name after that file was removed, and who      *)
(* leaves and destroys does not take it.                                   *)
(***************************************************************************)
EXTENDS Naturals, FiniteSets

CONSTANTS Visitors,
          Acquainted,   \* those who know the node from an earlier process of it
          MaxInodes,    \* bound: files made under the name
          MaxSegments   \* bound: segments made

ASSUME DirectoryAssumption ==
  /\ IsFiniteSet(Visitors) /\ Acquainted \subseteq Visitors
  /\ MaxInodes \in Nat \ {0} /\ MaxSegments \in Nat \ {0}

Inodes == 1 .. MaxInodes
Segments == 1 .. MaxSegments
Nothing == 0
Shm == [key : Inodes \cup {Nothing}, fd : Inodes \cup {Nothing},
        seg : Segments \cup {Nothing}]
NoShm == [key |-> Nothing, fd |-> Nothing, seg |-> Nothing]

VARIABLES owner,        \* how far the owner has come
          own,          \* the owner's Shm
          reused,       \* another process has its pid
          file,         \* the inode the name leads to
          content,      \* of that file: none, its size only, all of it
          inodes,       \* files made so far
          lookup,       \* shmget: the segment of a key
          segments,     \* segments made so far
          stage,        \* where each visitor is in its scan
          why,          \* clear_invalid_shm_, discovery_shm_, or that of a dead process
          at,           \* the Shm it has made there
          kept,         \* the Shm in its node_map_
          known,        \* node_map_ has an item of the node, empty or not
          early,        \* somebody visited while the owner was starting
          stranded      \* the control segment was destroyed without the data segment

ofOwner == <<owner, own, reused>>
fs == <<file, content, inodes>>
segs == <<lookup, segments>>
noted == <<known, early, stranded>>
ofVisitors == <<stage, why, at, kept, noted>>
vars == <<ofOwner, fs, segs, ofVisitors>>

Init ==
  /\ owner = "off" /\ own = NoShm /\ reused = FALSE
  /\ file = Nothing /\ content = "none" /\ inodes = 0
  /\ lookup = [k \in Inodes |-> Nothing] /\ segments = 0
  /\ stage = [v \in Visitors |-> "new"]
  /\ why = [v \in Visitors |-> "clear"]
  /\ at = [v \in Visitors |-> NoShm]
  /\ kept = [v \in Visitors |-> NoShm]
  /\ known = [v \in Visitors |-> v \in Acquainted]
  /\ early = FALSE /\ stranded = FALSE

(* In the constructor of Shm, with the lock on the file. *)
HoldsLock == {"locked", "cleared", "created", "mismatch"}

Starting == owner \in HoldsLock \cup {"keyed", "open", "made", "sized"}
Running == Starting \/ owner \in {"up", "leaving", "destroying"}
Dead == owner \in {"dead", "stillborn"}
Ending == Dead \/ owner \in {"leaving", "destroying"}

(* get_key_: a missing key file is made, empty. *)
CurrentFile == IF file = Nothing THEN inodes + 1 ELSE file
get_key_ == /\ file = Nothing => inodes < MaxInodes
            /\ file' = CurrentFile
            /\ inodes' = IF file = Nothing THEN inodes + 1 ELSE inodes
            /\ content' = IF file = Nothing THEN "none" ELSE content

(* The kernel's count of attachments of the segment a key leads to. *)
num_of_attach(k) ==
  IF k \notin DOMAIN lookup \/ lookup[k] = Nothing THEN 0
  ELSE Cardinality({v \in Visitors : at[v].seg = lookup[k]})
       + Cardinality({v \in Visitors : kept[v].seg = lookup[k]})
       + (IF own.seg = lookup[k] THEN 1 ELSE 0)

(* Mutant: a segment attached once is taken for nobody's. *)
FoundAlone(k) == num_of_attach(k) <= 1

(* Shm::Shm destroys what it finds unattached. *)
Leftover(k) == num_of_attach(k) = 0

destroy(k) ==
  /\ lookup' = [lookup EXCEPT ![k] = Nothing]
  /\ IF lookup[k] = Nothing THEN UNCHANGED <<file, content>>
     ELSE file' = Nothing /\ content' = "none"
  /\ UNCHANGED <<inodes, segments>>

(* open() of the file, made if it is gone; *)
OpenFile(fd) == fd = CurrentFile /\ get_key_

(* the files whose lock is held, by the owner or by a visitor; *)
Locked == {own.fd : o \in {owner} \cap HoldsLock}
            \cup {at[v].fd : v \in {v \in Visitors : stage[v] \in HoldsLock}}

(* FileLock::lock waits for the one that was opened. Under it, *)
LockFile(fd) == fd \notin Locked /\ UNCHANGED <<fs, segs>>

(* a segment nobody has attached is destroyed and with it the key file, which    *)
(* counting the attachments may make anew,                                       *)
DestroyLeftover(k) ==
  /\ file = Nothing => inodes < MaxInodes
  /\ IF Leftover(CurrentFile) /\ lookup[k] # Nothing THEN destroy(k) ELSE get_key_ /\ UNCHANGED segs

(* the segment of the key taken at first is made if it does not exist,           *)
create(k) ==
  /\ lookup[k] = Nothing => segments < MaxSegments
  /\ segments' = IF lookup[k] = Nothing THEN segments + 1 ELSE segments
  /\ lookup' = [lookup EXCEPT ![k] = IF @ = Nothing THEN segments + 1 ELSE @]
  /\ UNCHANGED fs

(* and attached, if it is still there.                                           *)
Attached(shm) == [shm EXCEPT !.seg = lookup[shm.key], !.fd = Nothing]

-----------------------------------------------------------------------------
(* ShmManager of the own process: the key file comes first, empty, *)
OwnerKey ==
  /\ owner = "off" /\ get_key_
  /\ owner' = "keyed" /\ own' = [NoShm EXCEPT !.key = CurrentFile]
  /\ UNCHANGED <<reused, segs, ofVisitors>>

(* then the segment of that key, *)
OwnerOpen ==
  /\ owner = "keyed"
  /\ \E fd \in Inodes : OpenFile(fd) /\ own' = [own EXCEPT !.fd = fd]
  /\ owner' = "open"
  /\ UNCHANGED <<reused, segs, ofVisitors>>

OwnerLock ==
  /\ owner = "open" /\ LockFile(own.fd)
  /\ owner' = "locked"
  /\ UNCHANGED <<own, reused, ofVisitors>>

OwnerClear ==
  /\ owner = "locked" /\ DestroyLeftover(own.key)
  /\ owner' = "cleared"
  /\ UNCHANGED <<own, reused, ofVisitors>>

OwnerCreate ==
  /\ owner = "cleared" /\ create(own.key)
  /\ owner' = "created"
  /\ UNCHANGED <<own, reused, ofVisitors>>

(* where an owner without memory gives up *)
OwnerAttach ==
  /\ owner = "created"
  /\ own' = Attached(own)
  /\ owner' = IF lookup[own.key] = Nothing THEN "stillborn" ELSE "made"
  /\ UNCHANGED <<reused, fs, segs, ofVisitors>>

(* then FileMapObject: open with O_CREAT and ftruncate, *)
OwnerSize ==
  /\ owner = "made"
  /\ file = Nothing => inodes < MaxInodes
  /\ file' = CurrentFile /\ content' = "sized"
  /\ inodes' = IF file = Nothing THEN inodes + 1 ELSE inodes
  /\ owner' = "sized"
  /\ UNCHANGED <<own, reused, segs, ofVisitors>>

(* and the object is constructed, in whatever file was mapped. *)
OwnerFill ==
  /\ owner = "sized"
  /\ content' = IF content = "sized" THEN "full" ELSE content
  /\ owner' = "up"
  /\ UNCHANGED <<own, reused, file, inodes, segs, ofVisitors>>

(* At exit ~Shm of the owner detaches, *)
OwnerDetach ==
  /\ owner = "up"
  /\ owner' = "leaving" /\ own' = [own EXCEPT !.seg = Nothing]
  /\ UNCHANGED <<reused, fs, segs, ofVisitors>>

(* asks whether it was the last one, *)
OwnerIsFree ==
  /\ owner = "leaving" /\ get_key_
  /\ owner' = IF num_of_attach(CurrentFile) = 0 THEN "destroying" ELSE "dead"
  /\ UNCHANGED <<own, reused, segs, ofVisitors>>

(* and then destroys the segment and the file. *)
OwnerDestroy ==
  /\ owner = "destroying" /\ destroy(own.key)
  /\ owner' = "dead"
  /\ UNCHANGED <<own, reused, ofVisitors>>

(* Killed, at any point. *)
OwnerDies ==
  /\ Running
  /\ owner' = IF Starting THEN "stillborn" ELSE "dead"
  /\ own' = [own EXCEPT !.seg = Nothing, !.fd = Nothing]
  /\ UNCHANGED <<reused, fs, segs, ofVisitors>>

PidReused ==
  /\ Dead /\ ~reused
  /\ reused' = TRUE
  /\ UNCHANGED <<owner, own, fs, segs, ofVisitors>>

-----------------------------------------------------------------------------
At(v, s) == stage[v] = s
Go(v, s) == stage' = [stage EXCEPT ![v] = s]

(* clear_invalid_shm_, when the visitor starts in this node *)
Clear(v) ==
  /\ At(v, "new")
  /\ Go(v, IF file = Nothing THEN "idle" ELSE "valid")
  /\ early' = (early \/ Starting)
  /\ UNCHANGED <<known, stranded, why, at, kept, ofOwner, fs, segs>>

(* discovery_shm_ meets the file *)
Discover(v) ==
  /\ At(v, "idle") /\ file # Nothing
  /\ Go(v, "alive") /\ why' = [why EXCEPT ![v] = "find"]
  /\ early' = (early \/ Starting)
  /\ UNCHANGED <<known, stranded, at, kept, ofOwner, fs, segs>>

(* and asks kill(pid, 0). *)
Alive(v) ==
  /\ At(v, "alive")
  /\ IF Running \/ reused THEN Go(v, "valid") /\ UNCHANGED why
     ELSE Go(v, "map") /\ why' = [why EXCEPT ![v] = "dead"]
  /\ UNCHANGED <<at, kept, noted, ofOwner, fs, segs>>

(* is_valid: the size of the file. Of a file that is gone, stat says nothing and *)
(* the size is read from uninitialised memory.                                   *)
IsValid(v) ==
  /\ At(v, "valid")
  /\ \E sized \in (IF file = Nothing THEN BOOLEAN ELSE {content # "none"}) :
       Go(v, IF ~sized THEN "remove"
             ELSE IF why[v] = "find" /\ kept[v] # NoShm THEN "busy" ELSE "map")
  /\ UNCHANGED <<why, at, kept, noted, ofOwner, fs, segs>>

(* The files of a process that is dead, or whose key file is empty, are removed. *)
Remove(v) ==
  /\ At(v, "remove")
  /\ Go(v, IF at[v] = NoShm THEN "idle" ELSE "detach")
  /\ file' = Nothing /\ content' = "none"
  /\ UNCHANGED <<inodes, why, at, kept, noted, ofOwner, segs>>

(* A visitor that breaks down is detached from everything by the kernel. *)
BreakDown(v) ==
  /\ Go(v, "crashed")
  /\ at' = [at EXCEPT ![v] = NoShm] /\ kept' = [kept EXCEPT ![v] = NoShm]

(* FileMapObject of a file that is gone or empty fails and the null object is    *)
(* used all the same. One that has only its size yet leads to the entry of pid 0 *)
(* and so to nothing, which an item in node_map_ keeps nevertheless.             *)
NoSegment == [NoShm EXCEPT !.key = file]

Map(v) ==
  /\ At(v, "map")
  /\ \/ content = "none" /\ BreakDown(v)
     \/ /\ content = "sized" /\ UNCHANGED at
        /\ Go(v, IF why[v] = "dead" THEN "remove" ELSE "idle")
        /\ kept' = IF why[v] = "find" /\ known[v] THEN [kept EXCEPT ![v] = NoSegment] ELSE kept
     \/ content = "full" /\ Go(v, "key") /\ UNCHANGED <<at, kept>>
  /\ UNCHANGED <<why, noted, ofOwner, fs, segs>>

(* ShmManager of a foreign process: the key, *)
Key(v) ==
  /\ At(v, "key") /\ get_key_
  /\ at' = [at EXCEPT ![v].key = CurrentFile]
  /\ Go(v, "open")
  /\ UNCHANGED <<why, kept, noted, ofOwner, segs>>

(* and the segment. *)
Open(v) ==
  /\ At(v, "open")
  /\ \E fd \in Inodes : OpenFile(fd) /\ at' = [at EXCEPT ![v].fd = fd]
  /\ Go(v, "lock")
  /\ UNCHANGED <<why, kept, noted, ofOwner, segs>>

Lock(v) ==
  /\ At(v, "lock") /\ LockFile(at[v].fd)
  /\ Go(v, "locked")
  /\ UNCHANGED <<why, at, kept, noted, ofOwner>>

ClearLeftover(v) ==
  /\ At(v, "locked") /\ DestroyLeftover(at[v].key)
  /\ Go(v, "cleared")
  /\ UNCHANGED <<why, at, kept, noted, ofOwner>>

Create(v) ==
  /\ At(v, "cleared") /\ create(at[v].key)
  /\ Go(v, "created")
  /\ UNCHANGED <<why, at, kept, noted, ofOwner>>

(* and attached at the owner's address, which fails where something is attached  *)
(* already. An item in node_map_ that is empty takes what was made at once.      *)
Attach(v) ==
  /\ At(v, "created")
  /\ \/ /\ lookup[at[v].key] = Nothing \/ kept[v].seg # Nothing
        /\ Go(v, "mismatch") /\ UNCHANGED <<at, kept>>
     \/ /\ lookup[at[v].key] # Nothing /\ kept[v].seg = Nothing
        /\ IF why[v] = "find" /\ known[v]
           THEN at' = [at EXCEPT ![v] = NoShm] /\ kept' = [kept EXCEPT ![v] = Attached(at[v])]
           ELSE at' = [at EXCEPT ![v] = Attached(@)] /\ UNCHANGED kept
        /\ Go(v, IF why[v] = "dead" THEN "remove" ELSE "busy")
  /\ UNCHANGED <<why, noted, ofOwner, fs, segs>>

(* A visitor that did not get that address destroys the control segment and      *)
(* throws, which nobody catches: it comes neither to the data segment nor to its *)
(* file, and nothing looks for them any more.                                    *)
Mismatch(v) ==
  /\ At(v, "mismatch")
  /\ stranded' = (stranded \/ lookup[at[v].key] # Nothing)
  /\ destroy(at[v].key) /\ BreakDown(v)
  /\ UNCHANGED <<why, known, early, ofOwner>>

is_busy == num_of_attach(CurrentFile) > 1

(* A segment somebody else has attached is that of a living node. If it has the  *)
(* object looked for, it goes into node_map_.                                    *)
Busy(v) ==
  /\ At(v, "busy") /\ get_key_
  /\ \/ /\ why[v] = "find" /\ at[v] # NoShm /\ is_busy
        /\ kept' = [kept EXCEPT ![v] = at[v]]
        /\ at' = [at EXCEPT ![v] = NoShm]
        /\ known' = [known EXCEPT ![v] = TRUE]
        /\ Go(v, "idle")
     \/ /\ Go(v, IF at[v] = NoShm THEN "idle" ELSE "detach")
        /\ UNCHANGED <<kept, at, known>>
  /\ UNCHANGED <<why, early, stranded, ofOwner, segs>>

(* node_monitor_ finds the pid in the file that it maps dead: the item in        *)
(* node_map_ is emptied.                                                         *)
Leave(v) ==
  /\ At(v, "idle") /\ kept[v] # NoShm /\ Dead /\ ~reused
  /\ kept' = [kept EXCEPT ![v] = NoShm]
  /\ \/ /\ kept[v].seg # Nothing
        /\ at' = [at EXCEPT ![v] = kept[v]] /\ Go(v, "detach")
     \/ /\ kept[v].seg = Nothing /\ owner = "dead"
        /\ UNCHANGED <<at, stage>>
  /\ UNCHANGED <<why, noted, ofOwner, fs, segs>>

(* ~Shm: detach, *)
Detach(v) ==
  /\ At(v, "detach")
  /\ at' = [at EXCEPT ![v].seg = Nothing]
  /\ Go(v, "free")
  /\ UNCHANGED <<why, kept, noted, ofOwner, fs, segs>>

(* Mutant: whoever detaches destroys. *)
NotAsked(v) ==
  /\ At(v, "free") /\ get_key_
  /\ Go(v, "destroy")
  /\ UNCHANGED <<why, at, kept, noted, ofOwner, segs>>


(* is_free, which may make the file anew and then asks about that one, *)
IsFree(v) ==
  /\ At(v, "free") /\ get_key_
  /\ IF num_of_attach(CurrentFile) = 0 THEN Go(v, "destroy") /\ UNCHANGED at
     ELSE Go(v, "idle") /\ at' = [at EXCEPT ![v] = NoShm]
  /\ UNCHANGED <<why, kept, noted, ofOwner, segs>>

(* destroy: the segment of the old key and the file of the name. *)
Destroy(v) ==
  /\ At(v, "destroy") /\ destroy(at[v].key)
  /\ at' = [at EXCEPT ![v] = NoShm] /\ Go(v, "idle")
  /\ UNCHANGED <<why, kept, noted, ofOwner>>

Proceed(v) == \/ Alive(v) \/ IsValid(v) \/ Remove(v) \/ Map(v) \/ Key(v)
              \/ Open(v) \/ Lock(v) \/ ClearLeftover(v) \/ Create(v) \/ Attach(v) \/ Mismatch(v)
              \/ Busy(v) \/ Detach(v) \/ IsFree(v) \/ Destroy(v)

OwnerSteps == \/ OwnerKey \/ OwnerOpen \/ OwnerLock \/ OwnerClear \/ OwnerCreate
              \/ OwnerAttach \/ OwnerSize \/ OwnerFill
              \/ OwnerDetach \/ OwnerIsFree \/ OwnerDestroy

Next == \/ OwnerSteps \/ OwnerDies \/ PidReused
        \/ \E v \in Visitors : Clear(v) \/ Discover(v) \/ Leave(v) \/ Proceed(v)

Spec == Init /\ [][Next]_vars

(* A scan goes on. The waiting lists discover the node again and again, and the  *)
(* monitor looks every second; the two share a mutex, so each gets its turn.     *)
FairSpec ==
  /\ Spec
  /\ \A v \in Visitors : WF_vars(Clear(v) \/ Proceed(v)) /\ SF_vars(Leave(v)) /\ SF_vars(Discover(v))

-----------------------------------------------------------------------------
TypeOK ==
  /\ owner \in HoldsLock \cup {"off", "keyed", "open", "made", "sized", "up", "leaving",
                             "destroying", "dead", "stillborn"}
  /\ own \in Shm /\ reused \in BOOLEAN /\ early \in BOOLEAN /\ stranded \in BOOLEAN
  /\ known \in [Visitors -> BOOLEAN]
  /\ file \in Inodes \cup {Nothing} /\ content \in {"none", "sized", "full"}
  /\ (file = Nothing => content = "none")
  /\ inodes \in 0 .. MaxInodes /\ segments \in 0 .. MaxSegments
  /\ lookup \in [Inodes -> Segments \cup {Nothing}]
  /\ stage \in [Visitors -> HoldsLock \cup {"new", "idle", "alive", "valid", "remove", "map", "key",
                                         "open", "lock", "busy", "detach", "free", "destroy",
                                         "crashed"}]
  /\ why \in [Visitors -> {"clear", "find", "dead"}]
  /\ at \in [Visitors -> Shm] /\ kept \in [Visitors -> Shm]

(* If nobody looked before its file had contents (shmobj_manager.cpp:222), a     *)
(* node that is up keeps its file, and the file leads to its segment, however    *)
(* many others come, look, and go: clean-up never takes a living node for a dead *)
(* one. And a scan crashes only over the entry of a process that is gone or going. *)
EstablishedStays ==
  /\ TypeOK
  /\ ~early =>
       /\ owner = "up" => content = "full" /\ file # Nothing /\ lookup[file] = own.seg
       /\ (\E v \in Visitors : At(v, "crashed")) => Ending

(* The segments of a process that had started go away after its death, and at    *)
(* most an empty file stays (shmobj_manager.cpp:202, ipcs.cpp:57); the file goes *)
(* as well if nobody scanned it while the process left. That is so where nobody  *)
(* met the file while the process started, where the pid is not used again,      *)
(* where no two scans of the remains overlap, and where every visitor has let    *)
(* the node go before one scans them. A scan by one that still maps the node     *)
(* breaks down and strands the data segment; one of a node that another still    *)
(* maps lets that one leave an empty file, over which the next breaks down; two  *)
(* that overlap can each remove the file from which the other takes the key.     *)
Scanning == {v \in Visitors : stage[v] \notin {"new", "idle", "crashed"}}
LetGo == \A v, w \in Visitors : why[v] = "dead" => kept[w] = NoShm
InTurn == ~reused /\ ~early /\ LetGo /\ (Ending => Cardinality(Scanning) <= 1)
LeftAlone == owner \in {"leaving", "destroying"} => Scanning = {}

=============================================================================
