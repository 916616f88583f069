----------------------------- MODULE LocalChannal -----------------------------
(***************************************************************************)
(* The communicators of one process and the lists through which            *)
(* LocalChannal connects them (local_channal.{hpp,cpp}). An endpoint is    *)
(* the place of a LocalWriter, LocalPublisher or LocalService, whose       *)
(* object lies in the process's segment under a name; a member is the      *)
(* place of a LocalReader, LocalSubscriber or LocalClient of that name.    *)
(* All that use one name hold the same retention, so one flag tells        *)
(* whether its pointer is null; it stays the name's for good, and so does  *)
(* the type with which it was made. What passes through the object is      *)
(* modelled in ShmSharedPtr, LocalTopic and LocalService.                  *)
(*                                                                         *)
(* The lists have no lock: the thread that spins is the one that makes and *)
(* drops communicators, between two spins or in a callback of one.         *)
(***************************************************************************)
EXTENDS Naturals, FiniteSets

CONSTANTS Names, NoName,
          Writers, Publishers, Services,     \* the endpoints, by class
          Readers, Subscribers, Clients,     \* the members
          Types, NoType,                     \* the types of objects
          Type,                              \* that of each endpoint and member
          MayUse                             \* bound: the names each is made under

Endpoints == Writers \cup Publishers \cup Services
Members == Readers \cup Subscribers \cup Clients

ASSUME ChannalAssumption ==
  NoName \notin Names /\ NoType \notin Types /\ Type \in [Endpoints \cup Members -> Types]

VARIABLES present,      \* the name has an object, and its retention a pointer
          online,       \* is_online of that object
          kind,         \* the type of the name's retention
          made,         \* the type of the object it points to, or last did
          holds,        \* the name each endpoint is open on
          target,       \* the name each member is of
          list,         \* the list the member is in
          changed,      \* update_time is not last_update_time_
          due,          \* 100 ms have passed since the last status check
          phase,        \* what the thread is doing: its own work, or which loop of spin_once
          done,         \* what the loop has been at
          victim,       \* the name over which the process broke down
          shared        \* names that once had two endpoints, two members or two types

objects == <<present, online, kind, made>>
places == <<holds, target, list, changed>>
spin == <<due, phase, done>>
history == <<victim, shared>>
vars == <<objects, places, spin, history>>

Init ==
  /\ present = [n \in Names |-> FALSE] /\ online = [n \in Names |-> FALSE]
  /\ kind = [n \in Names |-> NoType] /\ made = [n \in Names |-> NoType]
  /\ holds = [e \in Endpoints |-> NoName]
  /\ target = [c \in Members |-> NoName] /\ list = [c \in Members |-> "none"]
  /\ changed = FALSE /\ due = FALSE
  /\ phase = "idle" /\ done = {} /\ victim = NoName /\ shared = {}

(* User code runs between two spins, or in a callback of the one going on. *)
UserCode == phase = "idle" \/ (phase \in {"connected", "work"} /\ done # {})

(* A null pointer is used: the retention's, or instead of the retention. *)
Crash(n) ==
  /\ phase' = "dead" /\ victim' = n
  /\ UNCHANGED <<objects, places, due, done>>

(* A retention may point to an object of another type than its user takes it for *)
(* (shmobj_manager.hpp:454); using it is undefined, and may break the process    *)
(* down.                                                                         *)
Misread(x, n) == {m \in Names : m = n /\ present[m] /\ made[m] # Type[x]}

-----------------------------------------------------------------------------
(* Mutant: a factory leaves the waiting list to the timer. *)
ConnectLater(l, t, p, k) == l

hasSharedObject(p, n) == p[n]

(* check_connect_immediately_: whoever waits for a name that has an object goes  *)
(* to the connected list. create() gives it the object that is there, or null if *)
(* that has another type.                                                        *)
Connect(l, t, p, k) ==
  [c \in Members |-> IF l[c] # "wait" \/ ~hasSharedObject(p, t[c]) THEN l[c]
                     ELSE IF k[t[c]] = Type[c] THEN "connected" ELSE "null"]

(* A subscriber uses what it was given at once. *)
NullUsed(l, t) == {t[c] : c \in {c \in Subscribers : l[c] = "null"}}

(* Mutant: the destructor leaves the flag. *)
StaysOnline(o, e) == o

(* The destructor of an endpoint takes the name offline, whoever else uses it. *)
Offline(o, e) == IF holds[e] = NoName THEN o ELSE [o EXCEPT ![holds[e]] = FALSE]

(* It does so through the retention. *)
CanClose(e) == holds[e] # NoName => present[holds[e]]

(* The new endpoint is made before the old one is dropped, as by an assignment, *)
NewFirst(e, n) == Offline([online EXCEPT ![n] = TRUE], e)

(* or after, as MutablePublisher does. *)
OldFirst(e, n) == [Offline(online, e) EXCEPT ![n] = TRUE]

Flags(e, n) == IF e \in Publishers THEN OldFirst(e, n) ELSE NewFirst(e, n)

Others(e, n) == {f \in Endpoints : holds[f] = n /\ (f # e \/ e \notin Publishers)}

(* create() makes the object and its retention, or takes the retention that the *)
(* name had, whatever its type.                                                 *)
Retained(e, n) == IF kind[n] = NoType THEN [kind EXCEPT ![n] = Type[e]] ELSE kind

(* Where the name has an object of another type, create() gives null. *)
Refused(e, n) == present[n] /\ kind[n] # Type[e]

(* An endpoint is made, in place of what e was before. *)
Open(e, n) ==
  LET l == Connect(list, target, [present EXCEPT ![n] = TRUE], Retained(e, n))
      mixed == Retained(e, n)[n] # Type[e] \/ \E c \in Members : target[c] = n /\ Type[c] # Type[e]
      closes == CanClose(e) \/ (e \notin Publishers /\ holds[e] = n)
      broken == {m \in {holds[e]} : ~closes} \cup {m \in {n} : Refused(e, n)}
                  \cup NullUsed(l, target)
  IN /\ UserCode /\ n \in MayUse[e]
     /\ shared' = IF Others(e, n) # {} \/ mixed THEN shared \cup {n} ELSE shared
     /\ \/ \E m \in broken \cup Misread(e, holds[e]) : Crash(m)
        \/ /\ broken = {}
           /\ present' = [present EXCEPT ![n] = TRUE] /\ online' = Flags(e, n)
           /\ kind' = Retained(e, n)
           /\ made' = IF present[n] THEN made ELSE [made EXCEPT ![n] = Type[e]]
           /\ holds' = [holds EXCEPT ![e] = n]
           /\ list' = l /\ changed' = FALSE
           /\ UNCHANGED <<target, spin, victim>>

writer(e, n) == e \in Writers /\ Open(e, n)
publisher(e, n) == e \in Publishers /\ Open(e, n)
service(e, n) == e \in Services /\ Open(e, n)

(* The endpoint is dropped. *)
Close(e) ==
  /\ UserCode /\ holds[e] # NoName /\ UNCHANGED shared
  /\ \/ ~CanClose(e) /\ Crash(holds[e])
     \/ \E n \in Misread(e, holds[e]) : Crash(n)
     \/ /\ CanClose(e)
        /\ online' = Offline(online, e)
        /\ holds' = [holds EXCEPT ![e] = NoName]
        /\ UNCHANGED <<present, kind, made, target, list, changed, spin, victim>>

(* write and publish go through the retention too. *)
Write(e) ==
  /\ UserCode /\ e \notin Services /\ holds[e] # NoName /\ UNCHANGED shared
  /\ \/ ~present[holds[e]] /\ Crash(holds[e])
     \/ \E n \in Misread(e, holds[e]) : Crash(n)

(* A member is made, in place of what c was before. *)
Join(c, n) ==
  LET t == [target EXCEPT ![c] = n]
      l == Connect([list EXCEPT ![c] = "wait"], t, present, kind)
      mixed == kind[n] \notin {NoType, Type[c]}
  IN /\ UserCode /\ n \in MayUse[c]
     /\ shared' = IF mixed \/ \E d \in Members \ {c} : target[d] = n THEN shared \cup {n} ELSE shared
     /\ \/ \E m \in NullUsed(l, t) : Crash(m)
        \/ /\ NullUsed(l, t) = {}
           /\ target' = t /\ list' = l /\ changed' = FALSE
           /\ UNCHANGED <<objects, holds, spin, victim>>

reader(c, n) == c \in Readers /\ Join(c, n)
subscriber(c, n) == c \in Subscribers /\ Join(c, n)
client(c, n) == c \in Clients /\ Join(c, n)

(* The member is dropped: the lists forget it when they meet the expired entry. *)
Drop(c) ==
  /\ UserCode /\ target[c] # NoName
  /\ target' = [target EXCEPT ![c] = NoName]
  /\ list' = [list EXCEPT ![c] = "none"]
  /\ UNCHANGED <<objects, holds, changed, spin, history>>

(* A reader without a buffer is read all the same, be it that it waits or that it *)
(* was given null; a client without one is not called.                            *)
Read(c) ==
  /\ UserCode /\ UNCHANGED shared
  /\ \/ c \in Readers /\ list[c] = "wait" /\ Crash(NoName)
     \/ c \in Readers /\ list[c] = "null" /\ Crash(target[c])
     \/ list[c] = "connected" /\ ~present[target[c]] /\ Crash(target[c])
     \/ list[c] = "connected" /\ \E n \in Misread(c, target[c]) : Crash(n)

-----------------------------------------------------------------------------
is_online(c) == online[target[c]]

(* The members of cs leave their objects, which are destroyed, whatever type they *)
(* have.                                                                          *)
disconnect_(cs) == [n \in Names |-> present[n] /\ \A c \in cs : target[c] # n]

(* The system destroys the object of a name once a member finds it offline or has *)
(* none itself, and the next member of that name finds a null pointer; which      *)
(* comes first in the list is left open. The object may live on in other          *)
(* processes; then update_time changes.                                           *)
Check(l) ==
  LET off == {c \in Members : l[c] = "null" \/ (l[c] = "connected" /\ ~is_online(c))}
      Fellows(c, state) == {d \in off \ {c} : target[d] = target[c] /\ l[d] = state}
      connected == {c \in Members : l[c] = "connected"}
      broken == {target[c] : c \in {c \in connected \cap off :
                                      ~present[target[c]] \/ Fellows(c, "connected") # {}}}
                  \cup NullUsed(l, target)
      risky == {target[c] : c \in {c \in connected : Fellows(c, "null") # {}}}
                  \cup UNION {Misread(c, target[c]) : c \in off}
  IN /\ UNCHANGED shared
     /\ \/ \E n \in broken \cup risky : Crash(n)
        \/ /\ broken = {}
           /\ list' = [c \in Members |-> IF c \in off THEN "wait" ELSE l[c]]
           /\ present' = disconnect_(off)
           /\ online' = [n \in Names |-> online[n] /\ present'[n]]
           /\ changed' \in (IF off = {} THEN {FALSE} ELSE BOOLEAN)
           /\ phase' = "connected" /\ due' = FALSE
           /\ UNCHANGED <<kind, made, holds, target, done, victim>>

(* Mutant: nothing is looked at while update_time stands. *)
CheckIfChanged ==
  IF changed THEN Check(Connect(list, target, present, kind))
  ELSE phase' = "connected" /\ due' = FALSE /\ UNCHANGED <<objects, places, done, history>>

check_connect_status_ ==
  Check(IF changed THEN Connect(list, target, present, kind) ELSE list)

(* spin_once begins with the timer, *)
SpinOnce ==
  /\ phase = "idle"
  /\ IF due THEN check_connect_status_
     ELSE phase' = "connected" /\ UNCHANGED <<objects, places, due, done, history>>

(* goes through the connected members, of which subscribers have a callback, *)
SpinSubscriber(u) ==
  /\ phase = "connected" /\ list[u] = "connected" /\ u \notin done /\ UNCHANGED shared
  /\ \/ ~present[target[u]] /\ Crash(target[u])
     \/ \E n \in Misread(u, target[u]) : Crash(n)
     \/ /\ present[target[u]]
        /\ done' = done \cup {u}
        /\ UNCHANGED <<objects, places, due, phase, victim>>

SpinWork ==
  /\ phase = "connected" /\ \A u \in Subscribers : list[u] = "connected" => u \in done
  /\ phase' = "work" /\ done' = {}
  /\ UNCHANGED <<objects, places, due, history>>

(* and then the services: it does not get past one that is offline. *)
SpinService(s) ==
  /\ phase = "work" /\ holds[s] # NoName /\ s \notin done /\ UNCHANGED shared
  /\ \/ ~present[holds[s]] /\ Crash(holds[s])
     \/ \E n \in Misread(s, holds[s]) : Crash(n)
     \/ /\ present[holds[s]] /\ online[holds[s]]
        /\ done' = done \cup {s}
        /\ UNCHANGED <<objects, places, due, phase, victim>>
     \/ /\ present[holds[s]] /\ ~online[holds[s]]
        /\ phase' = "stuck" /\ victim' = holds[s]
        /\ UNCHANGED <<objects, places, due, done>>

SpinEnd ==
  /\ phase = "work" /\ \A s \in Services : holds[s] # NoName => s \in done
  /\ phase' = "idle" /\ done' = {}
  /\ UNCHANGED <<objects, places, due, history>>

Spin == \/ SpinOnce \/ SpinWork \/ SpinEnd
        \/ \E u \in Subscribers : SpinSubscriber(u)
        \/ \E s \in Services : SpinService(s)

Elapse == ~due /\ due' = TRUE /\ UNCHANGED <<objects, places, phase, done, history>>

-----------------------------------------------------------------------------
Places == Names \cup {NoName}

TypeOK ==
  /\ present \in [Names -> BOOLEAN] /\ online \in [Names -> BOOLEAN]
  /\ holds \in [Endpoints -> Places] /\ target \in [Members -> Places]
  /\ kind \in [Names -> Types \cup {NoType}] /\ made \in [Names -> Types \cup {NoType}]
  /\ list \in [Members -> {"none", "wait", "connected", "null"}]
  /\ \A c \in Members : list[c] = "none" <=> target[c] = NoName
  /\ changed \in BOOLEAN /\ due \in BOOLEAN
  /\ phase \in {"idle", "connected", "work", "stuck", "dead"}
  /\ done \subseteq Subscribers \cup Services
  /\ victim \in Places /\ shared \subseteq Names

(* Nobody waits for a name that has an object: no connection is missed between   *)
(* the factories and the status check (local_channal.cpp:159).                   *)
NobodyWaitsInVain ==
  /\ TypeOK
  /\ \A c \in Members : list[c] = "wait" => ~present[target[c]]

(* A name that two endpoints, two members or two types never shared is online    *)
(* just while it has an endpoint, and is none over which the thread uses a null  *)
(* object or spins for ever at an offline service (local_channal.cpp:151,        *)
(* local_channal.hpp:430 and 436). Neither the lists nor hasSharedObject know    *)
(* the type of a name, and create() gives null for another one.                  *)
UnsharedNamesWork ==
  \A n \in Names \ shared :
    /\ online[n] <=> \E e \in Endpoints : holds[e] = n
    /\ victim # n

(* A member whose last endpoint is gone is taken off the connected list, or gets *)
(* a new endpoint, unless the process breaks down.                               *)
Orphan(c) == list[c] = "connected" /\ \A e \in Endpoints : holds[e] # target[c]
OrphansAreNoticed ==
  \A c \in Members : Orphan(c) ~> (~Orphan(c) \/ phase \in {"dead", "stuck"})
=============================================================================
