--------------------- MODULE MutableCommunicator_proofs ---------------------
(***************************************************************************)
(* What TLAPS proves about the connection lists (LocalChannal) under the   *)
(* communicators of MutableCommunicator, for any number of names,          *)
(* endpoints, members and types, any type of each of them and any names    *)
(* given by the environment.                                               *)
(***************************************************************************)
EXTENDS MutableCommunicator, TLAPS

(* A name that was never shared is used from one endpoint and one member. *)
OnePlace ==
  \A n \in Names \ shared :
    /\ \A e, f \in Endpoints : holds[e] = n /\ holds[f] = n => e = f
    /\ \A c, d \in Members : target[c] = n /\ target[d] = n => c = d

(* Its retention has a pointer while somebody uses the object through it. *)
InUse ==
  \A n \in Names \ shared :
    /\ \A e \in Endpoints : holds[e] = n => present[n]
    /\ \A c \in Members : target[c] = n /\ list[c] = "connected" => present[n]

(* Its object, its retention and those that use it have one type, so nobody was  *)
(* given null.                                                                   *)
Typed ==
  \A n \in Names \ shared :
    /\ present[n] => kind[n] # NoType /\ made[n] = kind[n]
    /\ \A e \in Endpoints : holds[e] = n => kind[n] = Type[e]
    /\ \A c \in Members : target[c] = n => kind[n] \in {NoType, Type[c]} /\ list[c] # "null"

Inv == TypeOK /\ NobodyWaitsInVain /\ UnsharedNamesWork /\ OnePlace /\ InUse /\ Typed

Lists == {"none", "wait", "connected", "null"}

LayerType == sub_name_ \in [Subscribers -> Places]

(* The steps of the thread and of its user code, without the layer. *)
Steps ==
  \/ \E e \in Endpoints : Close(e) \/ Write(e) \/ \E n \in Names : Open(e, n)
  \/ \E c \in Members : Drop(c) \/ Read(c) \/ \E n \in Names : Join(c, n)
  \/ Spin \/ Elapse

-----------------------------------------------------------------------------
LEMMA InvInit == Init => Inv
<1> SUFFICES ASSUME Init PROVE Inv
  OBVIOUS
<1>1. TypeOK
  BY DEF Init, TypeOK, Places
<1>2. UnsharedNamesWork /\ OnePlace /\ InUse /\ Typed
  BY ChannalAssumption DEF Init, UnsharedNamesWork, OnePlace, InUse, Typed
<1> QED
  BY <1>1, <1>2 DEF Inv, NobodyWaitsInVain, Init

(* The process breaks down only over a shared name, or over none. *)
LEMMA CrashInv ==
  ASSUME Inv, NEW n \in Places, Crash(n),
         shared \subseteq shared', shared' \subseteq Names, n \in Names => n \in shared'
  PROVE  Inv'
  BY DEF Crash, Inv, TypeOK, NobodyWaitsInVain, UnsharedNamesWork, OnePlace, InUse, Typed,
     objects, places

(* The system looks for other types' objects under shared names only. *)
LEMMA EndpointTyped ==
  ASSUME Inv, NEW e \in Endpoints, NEW n \in Misread(e, holds[e])
  PROVE  n \in shared
  BY DEF Inv, Typed, Misread

LEMMA MemberTyped ==
  ASSUME Inv, NEW c \in Members, NEW n \in Misread(c, target[c])
  PROVE  n \in shared
  BY DEF Inv, Typed, Misread

(* Who waits for a name that has an object leaves the waiting list, for the *)
(* connected one if the type is his.                                        *)
LEMMA ConnectGives ==
  ASSUME NEW l \in [Members -> Lists], NEW t \in [Members -> Places],
         NEW p \in [Names -> BOOLEAN], NEW k \in [Names -> Types \cup {NoType}],
         NEW r, r = Connect(l, t, p, k),
         \A c \in Members : l[c] = "none" <=> t[c] = NoName
  PROVE  /\ r \in [Members -> Lists]
         /\ \A c \in Members :
              /\ r[c] = "none" <=> t[c] = NoName
              /\ r[c] = "wait" => ~p[t[c]]
              /\ r[c] = "connected" => l[c] = "connected" \/ p[t[c]]
              /\ r[c] = "null" => \/ l[c] = "null"
                                  \/ t[c] \in Names /\ p[t[c]] /\ k[t[c]] # Type[c]
<1>1. \A c \in Members :
        r[c] = IF l[c] # "wait" \/ ~p[t[c]] THEN l[c]
               ELSE IF k[t[c]] = Type[c] THEN "connected" ELSE "null"
  BY DEF Connect, hasSharedObject
<1>2. r \in [Members -> Lists]
  BY DEF Connect, hasSharedObject, Lists
<1>3. \A c \in Members : l[c] = "wait" => t[c] \in Names
  BY DEF Places
<1> QED
  BY <1>1, <1>2, <1>3

LEMMA OpenInv ==
  ASSUME Inv, NEW e \in Endpoints, NEW n \in Names, Open(e, n)
  PROVE  Inv'
<1> USE ChannalAssumption DEF Inv
<1> DEFINE p == [present EXCEPT ![n] = TRUE]
           l == Connect(list, target, p, Retained(e, n))
           mixed == Retained(e, n)[n] # Type[e] \/ \E c \in Members : target[c] = n /\ Type[c] # Type[e]
           closes == CanClose(e) \/ (e \notin Publishers /\ holds[e] = n)
           broken == {m \in {holds[e]} : ~closes} \cup {m \in {n} : Refused(e, n)}
                       \cup NullUsed(l, target)
<1>1. /\ shared' = IF Others(e, n) # {} \/ mixed THEN shared \cup {n} ELSE shared
      /\ \/ \E m \in broken \cup Misread(e, holds[e]) : Crash(m)
         \/ /\ broken = {}
            /\ present' = p /\ online' = Flags(e, n)
            /\ kind' = Retained(e, n)
            /\ made' = IF present[n] THEN made ELSE [made EXCEPT ![n] = Type[e]]
            /\ holds' = [holds EXCEPT ![e] = n]
            /\ list' = l /\ changed' = FALSE
            /\ UNCHANGED <<target, due, phase, done, victim>>
  BY DEF Open, spin
<1>2. /\ shared \subseteq shared' /\ shared' \subseteq Names
      /\ n \notin shared' =>
           /\ \A f \in Endpoints : holds[f] = n => f = e /\ e \in Publishers
           /\ Retained(e, n)[n] = Type[e]
           /\ \A c \in Members : target[c] = n => Type[c] = Type[e]
  BY <1>1 DEF Others, TypeOK
<1>3. /\ p \in [Names -> BOOLEAN] /\ p[n] /\ \A m \in Names \ {n} : p[m] = present[m]
      /\ Retained(e, n) \in [Names -> Types \cup {NoType}]
      /\ \A m \in Names \ {n} : Retained(e, n)[m] = kind[m]
      /\ Retained(e, n)[n] = kind[n] \/ (kind[n] = NoType /\ Retained(e, n)[n] = Type[e])
      /\ Retained(e, n)[n] # NoType
  BY DEF Retained, TypeOK
<1>0. l = Connect(list, target, p, Retained(e, n))
  OBVIOUS
<1> HIDE DEF p, l
<1>4. /\ l \in [Members -> Lists]
      /\ \A c \in Members :
           /\ l[c] = "none" <=> target[c] = NoName
           /\ l[c] = "wait" => ~p[target[c]]
           /\ l[c] = "connected" => list[c] = "connected" \/ p[target[c]]
           /\ l[c] = "null" => \/ list[c] = "null"
                               \/ /\ target[c] \in Names /\ p[target[c]]
                                 /\ Retained(e, n)[target[c]] # Type[c]
  <2>1. /\ list \in [Members -> Lists] /\ target \in [Members -> Places]
        /\ \A c \in Members : list[c] = "none" <=> target[c] = NoName
    BY DEF TypeOK, Lists
  <2> QED
    BY <1>0, <1>3, <2>1, ConnectGives
<1>5. \A c \in Members : l[c] = "null" => target[c] \in Names /\ target[c] \in shared'
  <2> SUFFICES ASSUME NEW c \in Members, l[c] = "null", target[c] \notin shared'
               PROVE  FALSE
    BY <1>4 DEF TypeOK, Places
  <2>1. target[c] \in Names \ shared /\ list[c] # "null"
    BY <1>2, <1>4 DEF TypeOK, Places, Typed
  <2>2. p[target[c]] /\ Retained(e, n)[target[c]] # Type[c]
    BY <1>4, <2>1
  <2>3. CASE target[c] = n
    BY <1>2, <2>2, <2>3
  <2>4. CASE target[c] # n
    BY <1>3, <2>1, <2>2, <2>4 DEF Typed
  <2> QED
    BY <2>3, <2>4
<1>6. CASE \E m \in broken \cup Misread(e, holds[e]) : Crash(m)
  <2>1. PICK m \in broken \cup Misread(e, holds[e]) : Crash(m)
    BY <1>6
  <2>2. m \in Places /\ (m \in Names => m \in shared')
    <3>1. CASE m = holds[e] /\ ~closes
      BY <1>2, <3>1 DEF CanClose, TypeOK, InUse
    <3>2. CASE m = n /\ Refused(e, n)
      BY <1>2, <1>3, <3>2 DEF Refused, Places, Typed
    <3>3. CASE m \in NullUsed(l, target)
      BY <1>5, <3>3 DEF NullUsed, Members, Places
    <3>4. CASE m \in Misread(e, holds[e])
      BY <1>2, <3>4, EndpointTyped DEF Places
    <3> QED
      BY <2>1, <3>1, <3>2, <3>3, <3>4
  <2> QED
    BY <1>2, <2>1, <2>2, CrashInv
<1>7. CASE /\ present' = p /\ online' = Flags(e, n)
           /\ kind' = Retained(e, n)
           /\ made' = IF present[n] THEN made ELSE [made EXCEPT ![n] = Type[e]]
           /\ holds' = [holds EXCEPT ![e] = n]
           /\ list' = l /\ changed' = FALSE
           /\ UNCHANGED <<target, due, phase, done, victim>>
  <2>1. /\ online' \in [Names -> BOOLEAN]
        /\ \A m \in Names : m # n /\ m # holds[e] => online'[m] = online[m]
        /\ holds[e] # n /\ holds[e] \in Names => ~online'[holds[e]]
        /\ holds[e] # n \/ e \in Publishers => online'[n]
    BY <1>7 DEF Flags, NewFirst, OldFirst, Offline, TypeOK, Places
  <2>2. TypeOK'
    BY <1>2, <1>3, <1>4, <1>7, <2>1 DEF TypeOK, Places, Lists
  <2>3. NobodyWaitsInVain'
    BY <1>4, <1>7, <2>2 DEF NobodyWaitsInVain
  <2>4. UnsharedNamesWork'
    <3> SUFFICES ASSUME NEW m \in Names \ shared'
                 PROVE  /\ online'[m] <=> \E f \in Endpoints : holds'[f] = m
                        /\ victim # m
      BY <1>7 DEF UnsharedNamesWork
    <3>1. CASE m = n
      BY <1>2, <1>7, <2>1, <3>1 DEF UnsharedNamesWork, TypeOK
    <3>2. CASE m # n /\ m = holds[e]
      BY <1>2, <1>7, <2>1, <3>2 DEF UnsharedNamesWork, OnePlace, TypeOK
    <3>3. CASE m # n /\ m # holds[e]
      BY <1>2, <1>7, <2>1, <3>3 DEF UnsharedNamesWork, TypeOK
    <3> QED
      BY <3>1, <3>2, <3>3
  <2>5. OnePlace'
    BY <1>2, <1>7 DEF OnePlace, TypeOK
  <2>6. InUse'
    <3> SUFFICES ASSUME NEW m \in Names \ shared'
                 PROVE  /\ \A f \in Endpoints : holds'[f] = m => present'[m]
                        /\ \A c \in Members :
                             target[c] = m /\ list'[c] = "connected" => present'[m]
      BY <1>7 DEF InUse
    <3>1. m \in Names \ shared
      BY <1>2
    <3>2. present'[m] = (present[m] \/ m = n)
      BY <1>3, <1>7 DEF TypeOK
    <3>3. ASSUME NEW f \in Endpoints, holds'[f] = m PROVE present'[m]
      BY <1>7, <3>1, <3>2, <3>3 DEF InUse, TypeOK
    <3>4. ASSUME NEW c \in Members, target[c] = m, list'[c] = "connected" PROVE present'[m]
      BY <1>4, <1>7, <3>1, <3>2, <3>4 DEF InUse
    <3> QED
      BY <3>3, <3>4
  <2>7. Typed'
    <3> SUFFICES ASSUME NEW m \in Names \ shared'
                 PROVE  /\ present'[m] => kind'[m] # NoType /\ made'[m] = kind'[m]
                        /\ \A f \in Endpoints : holds'[f] = m => kind'[m] = Type[f]
                        /\ \A c \in Members : target[c] = m => /\ kind'[m] \in {NoType, Type[c]}
                                                               /\ list'[c] # "null"
      BY <1>7 DEF Typed
    <3>1. m \in Names \ shared /\ \A c \in Members : target[c] = m => list'[c] # "null"
      BY <1>2, <1>5, <1>7
    <3>2. CASE m = n
      BY <1>2, <1>3, <1>7, <3>1, <3>2 DEF Typed, TypeOK
    <3>3. CASE m # n
      BY <1>3, <1>7, <3>1, <3>3 DEF Typed, TypeOK
    <3> QED
      BY <3>1, <3>2, <3>3
  <2> QED
    BY <2>2, <2>3, <2>4, <2>5, <2>6, <2>7
<1> QED
  BY <1>1, <1>6, <1>7

LEMMA CloseInv ==
  ASSUME Inv, NEW e \in Endpoints, Close(e)
  PROVE  Inv'
<1> USE DEF Inv
<1>1. CASE \E n \in Places : Crash(n) /\ ((n = holds[e] /\ ~CanClose(e)) \/ n \in Misread(e, holds[e]))
  <2>1. PICK n \in Places : /\ Crash(n)
                            /\ (n = holds[e] /\ ~CanClose(e)) \/ n \in Misread(e, holds[e])
    BY <1>1
  <2>2. n \in Names => n \in shared
    BY <2>1, EndpointTyped DEF CanClose, InUse
  <2>3. shared' = shared /\ shared \subseteq Names
    BY DEF Close, TypeOK
  <2> QED
    BY <2>1, <2>2, <2>3, CrashInv
<1>2. CASE /\ CanClose(e)
           /\ online' = Offline(online, e)
           /\ holds' = [holds EXCEPT ![e] = NoName]
           /\ UNCHANGED <<present, kind, made, target, list, changed, spin, victim>>
  <2>1. /\ holds[e] \in Names
        /\ online' = [online EXCEPT ![holds[e]] = FALSE]
        /\ holds' = [holds EXCEPT ![e] = NoName]
        /\ UNCHANGED <<present, kind, made, target, list, changed, due, phase, done, victim, shared>>
    BY <1>2 DEF Close, Offline, TypeOK, Places, spin
  <2>2. TypeOK'
    BY <2>1 DEF TypeOK, Places
  <2>3. NobodyWaitsInVain'
    BY <2>1, <2>2 DEF NobodyWaitsInVain
  <2>4. UnsharedNamesWork'
    BY <2>1, ChannalAssumption DEF UnsharedNamesWork, OnePlace, TypeOK
  <2>5. OnePlace' /\ InUse' /\ Typed'
    BY <2>1, ChannalAssumption DEF OnePlace, InUse, Typed, TypeOK
  <2> QED
    BY <2>2, <2>3, <2>4, <2>5
<1>3. \/ ~CanClose(e) /\ Crash(holds[e])
      \/ \E n \in Misread(e, holds[e]) : Crash(n)
      \/ /\ CanClose(e)
         /\ online' = Offline(online, e)
         /\ holds' = [holds EXCEPT ![e] = NoName]
         /\ UNCHANGED <<present, kind, made, target, list, changed, spin, victim>>
  BY DEF Close
<1>4. holds[e] \in Places /\ Misread(e, holds[e]) \subseteq Places
  BY DEF TypeOK, Misread, Places
<1> QED
  BY <1>1, <1>2, <1>3, <1>4

LEMMA WriteInv ==
  ASSUME Inv, NEW e \in Endpoints, Write(e)
  PROVE  Inv'
<1>1. PICK n : Crash(n) /\ ((n = holds[e] /\ ~present[holds[e]]) \/ n \in Misread(e, holds[e]))
  BY DEF Write
<1>2. n \in Places /\ (n \in Names => n \in shared)
  BY <1>1, EndpointTyped DEF Inv, TypeOK, InUse, Places, Misread
<1>3. shared' = shared /\ shared \subseteq Names
  BY DEF Write, Inv, TypeOK
<1> QED
  BY <1>1, <1>2, <1>3, CrashInv

LEMMA JoinInv ==
  ASSUME Inv, NEW c \in Members, NEW n \in Names, Join(c, n)
  PROVE  Inv'
<1> USE DEF Inv
<1> DEFINE t == [target EXCEPT ![c] = n]
           waits == [list EXCEPT ![c] = "wait"]
           l == Connect(waits, t, present, kind)
           mixed == kind[n] \notin {NoType, Type[c]}
<1>1. /\ shared' = IF mixed \/ \E d \in Members \ {c} : target[d] = n THEN shared \cup {n} ELSE shared
      /\ \/ \E m \in NullUsed(l, t) : Crash(m)
         \/ /\ target' = t /\ list' = l /\ changed' = FALSE
            /\ UNCHANGED <<present, online, kind, made, holds, due, phase, done, victim>>
  BY DEF Join, objects, spin
<1>2. /\ t \in [Members -> Places] /\ waits \in [Members -> Lists]
      /\ \A d \in Members : waits[d] = "none" <=> t[d] = NoName
      /\ t[c] = n /\ waits[c] = "wait"
      /\ \A d \in Members \ {c} : t[d] = target[d] /\ waits[d] = list[d]
  BY ChannalAssumption DEF TypeOK, Places, Lists
<1>3. /\ shared \subseteq shared' /\ shared' \subseteq Names
      /\ n \notin shared' => /\ kind[n] \in {NoType, Type[c]}
                             /\ \A d \in Members \ {c} : target[d] # n
  BY <1>1 DEF TypeOK
<1>0. l = Connect(waits, t, present, kind)
  OBVIOUS
<1> HIDE DEF waits, t, l
<1>4. /\ l \in [Members -> Lists]
      /\ \A d \in Members :
           /\ l[d] = "none" <=> t[d] = NoName
           /\ l[d] = "wait" => ~present[t[d]]
           /\ l[d] = "connected" => waits[d] = "connected" \/ present[t[d]]
           /\ l[d] = "null" => waits[d] = "null" \/ /\ t[d] \in Names /\ present[t[d]]
                                                    /\ kind[t[d]] # Type[d]
  <2>1. present \in [Names -> BOOLEAN] /\ kind \in [Names -> Types \cup {NoType}]
    BY DEF TypeOK
  <2> QED
    BY <1>0, <1>2, <2>1, ConnectGives
<1>5. \A d \in Members : l[d] = "null" => t[d] \in Names /\ t[d] \in shared'
  <2> SUFFICES ASSUME NEW d \in Members, l[d] = "null", t[d] \notin shared'
               PROVE  FALSE
    BY <1>2, <1>4 DEF Places
  <2>1. t[d] \in Names \ shared
    BY <1>2, <1>3, <1>4 DEF Places
  <2>2. CASE d = c
    BY <1>2, <1>3, <1>4, <2>1, <2>2 DEF Typed
  <2>3. CASE d # c
    BY <1>2, <1>4, <2>1, <2>3 DEF Typed
  <2> QED
    BY <2>2, <2>3
<1>6. CASE \E m \in NullUsed(l, t) : Crash(m)
  <2>1. PICK m \in NullUsed(l, t) : Crash(m)
    BY <1>6
  <2>2. m \in Places /\ (m \in Names => m \in shared')
    BY <1>5, <2>1 DEF NullUsed, Members, Places
  <2> QED
    BY <1>3, <2>1, <2>2, CrashInv
<1>7. CASE /\ target' = t /\ list' = l /\ changed' = FALSE
           /\ UNCHANGED <<present, online, kind, made, holds, due, phase, done, victim>>
  <2>1. TypeOK'
    BY <1>2, <1>3, <1>4, <1>7 DEF TypeOK, Lists
  <2>2. NobodyWaitsInVain'
    BY <1>4, <1>7, <2>1 DEF NobodyWaitsInVain
  <2>3. UnsharedNamesWork'
    BY <1>3, <1>7 DEF UnsharedNamesWork
  <2>4. OnePlace'
    BY <1>2, <1>3, <1>7 DEF OnePlace
  <2>5. InUse'
    <3> SUFFICES ASSUME NEW m \in Names \ shared', NEW d \in Members,
                        t[d] = m, l[d] = "connected", ~present[m]
                 PROVE  FALSE
      BY <1>3, <1>7 DEF InUse
    <3>1. d # c /\ list[d] = "connected" /\ target[d] = m
      BY <1>2, <1>4
    <3> QED
      BY <1>3, <3>1 DEF InUse
  <2>6. Typed'
    <3> SUFFICES ASSUME NEW m \in Names \ shared'
                 PROVE  /\ present[m] => kind[m] # NoType /\ made[m] = kind[m]
                        /\ \A f \in Endpoints : holds[f] = m => kind[m] = Type[f]
                        /\ \A d \in Members : t[d] = m => /\ kind[m] \in {NoType, Type[d]}
                                                          /\ l[d] # "null"
      BY <1>7 DEF Typed
    <3>1. m \in Names \ shared /\ \A d \in Members : t[d] = m => l[d] # "null"
      BY <1>3, <1>5
    <3>2. ASSUME NEW d \in Members, t[d] = m PROVE kind[m] \in {NoType, Type[d]}
      BY <1>2, <1>3, <3>1, <3>2 DEF Typed
    <3> QED
      BY <3>1, <3>2 DEF Typed
  <2> QED
    BY <2>1, <2>2, <2>3, <2>4, <2>5, <2>6
<1> QED
  BY <1>1, <1>6, <1>7

LEMMA DropInv ==
  ASSUME Inv, NEW c \in Members, Drop(c)
  PROVE  Inv'
  BY ChannalAssumption
  DEF Drop, Inv, TypeOK, NobodyWaitsInVain, UnsharedNamesWork, OnePlace, InUse, Typed,
     objects, spin, history, Places

LEMMA ReadInv ==
  ASSUME Inv, NEW c \in Members, Read(c)
  PROVE  Inv'
<1>1. PICK n : /\ Crash(n)
               /\ \/ n = NoName
                  \/ n = target[c] /\ list[c] = "null"
                  \/ n = target[c] /\ list[c] = "connected" /\ ~present[target[c]]
                  \/ n \in Misread(c, target[c])
  BY DEF Read
<1>2. n \in Places /\ (n \in Names => n \in shared)
  BY <1>1, MemberTyped, ChannalAssumption DEF Inv, TypeOK, InUse, Typed, Places, Misread
<1>3. shared' = shared /\ shared \subseteq Names
  BY DEF Read, Inv, TypeOK
<1> QED
  BY <1>1, <1>2, <1>3, CrashInv

-----------------------------------------------------------------------------
(* The status check: l is the list after those it connects first. *)
LEMMA CheckInv ==
  ASSUME Inv, NEW l \in [Members -> Lists],
         \A c \in Members :
           /\ l[c] = "none" <=> target[c] = NoName
           /\ l[c] = "wait" => ~present[target[c]]
           /\ l[c] = "connected" => list[c] = "connected" \/ present[target[c]]
           /\ l[c] = "null" => target[c] \in shared,
         Check(l)
  PROVE  Inv'
<1> USE DEF Inv
<1> DEFINE off == {c \in Members : l[c] = "null" \/ (l[c] = "connected" /\ ~is_online(c))}
           Fellows(c, state) == {d \in off \ {c} : target[d] = target[c] /\ l[d] = state}
           connected == {c \in Members : l[c] = "connected"}
           broken == {target[c] : c \in {c \in connected \cap off :
                                           ~present[target[c]] \/ Fellows(c, "connected") # {}}}
                       \cup NullUsed(l, target)
           risky == {target[c] : c \in {c \in connected : Fellows(c, "null") # {}}}
                       \cup UNION {Misread(c, target[c]) : c \in off}
<1>1. /\ shared' = shared
      /\ \/ \E n \in broken \cup risky : Crash(n)
         \/ /\ list' = [c \in Members |-> IF c \in off THEN "wait" ELSE l[c]]
            /\ present' = disconnect_(off)
            /\ online' = [n \in Names |-> online[n] /\ present'[n]]
            /\ changed' \in (IF off = {} THEN {FALSE} ELSE BOOLEAN)
            /\ phase' = "connected" /\ due' = FALSE
            /\ UNCHANGED <<kind, made, holds, target, done, victim>>
  BY DEF Check
<1>2. \A c \in Members : target[c] \in Places /\ (l[c] # "none" => target[c] \in Names)
  BY DEF TypeOK, Places
<1>3. CASE \E n \in broken \cup risky : Crash(n)
  <2>1. PICK n \in broken \cup risky : Crash(n)
    BY <1>3
  <2>2. n \in shared
    <3>1. CASE \E c \in connected \cap off :
                 n = target[c] /\ (~present[target[c]] \/ Fellows(c, "connected") # {})
      BY <1>2, <3>1 DEF InUse, OnePlace
    <3>2. CASE n \in NullUsed(l, target)
      BY <3>2 DEF NullUsed, Members
    <3>3. CASE \E c \in connected : n = target[c] /\ Fellows(c, "null") # {}
      BY <3>3
    <3>4. CASE \E c \in off : n \in Misread(c, target[c])
      BY <3>4, MemberTyped
    <3> QED
      BY <2>1, <3>1, <3>2, <3>3, <3>4
  <2>3. shared \subseteq Names
    BY DEF TypeOK
  <2> QED
    BY <1>1, <2>1, <2>2, <2>3, CrashInv DEF Places
<1>4. CASE /\ list' = [c \in Members |-> IF c \in off THEN "wait" ELSE l[c]]
           /\ present' = disconnect_(off)
           /\ online' = [n \in Names |-> online[n] /\ present'[n]]
           /\ changed' \in (IF off = {} THEN {FALSE} ELSE BOOLEAN)
           /\ phase' = "connected" /\ due' = FALSE
           /\ UNCHANGED <<kind, made, holds, target, done, victim>>
  <2>1. /\ present' \in [Names -> BOOLEAN] /\ online' \in [Names -> BOOLEAN]
        /\ \A n \in Names : /\ present'[n] <=> present[n] /\ \A c \in off : target[c] # n
                            /\ online'[n] <=> online[n] /\ present'[n]
        /\ changed' \in BOOLEAN
    BY <1>4 DEF disconnect_, TypeOK
  <2>2. \A c \in Members : c \in off => l[c] # "none"
    OBVIOUS
  <2>3. TypeOK'
    BY <1>1, <1>2, <1>4, <2>1, <2>2 DEF TypeOK, Lists
  <2>4. NobodyWaitsInVain'
    BY <1>2, <1>4, <2>1, <2>2, <2>3 DEF NobodyWaitsInVain, TypeOK
  <2>5. \A n \in Names \ shared : online[n] => present'[n]
    <3> SUFFICES ASSUME NEW n \in Names \ shared, online[n]
                 PROVE  present[n] /\ \A c \in off : target[c] # n
      BY <2>1
    <3> QED
      BY DEF UnsharedNamesWork, InUse, is_online
  <2>6. UnsharedNamesWork' /\ OnePlace'
    BY <1>1, <1>4, <2>1, <2>5 DEF UnsharedNamesWork, OnePlace
  <2>7. InUse'
    <3> SUFFICES ASSUME NEW n \in Names \ shared
                 PROVE  /\ \A e \in Endpoints : holds[e] = n => present'[n]
                        /\ \A c \in Members : target[c] = n /\ list'[c] = "connected" => present'[n]
      BY <1>1, <1>4 DEF InUse
    <3>1. ASSUME NEW e \in Endpoints, holds[e] = n PROVE present'[n]
      BY <2>5, <3>1 DEF UnsharedNamesWork
    <3>2. ASSUME NEW c \in Members, target[c] = n, list'[c] = "connected" PROVE present'[n]
      <4>1. l[c] = "connected" /\ c \notin off
        BY <1>4, <3>2
      <4> QED
        BY <2>5, <3>2, <4>1 DEF is_online
    <3> QED
      BY <3>1, <3>2
  <2>8. Typed'
    BY <1>1, <1>4, <2>1 DEF Typed
  <2> QED
    BY <2>3, <2>4, <2>6, <2>7, <2>8
<1> QED
  BY <1>1, <1>3, <1>4

LEMMA SpinInv ==
  ASSUME Inv, Spin
  PROVE  Inv'
<1>0. shared \subseteq Names
  BY DEF Inv, TypeOK
<1>1. CASE SpinOnce /\ due
  <2> DEFINE l == IF changed THEN Connect(list, target, present, kind) ELSE list
  <2>1. Check(l)
    BY <1>1 DEF SpinOnce, check_connect_status_
  <2>0. (changed => l = Connect(list, target, present, kind)) /\ (~changed => l = list)
    OBVIOUS
  <2> HIDE DEF l
  <2>2. /\ l \in [Members -> Lists]
        /\ \A c \in Members :
             /\ l[c] = "none" <=> target[c] = NoName
             /\ l[c] = "wait" => ~present[target[c]]
             /\ l[c] = "connected" => list[c] = "connected" \/ present[target[c]]
             /\ l[c] = "null" => \/ list[c] = "null"
                                 \/ target[c] \in Names /\ present[target[c]] /\ kind[target[c]] # Type[c]
    <3>1. /\ list \in [Members -> Lists] /\ target \in [Members -> Places]
          /\ present \in [Names -> BOOLEAN] /\ kind \in [Names -> Types \cup {NoType}]
          /\ \A c \in Members : list[c] = "none" <=> target[c] = NoName
          /\ \A c \in Members : list[c] = "wait" => ~present[target[c]]
      BY DEF Inv, TypeOK, NobodyWaitsInVain, Lists
    <3>2. CASE changed
      BY <2>0, <3>1, <3>2, ConnectGives
    <3>3. CASE ~changed
      <4>1. l = list
        BY <2>0, <3>3
      <4> QED
        BY <3>1, <4>1, Zenon
    <3> QED
      BY <3>2, <3>3
  <2>3. \A c \in Members : l[c] = "null" => target[c] \in shared
    BY <2>2 DEF Inv, TypeOK, Typed, Places
  <2> QED
    BY <2>1, <2>2, <2>3, CheckInv
<1>2. CASE SpinOnce /\ ~due
  BY <1>2 DEF SpinOnce, objects, places, history,
     Inv, TypeOK, NobodyWaitsInVain, UnsharedNamesWork, OnePlace, InUse, Typed
<1>3. CASE SpinWork \/ SpinEnd
  BY <1>3 DEF SpinWork, SpinEnd, objects, places, history,
     Inv, TypeOK, NobodyWaitsInVain, UnsharedNamesWork, OnePlace, InUse, Typed
<1>4. ASSUME NEW u \in Subscribers, SpinSubscriber(u) PROVE Inv'
  <2>1. CASE \E n : Crash(n) /\ ((n = target[u] /\ ~present[target[u]]) \/ n \in Misread(u, target[u]))
    <3>1. PICK n : Crash(n) /\ ((n = target[u] /\ ~present[target[u]]) \/ n \in Misread(u, target[u]))
      BY <2>1
    <3>2. u \in Members /\ list[u] = "connected" /\ shared' = shared
      BY <1>4 DEF SpinSubscriber, Members
    <3>3. n \in Places /\ (n \in Names => n \in shared)
      BY <3>1, <3>2, MemberTyped DEF Inv, TypeOK, InUse, Places, Misread
    <3> QED
      BY <1>0, <3>1, <3>2, <3>3, CrashInv
  <2>2. CASE done' = done \cup {u} /\ UNCHANGED <<objects, places, due, phase, victim, shared>>
    BY <1>4, <2>2 DEF objects, places,
       Inv, TypeOK, NobodyWaitsInVain, UnsharedNamesWork, OnePlace, InUse, Typed
  <2> QED
    BY <1>4, <2>1, <2>2 DEF SpinSubscriber
<1>5. ASSUME NEW s \in Services, SpinService(s) PROVE Inv'
  <2>0. s \in Endpoints /\ shared' = shared
    BY <1>5 DEF Endpoints, SpinService
  <2>1. CASE \E n : Crash(n) /\ ((n = holds[s] /\ ~present[holds[s]]) \/ n \in Misread(s, holds[s]))
    <3>1. PICK n : Crash(n) /\ ((n = holds[s] /\ ~present[holds[s]]) \/ n \in Misread(s, holds[s]))
      BY <2>1
    <3>2. n \in Places /\ (n \in Names => n \in shared)
      BY <2>0, <3>1, EndpointTyped DEF Inv, TypeOK, InUse, Places, Misread
    <3> QED
      BY <1>0, <2>0, <3>1, <3>2, CrashInv
  <2>2. CASE /\ present[holds[s]] /\ ~online[holds[s]]
             /\ phase' = "stuck" /\ victim' = holds[s]
             /\ UNCHANGED <<objects, places, due, done>>
    <3>1. holds[s] \in Places /\ (holds[s] \in Names => holds[s] \in shared)
      BY <2>0, <2>2 DEF Inv, TypeOK, UnsharedNamesWork
    <3> QED
      BY <2>0, <2>2, <3>1 DEF objects, places,
         Inv, TypeOK, NobodyWaitsInVain, UnsharedNamesWork, OnePlace, InUse, Typed
  <2>3. CASE done' = done \cup {s} /\ UNCHANGED <<objects, places, due, phase, victim>>
    BY <2>0, <2>3 DEF objects, places,
       Inv, TypeOK, NobodyWaitsInVain, UnsharedNamesWork, OnePlace, InUse, Typed
  <2> QED
    BY <1>5, <2>1, <2>2, <2>3 DEF SpinService
<1> QED
  BY <1>1, <1>2, <1>3, <1>4, <1>5 DEF Spin

LEMMA StepInv == Inv /\ (Steps \/ UNCHANGED vars) => Inv'
<1> SUFFICES ASSUME Inv, Steps \/ UNCHANGED vars PROVE Inv'
  OBVIOUS
<1>1. CASE UNCHANGED vars
  BY <1>1 DEF vars, objects, places, spin, history,
     Inv, TypeOK, NobodyWaitsInVain, UnsharedNamesWork, OnePlace, InUse, Typed
<1>2. CASE Elapse
  BY <1>2 DEF Elapse, objects, places, history,
     Inv, TypeOK, NobodyWaitsInVain, UnsharedNamesWork, OnePlace, InUse, Typed
<1> QED
  BY <1>1, <1>2, OpenInv, CloseInv, WriteInv, JoinInv, DropInv, ReadInv, SpinInv DEF Steps

-----------------------------------------------------------------------------
(* Whatever the layer of mutable communicators does is a step of the lists. *)
LEMMA LayerSteps ==
  ASSUME LayerType, [MutableNext]_allVars
  PROVE  (Steps \/ UNCHANGED vars) /\ LayerType'
<1>1. /\ Writers \subseteq Endpoints /\ Publishers \subseteq Endpoints /\ Services \subseteq Endpoints
      /\ Readers \subseteq Members /\ Subscribers \subseteq Members /\ Clients \subseteq Members
  BY DEF Endpoints, Members
<1>2. ASSUME NEW x, NEW n \in Names, Redirect(x, n)
      PROVE  (Steps \/ UNCHANGED vars) /\ LayerType'
  <2>1. Steps \/ UNCHANGED vars
    BY <1>1, <1>2 DEF Redirect, RedirectWriter, RedirectReader, RedirectPublisher,
       RedirectSubscriber, writer, publisher, reader, subscriber, Steps
  <2>2. sub_name_' = sub_name_ \/ sub_name_' = [sub_name_ EXCEPT ![x] = n]
    BY <1>2 DEF Redirect, RedirectWriter, RedirectReader, RedirectPublisher, RedirectSubscriber
  <2> QED
    BY <2>1, <2>2 DEF LayerType, Places
<1>3. ASSUME NEW x \in Mutables, Create(x)
      PROVE  (Steps \/ UNCHANGED vars) /\ LayerType'
  <2>1. Preset[x] \in Names \cup {NoName}
    BY PresetAssumption DEF Mutables
  <2>2. CASE Preset[x] = NoName
    BY <1>3, <2>2 DEF Create, LayerType
  <2>3. CASE Preset[x] # NoName
    BY <1>2, <1>3, <2>1, <2>3 DEF Create
  <2> QED
    BY <2>2, <2>3
<1>4. ASSUME NEW x \in Mutables, NEW n \in Names, Redirected(x, n)
      PROVE  (Steps \/ UNCHANGED vars) /\ LayerType'
  BY <1>2, <1>4 DEF Redirected
<1>5. ASSUME NEW x \in Mutables, Disconnected(x) PROVE Steps /\ LayerType'
  BY <1>1, <1>5 DEF Disconnected, DisconnectWriter, DisconnectReader, DisconnectPublisher,
     DisconnectSubscriber, Steps, layer, LayerType
<1>6. ASSUME NEW u \in Subscribers, set_sub_callback(u)
      PROVE  (Steps \/ UNCHANGED vars) /\ LayerType'
  <2>1. sub_name_[u] = NoName \/ sub_name_[u] \in Names
    BY DEF LayerType, Places
  <2> QED
    BY <1>1, <1>6, <2>1 DEF set_sub_callback, subscriber, Steps, LayerType
<1>7. CASE Use
  BY <1>1, <1>7 DEF Use, write, publish, read, service, call, client, Steps, layer, LayerType
<1>8. CASE (Spin \/ Elapse) /\ UNCHANGED layer
  BY <1>8 DEF Steps, layer, LayerType
<1>9. CASE UNCHANGED allVars
  BY <1>9 DEF allVars, layer, LayerType
<1> QED
  BY <1>3, <1>4, <1>5, <1>6, <1>7, <1>8, <1>9 DEF MutableNext

LEMMA AlwaysInv == MutableSpec => []Inv
<1>1. MutableInit => Inv /\ LayerType
  BY InvInit DEF MutableInit, LayerType, Places
<1>2. Inv /\ LayerType /\ [MutableNext]_allVars => (Inv /\ LayerType)'
  BY StepInv, LayerSteps
<1> QED
  BY <1>1, <1>2, PTL DEF MutableSpec

(* No member waits for a name that has an object, whatever is made, dropped, *)
(* redirected or disconnected (local_channal.cpp:159).                       *)
THEOREM NobodyIsForgotten == MutableSpec => []NobodyWaitsInVain
  BY AlwaysInv, PTL DEF Inv

(* As long as no two endpoints, no two members and no two types used a name, *)
(* it is online just while it has an endpoint, and the process never breaks  *)
(* down over it (local_channal.cpp:151, local_channal.hpp:430 and 436).      *)
THEOREM UnsharedNamesAreSafe == MutableSpec => []UnsharedNamesWork
  BY AlwaysInv, PTL DEF Inv
=============================================================================
