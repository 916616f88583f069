------------------------- MODULE MutableCommunicator -------------------------
(***************************************************************************)
(* Communicators whose name can be changed from outside (communicator.hpp, *)
(* communicator.cpp) above the lists of the process: each is registered    *)
(* under an id, takes the name the environment gives for that id, and is   *)
(* redirected or disconnected by the requests of a service. Services and   *)
(* clients are not mutable; they are made and dropped under a name.        *)
(***************************************************************************)
EXTENDS LocalChannal

CONSTANT Preset         \* the name COIN_NODE_COMMUNICATIONS gives each id, or NoName

ASSUME PresetAssumption ==
  Preset \in [Writers \cup Publishers \cup Readers \cup Subscribers -> Names \cup {NoName}]

Mutables == Writers \cup Publishers \cup Readers \cup Subscribers

VARIABLES registered,   \* ids in mutable_communicator()
          callback,     \* subscribers that were given one
          sub_name_     \* the name a subscriber was last redirected to

layer == <<registered, callback, sub_name_>>
allVars == <<vars, layer>>

MutableInit ==
  /\ Init
  /\ registered = {} /\ callback = {}
  /\ sub_name_ = [u \in Subscribers |-> NoName]

RedirectWriter(w, n) == writer(w, n) /\ UNCHANGED sub_name_
RedirectReader(r, n) == reader(r, n) /\ UNCHANGED sub_name_
RedirectPublisher(p, n) == publisher(p, n) /\ UNCHANGED sub_name_

(* A subscriber without a callback only remembers the name. *)
RedirectSubscriber(u, n) ==
  /\ u \in Subscribers
  /\ sub_name_' = [sub_name_ EXCEPT ![u] = n]
  /\ IF u \in callback' THEN subscriber(u, n) ELSE UserCode /\ UNCHANGED vars

Redirect(x, n) ==
  \/ RedirectWriter(x, n) \/ RedirectReader(x, n)
  \/ RedirectPublisher(x, n) \/ RedirectSubscriber(x, n)

(* create, of a subscriber with a callback or without, then                      *)
(* register_mutable_communicator_                                                *)
Create(x) ==
  /\ x \notin registered /\ registered' = registered \cup {x}
  /\ callback' \in {callback, callback \cup ({x} \cap Subscribers)}
  /\ IF Preset[x] = NoName THEN UserCode /\ UNCHANGED <<vars, sub_name_>>
     ELSE Redirect(x, Preset[x])

(* mutable_communicator_service_callback_, or the owner itself *)
Redirected(x, n) ==
  /\ x \in registered
  /\ UNCHANGED <<registered, callback>>
  /\ Redirect(x, n)

DisconnectWriter(w) == w \in Writers /\ Close(w)
DisconnectReader(r) == r \in Readers /\ Drop(r)
DisconnectPublisher(p) == p \in Publishers /\ Close(p)
DisconnectSubscriber(u) == u \in Subscribers /\ Drop(u)

(* The object is reset; a subscriber keeps the name. *)
Disconnected(x) ==
  /\ x \in registered
  /\ \/ DisconnectWriter(x) \/ DisconnectReader(x)
     \/ DisconnectPublisher(x) \/ DisconnectSubscriber(x)
  /\ UNCHANGED layer

(* set_sub_callback makes a new subscriber of the name remembered, disconnected  *)
(* or not.                                                                       *)
set_sub_callback(u) ==
  /\ u \in registered /\ callback' = callback \cup {u}
  /\ IF sub_name_[u] = NoName THEN UserCode /\ UNCHANGED vars ELSE subscriber(u, sub_name_[u])
  /\ UNCHANGED <<registered, sub_name_>>

write(w) == w \in Writers /\ Write(w)
publish(p) == p \in Publishers /\ Write(p)

(* Without an object to read from, nothing is read. *)
read(r) == r \in Readers /\ Read(r)
call(c) == c \in Clients /\ Read(c)

Use ==
  /\ \/ \E e \in Writers \cup Publishers : write(e) \/ publish(e)
     \/ \E c \in Readers : read(c)
     \/ \E s \in Services : Close(s) \/ \E n \in Names : service(s, n)
     \/ \E c \in Clients : call(c) \/ Drop(c) \/ \E n \in Names : client(c, n)
  /\ UNCHANGED layer

MutableNext ==
  \/ \E x \in Mutables : Create(x) \/ Disconnected(x) \/ \E n \in Names : Redirected(x, n)
  \/ \E u \in Subscribers : set_sub_callback(u)
  \/ Use
  \/ (Spin \/ Elapse) /\ UNCHANGED layer

(* The thread spins as long as it lives, and time passes. *)
MutableSpec ==
  /\ MutableInit /\ [][MutableNext]_allVars
  /\ WF_allVars(Spin /\ UNCHANGED layer) /\ WF_allVars(Elapse /\ UNCHANGED layer)
=============================================================================
