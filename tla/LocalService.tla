---------------------------- MODULE LocalService ----------------------------
(***************************************************************************)
(* Calls on the local channel (local_channal.hpp): a LocalClient pushes    *)
(* its request on the SharedCircularBuffer of the service and waits for    *)
(* the request's is_ready; the LocalService, driven by spin_once, works    *)
(* through the buffer. A service may be destroyed and made anew while      *)
(* calls are pending: over the same buffer, or over a new one if the       *)
(* spinning thread has meanwhile disconnected a client, which destroys     *)
(* the buffer under all who use it.                                        *)
(*                                                                         *)
(* Request number r is the r-th one pushed. Each access to the buffer      *)
(* locks its mutex for that access alone. Names differ from those of       *)
(* LocalTopic, so that LocalTopic_proofs can speak of both.                *)
(***************************************************************************)
EXTENDS Integers, FiniteSets, CircularBuffer

CONSTANTS Clients,
          MaxCalls,      \* bound on the calls made
          MaxServices,   \* bound on the services made over the buffer
          Polite         \* whether clients look at is_online() and coin::ok()
                         \* before they call

ASSUME ServiceAssumption ==
  /\ IsFiniteSet(Clients)
  /\ MaxCalls \in Nat /\ MaxServices \in Nat \ {0}
  /\ Polite \in BOOLEAN

VARIABLES
  ok,                   \* coin::ok()
  online,               \* is_online of the shared item
  mapped,               \* whether the item exists: the retention has a ptr_
  data_buffer_,         \* the clients whose data_buffer_ is not null
  stage, idx_, sref,    \* the service: control point, idx_, slot of `it`
  cur,                  \* the request its callback runs on
  reset_idx,            \* loop index of its destructor
  made, since,          \* how many services were made; tail_ when this one
                        \* went online
  cpc, req, result,     \* each client: control point, its latest request,
                        \* what that call has returned
  is_ready, served      \* each request: its flag, how often it was served

service == <<stage, idx_, sref, cur, reset_idx, made, since>>
client == <<cpc, req, result>>
request == <<is_ready, served>>
link == <<ok, mapped, data_buffer_>>
serviceVars == <<ring, online, link, service, client, request>>

Requests == 0 .. (MaxCalls - 1)

ServiceTypeOK ==
  /\ head \in 0 .. MaxCalls /\ tail \in 0 .. MaxCalls
  /\ slots \in [0 .. (N - 1) -> Requests \cup {Null}]
  /\ online \in BOOLEAN /\ ok \in BOOLEAN
  /\ mapped \in BOOLEAN /\ data_buffer_ \subseteq Clients
  /\ stage \in {"create", "start", "head", "skip", "tail", "pick", "call",
              "ready", "reset", "off", "crashed"}
  /\ idx_ \in 0 .. MaxCalls /\ reset_idx \in 0 .. MaxCalls
  /\ sref \in 0 .. (N - 1)
  /\ cur \in Requests \cup {Null}
  /\ made \in 1 .. MaxServices /\ since \in 0 .. MaxCalls
  /\ cpc \in [Clients -> {"idle", "push", "wait", "check", "leave",
                      "crashed"}]
  /\ req \in [Clients -> Requests \cup {-1}]
  /\ result \in [Clients -> BOOLEAN]
  /\ is_ready \in [Requests -> BOOLEAN]
  /\ served \in [Requests -> Nat]

(* The buffer exists; the constructor of the service is about to read       *)
(* tail() for idx_, and clients wait to be connected.                       *)
ServiceInit ==
  /\ head = 0 /\ tail = 0 /\ slots = [i \in 0 .. (N - 1) |-> Null]
  /\ online = FALSE /\ ok = TRUE
  /\ mapped = TRUE /\ data_buffer_ = {}
  /\ stage = "create" /\ idx_ = 0 /\ sref = 0 /\ cur = Null /\ reset_idx = 0
  /\ made = 1 /\ since = 0
  /\ cpc = [c \in Clients |-> "idle"]
  /\ req = [c \in Clients |-> -1]
  /\ result = [c \in Clients |-> FALSE]
  /\ is_ready = [r \in Requests |-> FALSE]
  /\ served = [r \in Requests |-> 0]

-----------------------------------------------------------------------------
ClientAt(c, where) == cpc' = [cpc EXCEPT ![c] = where]

(* data_buffer_->get() of client c finds the item. *)
Reaches(c) == mapped /\ c \in data_buffer_

(* A client decides to call, if it is polite after is_online() and ok().    *)
(* Without a data_buffer_, is_online() and call() are false at once.        *)
Ask(c) ==
  /\ cpc[c] = "idle" /\ Reaches(c)
  /\ tail + Cardinality({d \in Clients : cpc[d] = "push"}) < MaxCalls
  /\ Polite => online /\ ok
  /\ ClientAt(c, "push")
  /\ UNCHANGED <<ring, online, link, service, req, result, request>>

(* call(), up to push_back: the request is not ready, and is the newest.    *)
Push(c) ==
  /\ cpc[c] = "push" /\ Reaches(c)
  /\ is_ready' = [is_ready EXCEPT ![tail] = FALSE]
  /\ req' = [req EXCEPT ![c] = tail]
  /\ slots' = [slots EXCEPT ![tail % N] = tail]
  /\ tail' = tail + 1
  /\ head' = HeadAfterPush(head, tail + 1)
  /\ ClientAt(c, "wait")
  /\ result' = [result EXCEPT ![c] = FALSE]
  /\ UNCHANGED <<online, link, service, served>>

(* while(not is_ready and ok()) ... *)
Poll(c) ==
  /\ cpc[c] = "wait"
  /\ ClientAt(c, IF is_ready[req[c]] \/ ~ok THEN "leave" ELSE "check")
  /\ UNCHANGED <<ring, online, link, service, req, result, request>>

(* ... return is_ready *)
Leave(c) ==
  /\ cpc[c] = "leave"
  /\ ClientAt(c, "idle")
  /\ result' = [result EXCEPT ![c] = is_ready[req[c]]]
  /\ UNCHANGED <<ring, online, link, service, req, request>>

(* Mutant: a call that meets an offline service ends as if answered. *)
CheckOnlineTrue(c) ==
  /\ cpc[c] = "check" /\ Reaches(c)
  /\ IF online
       THEN ClientAt(c, "wait") /\ UNCHANGED result
       ELSE ClientAt(c, "idle") /\ result' = [result EXCEPT ![c] = TRUE]
  /\ UNCHANGED <<ring, online, link, service, req, request>>

(* if(not is_online) return false *)
CheckOnline(c) ==
  /\ cpc[c] = "check" /\ Reaches(c)
  /\ IF online
       THEN ClientAt(c, "wait") /\ UNCHANGED result
       ELSE ClientAt(c, "idle") /\ result' = [result EXCEPT ![c] = FALSE]
  /\ UNCHANGED <<ring, online, link, service, req, request>>

-----------------------------------------------------------------------------
(* Mutant: a service made anew begins with what is in the buffer. *)
CreateAtHead ==
  /\ stage = "create" /\ mapped
  /\ idx_' = head
  /\ stage' = "start"
  /\ UNCHANGED <<ring, online, link, sref, cur, reset_idx, made, since, client, request>>

(* The constructor of LocalService: idx_ = tail(), ... *)
Create ==
  /\ stage = "create" /\ mapped
  /\ idx_' = tail
  /\ stage' = "start"
  /\ UNCHANGED <<ring, online, link, sref, cur, reset_idx, made, since, client, request>>

(* ... is_online = true. *)
GoOnline ==
  /\ stage = "start" /\ mapped
  /\ online' = TRUE
  /\ since' = tail
  /\ stage' = "head"
  /\ UNCHANGED <<ring, link, idx_, sref, cur, reset_idx, made, client, request>>

(* spin_ calls is_ready_: if(idx_ < head()) ... *)
CompareHead ==
  /\ stage = "head"
  /\ stage' = IF idx_ < head THEN "skip" ELSE "tail"
  /\ UNCHANGED <<ring, online, link, idx_, sref, cur, reset_idx, made, since, client, request>>

(* Mutant: go on with the newest request, as a subscriber may. *)
SkipToNewest ==
  /\ stage = "skip"
  /\ idx_' = tail - 1
  /\ stage' = "tail"
  /\ UNCHANGED <<ring, online, link, sref, cur, reset_idx, made, since, client, request>>

(* ... idx_ = head() ... *)
SkipOverrun ==
  /\ stage = "skip"
  /\ idx_' = head
  /\ stage' = "tail"
  /\ UNCHANGED <<ring, online, link, sref, cur, reset_idx, made, since, client, request>>

(* ... return idx_ < tail(). *)
CompareTail ==
  /\ stage = "tail"
  /\ stage' = IF idx_ < tail THEN "pick" ELSE "head"
  /\ UNCHANGED <<ring, online, link, idx_, sref, cur, reset_idx, made, since, client, request>>

(* auto& it = buffer[idx_]: a reference to the slot, not to the request. *)
Pick ==
  /\ stage = "pick"
  /\ sref' = SlotOf(idx_, head, tail)
  /\ stage' = "call"
  /\ UNCHANGED <<ring, online, link, idx_, cur, reset_idx, made, since, client, request>>

(* cb_(it->first.ptr, it->second.ptr) begins. *)
Callback ==
  /\ stage = "call"
  /\ cur' = slots[sref]
  /\ stage' = "ready"
  /\ UNCHANGED <<ring, online, link, idx_, sref, reset_idx, made, since, client, request>>

(* It has returned; it->second.is_ready = true; idx_ += 1. *)
Ready ==
  /\ stage = "ready"
  /\ served' = [served EXCEPT ![cur] = @ + 1]
  /\ is_ready' = [is_ready EXCEPT ![slots[sref]] = TRUE]
  /\ idx_' = idx_ + 1
  /\ stage' = "head"
  /\ UNCHANGED <<ring, online, link, sref, cur, reset_idx, made, since, client>>

(* Mutant: the destructor leaves is_online set. *)
OfflineUnsaid ==
  /\ stage = "head" /\ made < MaxServices
  /\ reset_idx' = head
  /\ stage' = "reset"
  /\ UNCHANGED <<ring, online, link, idx_, sref, cur, made, since, client, request>>

(* ~LocalService, between two spins: go offline, ... *)
GoOffline ==
  /\ stage = "head" /\ made < MaxServices
  /\ online' = FALSE
  /\ reset_idx' = head
  /\ stage' = "reset"
  /\ UNCHANGED <<ring, link, idx_, sref, cur, made, since, client, request>>

(* ... reset the element of each index from head() up to tail(). *)
ResetRequests ==
  /\ stage = "reset" /\ mapped
  /\ IF reset_idx < tail
       THEN /\ slots' = [slots EXCEPT ![SlotOf(reset_idx, head, tail)] = Null]
            /\ reset_idx' = reset_idx + 1
            /\ UNCHANGED stage
       ELSE /\ stage' = "off"
            /\ UNCHANGED <<slots, reset_idx>>
  /\ UNCHANGED <<head, tail, online, link, idx_, sref, cur, made, since, client, request>>

(* A new service of the same name: create() returns the buffer that exists, *)
(* or makes a new, empty one, and gives it to the old retention. Indices go *)
(* on from those of the old one, which tells nobody anything.               *)
Remake ==
  /\ stage = "off"
  /\ made' = made + 1
  /\ stage' = "create"
  /\ mapped' = TRUE
  /\ IF mapped
       THEN UNCHANGED ring
       ELSE head' = tail /\ tail' = tail /\ slots' = [i \in DOMAIN slots |-> Null]
  /\ UNCHANGED <<online, ok, data_buffer_, idx_, sref, cur, reset_idx, since, client, request>>

-----------------------------------------------------------------------------
(* The program is told to end. *)
Quit ==
  /\ ok
  /\ ok' = FALSE
  /\ UNCHANGED <<ring, online, mapped, data_buffer_, service, client, request>>

(* check_connect_immediately_, not in the middle of a spin, whose thread it *)
(* runs in: connecte_to_ of a client whose name has an object.              *)
Connect(c) ==
  /\ mapped /\ c \notin data_buffer_
  /\ stage \in {"create", "start", "head", "reset", "off"}
  /\ data_buffer_' = data_buffer_ \cup {c}
  /\ UNCHANGED <<ring, online, ok, mapped, service, client, request>>

(* check_connect_status_, in the spinning thread, finds a client's service  *)
(* offline: disconnect_ destroys the item and drops data_buffer_, whatever  *)
(* the threads that call or make a service are doing.                       *)
Disconnect(c) ==
  /\ Reaches(c) /\ ~online /\ stage # "crashed"
  /\ mapped' = FALSE
  /\ data_buffer_' = data_buffer_ \ {c}
  /\ UNCHANGED <<ring, online, ok, service, client, request>>

(* The process, the service and all clients, dies over a null pointer. *)
Crash ==
  /\ stage' = "crashed"
  /\ cpc' = [c \in Clients |-> "crashed"]
  /\ UNCHANGED <<ring, online, link, idx_, sref, cur, reset_idx, made, since, req, result, request>>

(* call() pushes, or looks at is_online after its sleep. *)
CallCrashes(c) == cpc[c] \in {"push", "check"} /\ ~Reaches(c) /\ Crash

(* The next turn of check_connect_status_, or a program that asks, calls    *)
(* is_online() of a client that was not the one disconnected.               *)
ConnectedCrashes == ~mapped /\ data_buffer_ # {} /\ stage # "crashed" /\ Crash

(* A constructor or destructor goes on with the item that was destroyed.    *)
MakingCrashes == stage \in {"create", "start", "reset"} /\ ~mapped /\ Crash

-----------------------------------------------------------------------------
ClientStep(c) == Push(c) \/ Poll(c) \/ CheckOnline(c) \/ Leave(c) \/ CallCrashes(c)

SpinService == CompareHead \/ SkipOverrun \/ CompareTail \/ Pick \/ Callback \/ Ready

ServiceStep == Create \/ GoOnline \/ SpinService \/ ResetRequests \/ MakingCrashes

ServiceNext ==
  \/ \E c \in Clients : Ask(c) \/ ClientStep(c) \/ Connect(c) \/ Disconnect(c)
  \/ ServiceStep \/ GoOffline \/ Remake \/ ConnectedCrashes \/ Quit

ServiceSpec == ServiceInit /\ [][ServiceNext]_serviceVars

(* call() loops, and the program of the service, while it has one and is ok *)
(* to run, calls spin_once() again and again; constructors and destructors  *)
(* end.                                                                     *)
FairServiceSpec ==
  /\ ServiceSpec
  /\ WF_serviceVars(ok /\ ServiceStep)
  /\ \A c \in Clients : WF_serviceVars(ClientStep(c))

-----------------------------------------------------------------------------
Pending(c) == cpc[c] \in {"wait", "check", "leave"}

(* A request that was made of this service. *)
Current(c) == Pending(c) /\ req[c] >= since /\ online

(* Until it is marked ready, a request made of the service that is online   *)
(* is where the service will come to it: not passed, not overrun, and the   *)
(* slot the service is working on is not taken away under its callback.     *)
WaitingIsQueued ==
  /\ ServiceTypeOK
  /\ \A c \in Clients :
       Current(c) /\ ~is_ready[req[c]] =>
         /\ idx_ <= req[c] /\ head <= req[c]
         /\ slots[req[c] % N] = req[c]
  /\ stage = "ready" => slots[sref] = cur

(* The callback runs at most once on a request that was made while this     *)
(* service was online, and never on an empty element, although services are *)
(* made anew over the same buffer. (A request pushed between the service's  *)
(* two constructor steps may be served twice: operator[] moves idx_ past a  *)
(* loss that happens after is_ready_, and idx_ += 1 then comes back to it.) *)
ServedOnce ==
  /\ \A r \in Requests : r >= since => served[r] <= 1
  /\ stage \in {"call", "ready"} => slots[sref] # Null

(* The clients' view is that of RemoteCall: true means served.              *)
phase == [c \in Clients |->
            IF cpc[c] = "crashed" THEN "ended"
            ELSE IF ~Pending(c) THEN "returned"
            ELSE IF served[req[c]] > 0 THEN "served" ELSE "called"]
Promise == INSTANCE RemoteCall
ImplementsCall == Promise!Spec

(* Every call returns, also when the service is destroyed or the program    *)
(* ends, unless the service it was made of is replaced by another one       *)
(* before the client has looked, or the process has died.                   *)
CallsReturn ==
  \A c \in Clients :
    Pending(c) ~> cpc[c] \in {"idle", "crashed"} \/ (online /\ req[c] < since)
=============================================================================
