----------------------------- MODULE RemoteCall -----------------------------
(***************************************************************************)
(* What a service promises its clients: call() returns true only after the *)
(* callback has run on this very request, once; when it returns false, the *)
(* callback may or may not have run. All may end in the middle of a call.  *)
(***************************************************************************)
CONSTANT Clients

VARIABLES phase,     \* of the latest call of each client
          result     \* what that call has returned

vars == <<phase, result>>

Init ==
  /\ phase = [c \in Clients |-> "returned"]
  /\ result = [c \in Clients |-> FALSE]

Call(c) ==
  /\ phase[c] = "returned"
  /\ phase' = [phase EXCEPT ![c] = "called"]
  /\ result' = [result EXCEPT ![c] = FALSE]

Serve(c) ==
  /\ phase[c] = "called"
  /\ phase' = [phase EXCEPT ![c] = "served"]
  /\ UNCHANGED result

Return(c, answer) ==
  /\ phase[c] = "served" \/ (phase[c] = "called" /\ ~answer)
  /\ phase' = [phase EXCEPT ![c] = "returned"]
  /\ result' = [result EXCEPT ![c] = answer]

End ==
  /\ phase' = [c \in Clients |-> "ended"]
  /\ UNCHANGED result

Next ==
  \/ End
  \/ \E c \in Clients :
       Call(c) \/ Serve(c) \/ \E answer \in BOOLEAN : Return(c, answer)

Spec == Init /\ [][Next]_vars
=============================================================================
