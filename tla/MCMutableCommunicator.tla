------------------------ MODULE MCMutableCommunicator ------------------------
(* The writer's id and the subscriber's have a name in the environment; there is *)
(* a type for each kind of communication; the writer and the subscriber move     *)
(* between the two names, of which the others have one each.                     *)
EXTENDS MutableCommunicator

CONSTANTS a, b, w, u, value, topic, request

MCPreset == [x \in Mutables |-> IF x \in {w, u} THEN a ELSE NoName]

MCType ==
  [x \in Endpoints \cup Members |-> CASE x \in Writers \cup Readers -> value
                                   [] x \in Publishers \cup Subscribers -> topic
                                   [] OTHER -> request]

MCMayUse ==
  [x \in Endpoints \cup Members |-> CASE x \in Readers -> {a}
                                   [] x \in Publishers \cup Services \cup Clients -> {b}
                                   [] OTHER -> Names]
=============================================================================
