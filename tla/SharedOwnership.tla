-------------------------- MODULE SharedOwnership --------------------------
(***************************************************************************)
(* What a shared pointer promises: an object is freed in the very step in  *)
(* which its last owner lets go of it, and nobody comes to own it again.   *)
(***************************************************************************)
CONSTANTS Objects, Cells

VARIABLES owners,    \* of each object
          made, freed

vars == <<owners, made, freed>>

OwnsNothing(c) == \A o \in Objects : c \notin owners[o]

Init == owners = [o \in Objects |-> {}] /\ made = {} /\ freed = {}

Make(o, c) == /\ o \notin made /\ OwnsNothing(c)
              /\ made' = made \cup {o}
              /\ owners' = [owners EXCEPT ![o] = {c}]
              /\ UNCHANGED freed

Share(o, c) == /\ owners[o] # {} /\ OwnsNothing(c)
               /\ owners' = [owners EXCEPT ![o] = @ \cup {c}]
               /\ UNCHANGED <<made, freed>>

Transfer(o, c, d) == /\ c \in owners[o] /\ OwnsNothing(d)
                     /\ owners' = [owners EXCEPT ![o] = (@ \ {c}) \cup {d}]
                     /\ UNCHANGED <<made, freed>>

Release(o, c) == /\ c \in owners[o]
                 /\ owners' = [owners EXCEPT ![o] = @ \ {c}]
                 /\ freed' = IF owners[o] = {c} THEN freed \cup {o} ELSE freed
                 /\ UNCHANGED made

Next == \E o \in Objects, c \in Cells :
          Make(o, c) \/ Share(o, c) \/ Release(o, c) \/ \E d \in Cells : Transfer(o, c, d)

Spec == Init /\ [][Next]_vars
=============================================================================
