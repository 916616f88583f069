----------------------------- MODULE MemoryPool -----------------------------
(***************************************************************************)
(* What malloc and free of ShmMemory promise: memory that is granted is    *)
(* managed memory that nobody else has been granted.                       *)
(***************************************************************************)
EXTENDS Naturals

CONSTANT Managed        \* the pages there are to grant

VARIABLE granted        \* the sets of pages that are granted now

Init == granted = {}

Grant ==
  \E first, last \in Managed :
    /\ first <= last /\ first .. last \subseteq Managed
    /\ \A g \in granted : g \cap (first .. last) = {}
    /\ granted' = granted \cup {first .. last}

Release == \E g \in granted : granted' = granted \ {g}

Spec == Init /\ [][Grant \/ Release]_granted
=============================================================================
