------------------------------ MODULE MCBuddy ------------------------------
EXTENDS Buddy
PagesOf == [l \in 0 .. MaxLevel |-> 2 ^ l]
\* Two pages, and five of which the block system takes four, mapped one right
\* after the other, which tempts the merging most.
Mapped == (1 :> 0) @@ (2 :> 2)
Sized == (1 :> 2) @@ (2 :> 5)
=============================================================================
