-------------------------- MODULE MCShmObjManager --------------------------
EXTENDS ShmObjManager, TLC
Sym == Permutations(Objects) \cup Permutations(Subs)
=============================================================================
