--------------------------- MODULE MCProcessMutex ---------------------------
(* Small instances of ProcessMutex: which forms of locking its clients use. *)
EXTENDS ProcessMutex

\* The object and map mutexes of ShmObjManager, and ShmSharedPtr's mutex.
AreaAndPtr == [p \in Procs |-> {"area", "ptr"}]
\* Everything at once.
AnyForm == [p \in Procs |-> Forms]
=============================================================================
