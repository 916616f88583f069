---------------------------- MODULE MCEventPool ----------------------------
EXTENDS EventPool
\* The last index the check admits, and one that is taken modulo the size.
CallsOfBoth == {[overload |-> "ptr", index |-> 1], [overload |-> "bind", index |-> 2]}
=============================================================================
