-------------------------- MODULE MCNodeLifecycle --------------------------
(* Small instances of NodeLifecycle for TLC: one node ID whose connections  *)
(* present one certificate, that is, an agent that connects again.          *)
EXTENDS NodeLifecycle, TLC

CONSTANTS n1, s1, c1, c2, a1, a2

OneOwner == [s \in Serial |-> n1]
SameSerial == [c \in Conn |-> s1]

\* Connections, and admin goroutines, differ in nothing but their names.
Symmetry == Permutations(Conn) \cup Permutations(Admin)
=============================================================================
