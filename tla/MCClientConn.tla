---------------------------- MODULE MCClientConn ----------------------------
(* Instances of ClientConn for TLC: two calls, of the kinds the .cfg says. *)
EXTENDS ClientConn, TLC

CONSTANTS c1, c2

Two == {c1, c2}
First == {c1}
Second == {c2}
None == {}

StopOnly == {"stop"}
\* The endings that are not asked for through the closer.
Abrupt == {"parent", "panic"}

\* The two calls are interchangeable when no .cfg set tells them apart.
TwoSymmetry == Permutations({c1, c2})
=============================================================================
