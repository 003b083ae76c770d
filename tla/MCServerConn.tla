---------------------------- MODULE MCServerConn ----------------------------
(* Instances of ServerConn for TLC.                                        *)
EXTENDS ServerConn, TLC

CONSTANTS r1, r2, r3, i1, i2

One == {r1}
Two == {r1, r2}
Three == {r1, r2, r3}
Second == {r2}
None == {}
BothEndings == {"parent", "panic"}
Panic == {"panic"}
TwoIds == {i1, i2}

\* r1 and r2 use the same id; different ids; r3 is a notification.
SameId == [r \in Reqs |-> IF r = r3 THEN NoId ELSE i1]
OwnIds == [r \in Reqs |-> CASE r = r1 -> i1 [] r = r2 -> i2 [] r = r3 -> NoId]
=============================================================================
