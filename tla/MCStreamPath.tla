---------------------------- MODULE MCStreamPath ----------------------------
(* Instances of StreamPath for TLC.                                        *)
EXTENDS StreamPath, TLC

CONSTANTS s1, s2

Two == {s1, s2}
First == {s1}
Second == {s2}
None == {}
\* s1 has values enough to fill its sink; s2 only opens and closes.
AllToFirst == [s \in Streams |-> IF s = s1 THEN MaxVals ELSE 0]
SecondValue == {2}
ThirdValue == {3}
=============================================================================
