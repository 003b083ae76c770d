----------------------------- MODULE MCHttpCall -----------------------------
(* Instances of HttpCall for TLC.                                          *)
EXTENDS HttpCall, TLC

CONSTANTS p1, p2

\* "late" was registered under 2, then under 3; 2 was given to "early".
TwoErrors == {"early", "late"}
LateFirst == <<[type |-> "late", code |-> 2], [type |-> "late", code |-> 3],
               [type |-> "early", code |-> 2]>>

Names == ("add" :> "plain" @@ "watch" :> "chan" @@ "store" :> "reader")
Other == ("sum" :> "add")

Call(id, method, u) == [id |-> id, method |-> method, uuid |-> u]
Body(shape, items, ours) == [shape |-> shape, items |-> items, ours |-> ours]

Singles ==
    {Call("ok", "add", "none"), Call("none", "add", "none"), Call("bad", "add", "none"),
     Call("ok", "sum", "none"), Call("none", "watch", "none"), Call("ok", "store", "u1")}

\* What breaks brackets and commas: each kind of item at each place.
Triples ==
    {<<a, b, c>> : a, b, c \in {Call("ok", "add", "none"), Call("none", "sum", "none"),
                               Call("bad", "add", "none")}}

Pair == <<Call("ok", "store", "u1"), Call("none", "store", "u2")>>

AllBodies ==
    {Body(s, <<>>, FALSE) : s \in {"unreadable", "toolarge", "blank", "garbled", "array"}}
    \cup {Body(s, <<c>>, TRUE) : s \in {"unreadable", "toolarge"},
                                 c \in {Call("ok", "add", "none"), Call("none", "add", "none")}}
    \cup {Body("object", <<c>>, ours) : c \in Singles, ours \in BOOLEAN}
    \cup {Body("array", t, FALSE) : t \in Triples}
    \cup {Body("array", Pair, FALSE)}

TwoPosts == {p1, p2}
AllUuids == {"none", "u1", "u2"}
Uuid == [p \in Posts |-> IF p = p1 THEN "u1" ELSE "u2"]
JustLate == {"late"}
=============================================================================
