-------------------------- MODULE StreamPathProofs --------------------------
(* Theorems about StreamPath, for every value of its constants: a value    *)
(* never meets a closed sink, none is lost on the way, and the path        *)
(* implements the promise of Stream.                                       *)
EXTENDS StreamPath, SequenceTheorems, WellFoundedInduction, TLAPS

-----------------------------------------------------------------------------
(* The inductive invariant, in five parts.                                 *)

\* The loop gives the connection up only when it is lost, and in the order of
\* its steps: no call in flight, no handler, nothing left to close.
LoopCore ==
    /\ rx <=> lpc = "serve"
    /\ netUp => rx
    /\ lpc \in {"swap", "chans"} => inflight = {}
    /\ lpc = "chans" => handlers = {}
    /\ lpc # "chans" => closing = {}

\* A sink is first expected, then handled, then closed, and its worker and
\* its context follow.
SinkCore ==
    /\ NoSendOnClosed
    /\ inflight \cap handlers = {}
    /\ \A s \in Streams :
         /\ incClosed[s] => s \notin inflight \cup handlers \cup closing
         /\ s \in inflight => worker[s] = "none"
         /\ worker[s] = "none" => cctx[s] = "live"
         /\ worker[s] = "nil" => incClosed[s] /\ incoming[s] = <<>>
         /\ worker[s] = "done" => cctx[s] # "live"
         /\ cctx[s] = "chan" => incClosed[s] /\ worker[s] = "done"

\* Frames about s on the way: the answer, then values, then the close; and
\* no frame about a channel before it is registered or after it is removed.
FramesFit ==
    \A i \in DOMAIN Way :
      LET f == Way[i]
      IN  /\ prod[f.s] # "none"
          /\ f.t = "val" => f.v \notin Unencodable
          /\ f.t = "close" => f.s \notin regs /\ prod[f.s] = "closed"

FramesInOrder ==
    \A i, j \in DOMAIN Way : i < j /\ Way[i].s = Way[j].s =>
      Way[j].t # "resp" /\ Way[i].t # "close"

WayCore == FramesFit /\ FramesInOrder

\* The answer on the way to a call still in flight is before its values.
Answered(q, i) == \E j \in DOMAIN q : j < i /\ q[j].s = q[i].s /\ q[j].t = "resp"

AnswerFirst ==
    \A i \in DOMAIN Way : Way[i].t # "resp" /\ Way[i].s \in inflight => Answered(Way, i)

\* The two sides agree on each stream: one that is registered, or has frames
\* on the way, has a handler or will have it when its answer arrives ...
NoneYet == \A s \in Streams : prod[s] = "none" => s \in inflight /\ s \notin regs

FramesMet ==
    \A i \in DOMAIN Way :
      IF Way[i].t = "resp" THEN Way[i].s \in inflight
      ELSE Way[i].s \in handlers \/ Answered(Way, i)

RegsMet == \A s \in regs : s \in handlers \/ \E i \in DOMAIN Way : Way[i] = RespFrame(s)

\* ... and one whose sink is closed has neither.
ClosedOver ==
    \A s \in Streams : incClosed[s] =>
      /\ prod[s] = "closed" /\ s \notin regs
      /\ \A i \in DOMAIN Way : Way[i].s # s

AnswerCore ==
    /\ AnswerFirst
    /\ netUp => NoneYet /\ FramesMet /\ RegsMet /\ ClosedOver

\* Of what was sent, a has arrived and the rest is on the way q; or what is
\* not on the way either is gone; or a is all that is known of it.
Whole(st, a, q, s) == \E rest \in Seq(Values) : st = a \o rest /\ Carried(q, s, rest)

Cut(st, a, q, s) ==
    \E rest, gone \in Seq(Values) : st = (a \o rest) \o gone /\ Carried(q, s, rest)

Begins(st, a) == \E rest \in Seq(Values) : st = a \o rest

\* Nothing is lost as long as the connection holds and the program does not
\* cancel; when the connection breaks, only the end is lost, and what is
\* still read of it arrives at the sinks that are not closed yet.
DataOf(s) ==
    /\ Begins(sent[s], Arrived(s))
    /\ netUp /\ cctx[s] # "user" => Whole(sent[s], Arrived(s), Way, s)
    /\ cctx[s] = "live" /\ s \in inflight \cup handlers =>
         Cut(sent[s], Arrived(s), Way, s)

DataCore == \A s \in Streams : DataOf(s)

Agreement == LoopCore /\ SinkCore /\ WayCore /\ AnswerCore

PathInv == TypeOK /\ Agreement /\ DataCore

-----------------------------------------------------------------------------
(* Lemmas about sequences: the hand-overs between two queues.              *)

\* What is taken from the head of one queue and put at the end of the one
\* before it stays where it is in the two together (readFrame; the worker).
LEMMA MoveHead ==
    ASSUME NEW S, NEW p \in Seq(S), NEW q \in Seq(S), q # <<>>
    PROVE  /\ Append(p, Head(q)) \o Tail(q) = p \o q
           /\ Append(p, Head(q)) \in Seq(S) /\ Tail(q) \in Seq(S)
<1> DEFINE a == Append(p, Head(q))
           t == Tail(q)
<1>1. /\ Head(q) \in S /\ t \in Seq(S) /\ Len(t) = Len(q) - 1
      /\ \A i \in 1..Len(t) : t[i] = q[i + 1]
      /\ Head(q) = q[1] /\ Len(q) \in Nat \ {0} /\ Len(p) \in Nat
  BY HeadTailProperties, EmptySeq
<1>2. /\ a \in Seq(S) /\ Len(a) = Len(p) + 1
      /\ \A i \in 1..Len(p) : a[i] = p[i]
      /\ a[Len(p) + 1] = Head(q)
  BY <1>1, AppendProperties
<1> HIDE DEF a, t
<1>3. /\ a \o t \in Seq(S) /\ Len(a \o t) = Len(a) + Len(t)
      /\ \A i \in 1..Len(a) + Len(t) :
           (a \o t)[i] = IF i <= Len(a) THEN a[i] ELSE t[i - Len(a)]
  BY <1>1, <1>2, ConcatProperties
<1>4. /\ p \o q \in Seq(S) /\ Len(p \o q) = Len(p) + Len(q)
      /\ \A i \in 1..Len(p) + Len(q) :
           (p \o q)[i] = IF i <= Len(p) THEN p[i] ELSE q[i - Len(p)]
  BY ConcatProperties
<1>5. Len(a \o t) = Len(p \o q)
  BY <1>1, <1>2, <1>3, <1>4
<1>6. ASSUME NEW i \in 1..Len(a \o t) PROVE (a \o t)[i] = (p \o q)[i]
  <2>1. CASE i <= Len(p)
    <3>1. i \in 1..Len(p) /\ i <= Len(a) /\ i \in 1..Len(a) + Len(t) /\ i \in 1..Len(p) + Len(q)
      BY <1>1, <1>2, <1>3, <2>1
    <3> QED
      BY <1>2, <1>3, <1>4, <2>1, <3>1
  <2>2. CASE i = Len(p) + 1
    <3>1. /\ i <= Len(a) /\ i \in 1..Len(a) + Len(t) /\ i \in 1..Len(p) + Len(q)
          /\ ~(i <= Len(p)) /\ i - Len(p) = 1
      BY <1>1, <1>2, <1>3, <2>2
    <3> QED
      BY <1>1, <1>2, <1>3, <1>4, <2>2, <3>1
  <2>3. CASE i > Len(p) + 1
    <3>1. /\ ~(i <= Len(a)) /\ i \in 1..Len(a) + Len(t) /\ i \in 1..Len(p) + Len(q)
          /\ ~(i <= Len(p)) /\ i - Len(a) \in 1..Len(t)
          /\ (i - Len(a)) + 1 = i - Len(p)
      BY <1>1, <1>2, <1>3, <2>3
    <3> QED
      BY <1>1, <1>3, <1>4, <3>1
  <2> QED
    BY <1>1, <1>2, <1>3, <2>1, <2>2, <2>3
<1>7. a \o t = p \o q
  BY <1>3, <1>4, <1>5, <1>6, SeqEqual
<1> QED
  BY <1>1, <1>2, <1>7 DEF a, t

\* What is put at the end of the last queue is at the end of all.
LEMMA ConcatAppend ==
    ASSUME NEW S, NEW p \in Seq(S), NEW q \in Seq(S), NEW e \in S
    PROVE  p \o Append(q, e) = Append(p \o q, e)
<1>1. Append(q, e) = q \o <<e>> /\ <<e>> \in Seq(S)
  BY AppendIsConcat
<1>2. p \o q \in Seq(S)
  BY ConcatProperties
<1>3. Append(p \o q, e) = (p \o q) \o <<e>>
  BY <1>2, AppendIsConcat
<1> QED
  BY <1>1, <1>3, ConcatAssociative

\* What is taken from the first queue is taken from all.
LEMMA ConcatTail ==
    ASSUME NEW S, NEW p \in Seq(S), NEW q \in Seq(S), p # <<>>
    PROVE  /\ p \o q # <<>> /\ Head(p \o q) = Head(p)
           /\ Tail(p) \o q = Tail(p \o q)
<1>1. /\ Head(p) \in S /\ Tail(p) \in Seq(S) /\ <<Head(p)>> \in Seq(S)
      /\ Len(p) \in Nat \ {0} /\ Len(q) \in Nat
  BY HeadTailProperties, EmptySeq
<1>2. p = <<Head(p)>> \o Tail(p)
  <2>1. <<>> \in Seq(S) /\ Append(<<>>, Head(p)) = <<Head(p)>>
    BY <1>1
  <2>2. Append(<<>>, Head(p)) \o Tail(p) = <<>> \o p
    BY <2>1, MoveHead
  <2> QED
    BY <2>1, <2>2, ConcatEmptySeq
<1>3. p \o q = <<Head(p)>> \o (Tail(p) \o q)
  BY <1>1, <1>2, ConcatAssociative
<1>4. Tail(p) \o q \in Seq(S)
  BY <1>1, ConcatProperties
<1>5. \A t \in Seq(S) : /\ <<Head(p)>> \o t # <<>> /\ Head(<<Head(p)>> \o t) = Head(p)
                        /\ Tail(<<Head(p)>> \o t) = t
  <2> TAKE t \in Seq(S)
  <2> DEFINE w == <<Head(p)>> \o t
  <2>1. /\ w \in Seq(S) /\ Len(w) = 1 + Len(t) /\ Len(t) \in Nat
        /\ w[1] = Head(p)
        /\ \A i \in 2..1 + Len(t) : w[i] = t[i - 1]
    BY <1>1, ConcatProperties
  <2> HIDE DEF w
  <2>2. w # <<>> /\ Head(w) = w[1]
    BY <2>1
  <2>3. /\ Tail(w) \in Seq(S) /\ Len(Tail(w)) = Len(t)
        /\ \A i \in 1..Len(t) : Tail(w)[i] = w[i + 1]
    BY <2>1, <2>2, HeadTailProperties
  <2>4. \A i \in 1..Len(t) : Tail(w)[i] = t[i]
    BY <2>1, <2>3
  <2>5. Tail(w) = t
    BY <2>3, <2>4, SeqEqual
  <2> QED
    BY <2>1, <2>2, <2>5 DEF w
<1> QED
  BY <1>3, <1>4, <1>5

\* The end of the last queue is the end of all.
LEMMA ConcatCut ==
    ASSUME NEW S, NEW p \in Seq(S), NEW q \in Seq(S), NEW k \in 0..Len(q)
    PROVE  /\ SubSeq(q, 1, k) \in Seq(S)
           /\ \E n \in 0..Len(p \o q) : p \o SubSeq(q, 1, k) = SubSeq(p \o q, 1, n)
<1> DEFINE c == SubSeq(q, 1, k)
           n == Len(p) + k
           w == SubSeq(p \o q, 1, n)
<1>1. Len(p) \in Nat /\ Len(q) \in Nat /\ k \in Nat /\ k <= Len(q)
  OBVIOUS
<1>2. /\ p \o q \in Seq(S) /\ Len(p \o q) = Len(p) + Len(q)
      /\ \A i \in 1..Len(p) + Len(q) :
           (p \o q)[i] = IF i <= Len(p) THEN p[i] ELSE q[i - Len(p)]
  BY ConcatProperties
<1>3. c \in Seq(S) /\ Len(c) = k /\ \A i \in 1..k : c[i] = q[i]
  BY <1>1
<1>4. n \in 0..Len(p \o q)
  BY <1>1, <1>2
<1>5. w \in Seq(S) /\ Len(w) = n /\ \A i \in 1..n : w[i] = (p \o q)[i]
  BY <1>2, <1>4
<1> HIDE DEF c, w, n
<1>6. /\ p \o c \in Seq(S) /\ Len(p \o c) = Len(p) + k
      /\ \A i \in 1..Len(p) + k : (p \o c)[i] = IF i <= Len(p) THEN p[i] ELSE c[i - Len(p)]
  BY <1>3, ConcatProperties
<1>7. ASSUME NEW i \in 1..Len(p) + k PROVE (p \o c)[i] = w[i]
  <2>1. i \in 1..Len(p) + Len(q) /\ (~(i <= Len(p)) => i - Len(p) \in 1..k)
    BY <1>1
  <2>2. w[i] = (p \o q)[i]
    BY <1>5 DEF n
  <2> QED
    BY <1>2, <1>3, <1>6, <2>1, <2>2
<1>8. p \o c = w
  BY <1>5, <1>6, <1>7, SeqEqual DEF n
<1> QED
  BY <1>3, <1>4, <1>8 DEF c, w

-----------------------------------------------------------------------------
(* Lemmas about Carried: frames come at the end of the way, leave at its   *)
(* head, and are cut off when the connection breaks.                       *)

\* The n-th value of rest is in the frame at at[n].
Places(at, q, s, rest) ==
    /\ at \in [1..Len(rest) -> 1..Len(q)]
    /\ \A k \in 1..Len(rest) : Carries(q[at[k]], s) /\ q[at[k]].v = rest[k]
    /\ \A j, k \in 1..Len(rest) : j < k => at[j] < at[k]
    /\ \A i \in 1..Len(q) : Carries(q[i], s) => \E k \in 1..Len(rest) : at[k] = i

\* The definition of Carried, with the places in view.
LEMMA CarriedPlaces ==
    ASSUME NEW q \in Seq(Frames), NEW s, NEW rest \in Seq(Values)
    PROVE  Carried(q, s, rest) <=> \E at : Places(at, q, s, rest)
<1>1. DOMAIN q = 1..Len(q) /\ DOMAIN rest = 1..Len(rest)
  OBVIOUS
<1>2. ASSUME NEW at, Places(at, q, s, rest) PROVE Carried(q, s, rest)
  <2>1. at \in [DOMAIN rest -> {i \in DOMAIN q : Carries(q[i], s)}]
    BY <1>1, <1>2 DEF Places
  <2> QED
    BY <1>1, <1>2, <2>1 DEF Places, Carried
<1>3. ASSUME Carried(q, s, rest) PROVE \E at : Places(at, q, s, rest)
  <2>1. PICK at \in [DOMAIN rest -> {i \in DOMAIN q : Carries(q[i], s)}] :
          /\ \A j, k \in DOMAIN rest : j < k => at[j] < at[k]
          /\ \A i \in DOMAIN q : Carries(q[i], s) => \E k \in DOMAIN rest : at[k] = i
          /\ \A k \in DOMAIN rest : q[at[k]].v = rest[k]
    BY <1>3, Zenon DEF Carried
  <2>2. \A k \in 1..Len(rest) : at[k] \in 1..Len(q) /\ Carries(q[at[k]], s)
    BY <1>1, <2>1
  <2>3. Places(at, q, s, rest)
    BY <1>1, <2>1, <2>2 DEF Places
  <2> QED
    BY <2>3
<1> QED
  BY <1>2, <1>3

\* A frame about something else comes.
LEMMA CarriedOther ==
    ASSUME NEW q \in Seq(Frames), NEW s, NEW rest \in Seq(Values),
           NEW f \in Frames, ~Carries(f, s), Carried(q, s, rest)
    PROVE  Carried(Append(q, f), s, rest)
<1>1. PICK at : Places(at, q, s, rest)
  BY CarriedPlaces
<1> DEFINE w == Append(q, f)
<1>2. /\ w \in Seq(Frames) /\ Len(w) = Len(q) + 1 /\ Len(q) \in Nat
      /\ w[Len(q) + 1] = f /\ \A i \in 1..Len(q) : w[i] = q[i]
  BY AppendProperties
<1> HIDE DEF w
<1>3. Places(at, w, s, rest)
  <2>1. at \in [1..Len(rest) -> 1..Len(w)]
    BY <1>1, <1>2 DEF Places
  <2>2. \A k \in 1..Len(rest) : w[at[k]] = q[at[k]]
    BY <1>1, <1>2 DEF Places
  <2>3. \A i \in 1..Len(w) : Carries(w[i], s) => i \in 1..Len(q) /\ Carries(q[i], s)
    BY <1>2
  <2> QED
    BY <1>1, <2>1, <2>2, <2>3 DEF Places
<1> QED
  BY <1>2, <1>3, CarriedPlaces DEF w

\* A value comes.
LEMMA CarriedMore ==
    ASSUME NEW q \in Seq(Frames), NEW s, NEW rest \in Seq(Values),
           NEW f \in Frames, Carries(f, s), f.v \in Values, Carried(q, s, rest)
    PROVE  Carried(Append(q, f), s, Append(rest, f.v))
<1>1. PICK at : Places(at, q, s, rest)
  BY CarriedPlaces
<1> DEFINE w == Append(q, f)
           more == Append(rest, f.v)
           to == [k \in 1..Len(rest) + 1 |-> IF k = Len(rest) + 1 THEN Len(q) + 1 ELSE at[k]]
<1>2. /\ w \in Seq(Frames) /\ Len(w) = Len(q) + 1 /\ Len(q) \in Nat
      /\ w[Len(q) + 1] = f /\ \A i \in 1..Len(q) : w[i] = q[i]
  BY AppendProperties
<1>3. /\ more \in Seq(Values) /\ Len(more) = Len(rest) + 1 /\ Len(rest) \in Nat
      /\ more[Len(rest) + 1] = f.v /\ \A i \in 1..Len(rest) : more[i] = rest[i]
  BY AppendProperties
<1>4. \A k \in 1..Len(rest) + 1 : to[k] = IF k = Len(rest) + 1 THEN Len(q) + 1 ELSE at[k]
  OBVIOUS
<1>5. \A k \in 1..Len(rest) + 1 : k # Len(rest) + 1 => k \in 1..Len(rest)
  BY <1>3
<1>6. \A k \in 1..Len(rest) : at[k] \in 1..Len(q) /\ k \in 1..Len(rest) + 1 /\ k # Len(rest) + 1
  BY <1>1, <1>3 DEF Places
<1>7. to \in [1..Len(more) -> 1..Len(w)]
  BY <1>2, <1>3, <1>5, <1>6
<1> HIDE DEF w, more, to
<1>8. \A k \in 1..Len(more) : Carries(w[to[k]], s) /\ w[to[k]].v = more[k]
  BY <1>1, <1>2, <1>3, <1>4, <1>5, <1>6 DEF Places
<1>9. \A j, k \in 1..Len(more) : j < k => to[j] < to[k]
  <2> SUFFICES ASSUME NEW j \in 1..Len(more), NEW k \in 1..Len(more), j < k
               PROVE  to[j] < to[k]
    OBVIOUS
  <2>1. j \in 1..Len(rest) /\ to[j] = at[j] /\ at[j] \in 1..Len(q)
    BY <1>3, <1>4, <1>6
  <2>2. CASE k = Len(rest) + 1
    BY <1>2, <1>3, <1>4, <2>1, <2>2
  <2>3. CASE k # Len(rest) + 1
    BY <1>1, <1>3, <1>4, <1>5, <2>1, <2>3 DEF Places
  <2> QED
    BY <2>2, <2>3
<1>10. \A i \in 1..Len(w) : Carries(w[i], s) => \E k \in 1..Len(more) : to[k] = i
  <2> SUFFICES ASSUME NEW i \in 1..Len(w), Carries(w[i], s)
               PROVE  \E k \in 1..Len(more) : to[k] = i
    OBVIOUS
  <2>1. CASE i = Len(q) + 1
    <3>1. Len(rest) + 1 \in 1..Len(more) /\ to[Len(rest) + 1] = i
      BY <1>3, <1>4, <2>1
    <3> QED
      BY <3>1
  <2>2. CASE i # Len(q) + 1
    <3>1. i \in 1..Len(q) /\ Carries(q[i], s)
      BY <1>2, <2>2
    <3>2. PICK k \in 1..Len(rest) : at[k] = i
      BY <1>1, <3>1 DEF Places
    <3>3. k \in 1..Len(more) /\ to[k] = i
      BY <1>3, <1>4, <1>6, <3>2
    <3> QED
      BY <3>3
  <2> QED
    BY <2>1, <2>2
<1>11. Places(to, w, s, more)
  BY <1>7, <1>8, <1>9, <1>10 DEF Places
<1> QED
  BY <1>2, <1>3, <1>11, CarriedPlaces DEF w, more

\* A frame about something else leaves.
LEMMA CarriedPast ==
    ASSUME NEW q \in Seq(Frames), NEW s, NEW rest \in Seq(Values), q # <<>>,
           ~Carries(Head(q), s), Carried(q, s, rest)
    PROVE  Carried(Tail(q), s, rest)
<1>1. PICK at : Places(at, q, s, rest)
  BY CarriedPlaces
<1> DEFINE w == Tail(q)
           to == [k \in 1..Len(rest) |-> at[k] - 1]
<1>2. /\ w \in Seq(Frames) /\ Len(w) = Len(q) - 1 /\ Len(q) \in Nat \ {0}
      /\ Head(q) = q[1] /\ \A i \in 1..Len(w) : w[i] = q[i + 1]
  BY HeadTailProperties, EmptySeq
<1>3. \A k \in 1..Len(rest) : at[k] \in 2..Len(q)
  <2>1. \A k \in 1..Len(rest) : at[k] \in 1..Len(q) /\ at[k] # 1
    BY <1>1, <1>2 DEF Places
  <2> QED
    BY <1>2, <2>1
<1>4. \A k \in 1..Len(rest) : to[k] = at[k] - 1
  OBVIOUS
<1>5. to \in [1..Len(rest) -> 1..Len(w)]
  BY <1>2, <1>3
<1> HIDE DEF w, to
<1>6. \A k \in 1..Len(rest) : w[to[k]] = q[at[k]]
  <2>1. \A k \in 1..Len(rest) : to[k] \in 1..Len(w) /\ to[k] + 1 = at[k]
    BY <1>2, <1>3, <1>4
  <2> QED
    BY <1>2, <2>1
<1>7. \A j, k \in 1..Len(rest) : j < k => to[j] < to[k]
  BY <1>1, <1>3, <1>4 DEF Places
<1>8. \A i \in 1..Len(w) : Carries(w[i], s) => \E k \in 1..Len(rest) : to[k] = i
  <2> SUFFICES ASSUME NEW i \in 1..Len(w), Carries(w[i], s)
               PROVE  \E k \in 1..Len(rest) : to[k] = i
    OBVIOUS
  <2>1. i + 1 \in 1..Len(q) /\ w[i] = q[i + 1]
    BY <1>2
  <2>2. PICK k \in 1..Len(rest) : at[k] = i + 1
    BY <1>1, <2>1 DEF Places
  <2>3. to[k] = i
    BY <1>4, <2>2
  <2> QED
    BY <2>3
<1>9. Places(to, w, s, rest)
  BY <1>1, <1>5, <1>6, <1>7, <1>8 DEF Places
<1> QED
  BY <1>2, <1>9, CarriedPlaces DEF w

\* A value leaves: it is the next one.
LEMMA CarriedNext ==
    ASSUME NEW q \in Seq(Frames), NEW s, NEW rest \in Seq(Values), q # <<>>,
           Carries(Head(q), s), Carried(q, s, rest)
    PROVE  /\ rest # <<>> /\ Head(rest) = Head(q).v
           /\ Carried(Tail(q), s, Tail(rest))
<1>1. PICK at : Places(at, q, s, rest)
  BY CarriedPlaces
<1> DEFINE w == Tail(q)
           less == Tail(rest)
           to == [k \in 1..Len(rest) - 1 |-> at[k + 1] - 1]
<1>2. /\ w \in Seq(Frames) /\ Len(w) = Len(q) - 1 /\ Len(q) \in Nat \ {0}
      /\ Head(q) = q[1] /\ \A i \in 1..Len(w) : w[i] = q[i + 1]
  BY HeadTailProperties, EmptySeq
<1>3. PICK one \in 1..Len(rest) : at[one] = 1
  BY <1>1, <1>2 DEF Places
<1>4. Len(rest) \in Nat /\ Len(rest) >= 1
  BY <1>3
<1>5. \A k \in 1..Len(rest) : at[k] \in 1..Len(q)
  BY <1>1 DEF Places
<1>6. one = 1
  <2>1. 1 \in 1..Len(rest) /\ at[1] \in 1..Len(q)
    BY <1>4, <1>5
  <2>2. 1 < one => at[1] < at[one]
    BY <1>1, <2>1 DEF Places
  <2>3. ~(at[1] < 1)
    BY <2>1
  <2> QED
    BY <1>3, <2>2, <2>3
<1>7. rest # <<>> /\ Head(rest) = rest[1]
  BY <1>4
<1>8. /\ less \in Seq(Values) /\ Len(less) = Len(rest) - 1
      /\ \A i \in 1..Len(less) : less[i] = rest[i + 1]
  BY <1>7, HeadTailProperties
<1>9. Head(rest) = Head(q).v
  BY <1>1, <1>2, <1>3, <1>6, <1>7 DEF Places
<1>10. \A k \in 1..Len(less) : /\ k + 1 \in 1..Len(rest) /\ at[k + 1] \in 2..Len(q)
                               /\ to[k] = at[k + 1] - 1
  <2> SUFFICES ASSUME NEW k \in 1..Len(less)
               PROVE  /\ k + 1 \in 1..Len(rest) /\ at[k + 1] \in 2..Len(q)
                      /\ to[k] = at[k + 1] - 1
    OBVIOUS
  <2>1. k \in 1..Len(rest) - 1 /\ k + 1 \in 1..Len(rest) /\ 1 < k + 1 /\ 1 \in 1..Len(rest)
    BY <1>4, <1>8
  <2>2. at[1] < at[k + 1]
    BY <1>1, <2>1 DEF Places
  <2>3. at[k + 1] \in 1..Len(q)
    BY <1>5, <2>1
  <2> QED
    BY <1>3, <1>6, <2>1, <2>2, <2>3
<1>11. to \in [1..Len(less) -> 1..Len(w)]
  <2>1. \A k \in 1..Len(less) : to[k] \in 1..Len(w)
    <3> SUFFICES ASSUME NEW k \in 1..Len(less) PROVE to[k] \in 1..Len(w)
      OBVIOUS
    <3> DEFINE e == at[k + 1]
    <3>1. e \in 2..Len(q) /\ to[k] = e - 1
      BY <1>10
    <3> HIDE DEF e, to, w
    <3> QED
      BY <1>2, <3>1
  <2>2. 1..Len(less) = 1..Len(rest) - 1
    BY <1>4, <1>8
  <2> HIDE DEF w, less
  <2> QED
    BY <2>1, <2>2
<1> HIDE DEF w, less, to
<1>12. \A k \in 1..Len(less) : Carries(w[to[k]], s) /\ w[to[k]].v = less[k]
  <2> SUFFICES ASSUME NEW k \in 1..Len(less)
               PROVE  Carries(w[to[k]], s) /\ w[to[k]].v = less[k]
    OBVIOUS
  <2> DEFINE e == at[k + 1]
  <2>1. e \in 2..Len(q) /\ to[k] = e - 1 /\ k + 1 \in 1..Len(rest)
    BY <1>10
  <2>2. Carries(q[e], s) /\ q[e].v = rest[k + 1]
    BY <1>1, <2>1 DEF Places
  <2> HIDE DEF e
  <2>3. to[k] \in 1..Len(w) /\ to[k] + 1 = e
    BY <1>2, <2>1
  <2>4. w[to[k]] = q[e]
    BY <1>2, <2>3
  <2> QED
    BY <1>8, <2>2, <2>4
<1>13. \A j, k \in 1..Len(less) : j < k => to[j] < to[k]
  <2> SUFFICES ASSUME NEW j \in 1..Len(less), NEW k \in 1..Len(less), j < k
               PROVE  to[j] < to[k]
    OBVIOUS
  <2>1. at[j + 1] < at[k + 1]
    BY <1>1, <1>10 DEF Places
  <2> QED
    BY <1>10, <2>1
<1>14. \A i \in 1..Len(w) : Carries(w[i], s) => \E k \in 1..Len(less) : to[k] = i
  <2> SUFFICES ASSUME NEW i \in 1..Len(w), Carries(w[i], s)
               PROVE  \E k \in 1..Len(less) : to[k] = i
    OBVIOUS
  <2>1. i + 1 \in 1..Len(q) /\ w[i] = q[i + 1]
    BY <1>2
  <2>2. PICK k \in 1..Len(rest) : at[k] = i + 1
    BY <1>1, <2>1 DEF Places
  <2>3. k # 1
    BY <1>3, <1>6, <2>2
  <2>4. k - 1 \in 1..Len(less) /\ (k - 1) + 1 = k
    BY <1>4, <1>8, <2>3
  <2>5. to[k - 1] = i
    <3>1. to[k - 1] = at[(k - 1) + 1] - 1
      BY <1>10, <2>4
    <3> QED
      BY <2>1, <2>2, <2>4, <3>1
  <2> QED
    BY <2>4, <2>5
<1>15. Places(to, w, s, less)
  BY <1>11, <1>12, <1>13, <1>14 DEF Places
<1> QED
  BY <1>2, <1>7, <1>8, <1>9, <1>15, CarriedPlaces DEF w, less

\* The last frames are lost: the first of the values are still carried.
LEMMA CarriedCut ==
    ASSUME NEW q \in Seq(Frames), NEW s, NEW rest \in Seq(Values),
           NEW n \in 0..Len(q), Carried(q, s, rest)
    PROVE  \E m \in 0..Len(rest) : Carried(SubSeq(q, 1, n), s, SubSeq(rest, 1, m))
<1>1. PICK at : Places(at, q, s, rest)
  BY CarriedPlaces
<1>2. Len(rest) \in Nat /\ Len(q) \in Nat /\ n \in Nat /\ n <= Len(q)
  OBVIOUS
<1>3. \A k \in 1..Len(rest) : at[k] \in 1..Len(q)
  BY <1>1 DEF Places
<1>4. PICK m \in 0..Len(rest) :
        /\ \A k \in 1..m : at[k] <= n
        /\ \A k \in 1..Len(rest) : k > m => at[k] > n
  <2> DEFINE late == {k \in 1..Len(rest) : at[k] > n}
  <2>1. CASE late = {}
    <3>1. \A k \in 1..Len(rest) : at[k] <= n
      BY <1>2, <1>3, <2>1
    <3>2. Len(rest) \in 0..Len(rest) /\ \A k \in 1..Len(rest) : ~(k > Len(rest))
      BY <1>2
    <3> QED
      BY <3>1, <3>2
  <2>2. CASE late # {}
    <3>1. late \subseteq Nat
      OBVIOUS
    <3>2. \E x \in late : \A y \in late : ~(<<y, x>> \in OpToRel(<, Nat))
      BY <2>2, <3>1, NatLessThanWellFounded, WFMin
    <3>3. PICK x \in late : \A y \in late : ~(y < x)
      BY <3>1, <3>2 DEF OpToRel
    <3>4. x - 1 \in 0..Len(rest)
      BY <3>3
    <3>5. \A k \in 1..x - 1 : at[k] <= n
      <4> SUFFICES ASSUME NEW k \in 1..x - 1 PROVE at[k] <= n
        OBVIOUS
      <4>1. k \in 1..Len(rest) /\ k < x
        BY <3>3
      <4>2. k \notin late
        BY <3>3, <4>1
      <4> QED
        BY <1>2, <1>3, <4>1, <4>2
    <3>6. \A k \in 1..Len(rest) : k > x - 1 => at[k] > n
      <4> SUFFICES ASSUME NEW k \in 1..Len(rest), k > x - 1 PROVE at[k] > n
        OBVIOUS
      <4>1. x \in 1..Len(rest) /\ at[x] > n
        BY <3>3
      <4>2. CASE k = x
        BY <4>1, <4>2
      <4>3. CASE k # x
        <5>1. x < k
          BY <4>1, <4>3
        <5>2. at[x] < at[k]
          BY <1>1, <4>1, <5>1 DEF Places
        <5> QED
          BY <1>2, <1>3, <4>1, <5>2
      <4> QED
        BY <4>2, <4>3
    <3> QED
      BY <3>4, <3>5, <3>6
  <2> QED
    BY <2>1, <2>2
<1> DEFINE w == SubSeq(q, 1, n)
           less == SubSeq(rest, 1, m)
           to == [k \in 1..m |-> at[k]]
<1>5. w \in Seq(Frames) /\ Len(w) = n /\ \A i \in 1..n : w[i] = q[i]
  BY <1>2
<1>6. less \in Seq(Values) /\ Len(less) = m /\ \A i \in 1..m : less[i] = rest[i]
  BY <1>2
<1>7. \A k \in 1..m : to[k] = at[k] /\ k \in 1..Len(rest) /\ at[k] \in 1..n
  BY <1>2, <1>3, <1>4
<1>8. to \in [1..m -> 1..n]
  BY <1>7
<1> HIDE DEF w, less, to
<1>9. \A k \in 1..m : Carries(w[to[k]], s) /\ w[to[k]].v = less[k]
  <2> SUFFICES ASSUME NEW k \in 1..m
               PROVE  Carries(w[to[k]], s) /\ w[to[k]].v = less[k]
    OBVIOUS
  <2>1. k \in 1..Len(rest) /\ to[k] = at[k] /\ at[k] \in 1..n
    BY <1>7
  <2>2. Carries(q[at[k]], s) /\ q[at[k]].v = rest[k]
    BY <1>1, <2>1 DEF Places
  <2> QED
    BY <1>5, <1>6, <2>1, <2>2
<1>10. \A j, k \in 1..m : j < k => to[j] < to[k]
  BY <1>1, <1>7 DEF Places
<1>11. \A i \in 1..n : Carries(w[i], s) => \E k \in 1..m : to[k] = i
  <2> SUFFICES ASSUME NEW i \in 1..n, Carries(w[i], s) PROVE \E k \in 1..m : to[k] = i
    OBVIOUS
  <2>1. i \in 1..Len(q) /\ Carries(q[i], s)
    BY <1>2, <1>5
  <2>2. PICK k \in 1..Len(rest) : at[k] = i
    BY <1>1, <2>1 DEF Places
  <2>3. ~(k > m)
    BY <1>2, <1>4, <2>2
  <2>4. k \in 1..m
    BY <1>2, <2>3
  <2> QED
    BY <1>7, <2>2, <2>4
<1>12. Places(to, w, s, less)
  BY <1>5, <1>6, <1>8, <1>9, <1>10, <1>11 DEF Places
<1>13. Carried(w, s, less)
  BY <1>5, <1>6, <1>12, CarriedPlaces
<1> QED
  BY <1>13 DEF w, less

-----------------------------------------------------------------------------
(* Types.                                                                  *)

\* The frames that handleOutChans makes are frames.
LEMMA FrameTypes ==
    ASSUME NEW s \in Streams, NEW v \in Values
    PROVE  /\ RespFrame(s) \in Frames /\ CloseFrame(s) \in Frames
           /\ ValFrame(s, v) \in Frames
           /\ \A f \in Frames : /\ f.s \in Streams
                                /\ f.t \in {"resp", "val", "close"}
                                /\ f.t = "val" => f.v \in Values
  BY DEF Frames, RespFrame, CloseFrame, ValFrame

\* The types hold before anything is sent.
LEMMA PathTypeInit == Init => TypeOK
<1> SUFFICES ASSUME Init PROVE TypeOK
  OBVIOUS
<1>1. /\ netUp \in BOOLEAN /\ rx \in BOOLEAN /\ incClosed \in [Streams -> BOOLEAN]
  BY Zenon DEF Init
<1>2. /\ sent \in [Streams -> Seq(Good)] /\ incoming \in [Streams -> Seq(Values)]
      /\ buf \in [Streams -> Seq(Values)] /\ given \in [Streams -> Seq(Values)]
      /\ \A s \in Streams : Len(incoming[s]) = 0
  BY DEF Init
<1> QED
  BY <1>1, <1>2, StreamPathAssumption
  DEF Init, TypeOK, NoSend, StreamPathAssumption

\* A frame is written when the wire has room for it.
LEMMA WrittenType ==
    ASSUME TypeOK, NEW f \in Frames, Written(f)
    PROVE  wire' \in Seq(Frames) /\ Len(wire') <= MaxWire
<1>1. wire \in Seq(Frames) /\ Len(wire) < MaxWire /\ wire' = Append(wire, f)
  BY DEF TypeOK, Written
<1>2. Append(wire, f) \in Seq(Frames) /\ Len(Append(wire, f)) = Len(wire) + 1
  BY <1>1, AppendProperties
<1>3. Len(wire) \in Nat /\ MaxWire \in Nat
  BY <1>1, StreamPathAssumption DEF StreamPathAssumption
<1> QED
  BY <1>1, <1>2, <1>3

\* The executor takes a frame from frameExecQueue.
LEMMA ConsumedType ==
    ASSUME TypeOK, NEW t, NextFrame(t), Consumed
    PROVE  /\ xcur = NoSend /\ frameQ # <<>> /\ Head(frameQ) \in Frames
           /\ Head(frameQ).t = t /\ Head(frameQ).s \in Streams
           /\ t = "val" => Head(frameQ).v \in Values
           /\ frameQ' = Tail(frameQ)
           /\ frameQ' \in Seq(Frames) /\ Len(frameQ') <= FrameQ
<1>1. /\ frameQ \in Seq(Frames) /\ frameQ # <<>> /\ Len(frameQ) <= FrameQ
      /\ xcur = NoSend /\ Head(frameQ).t = t /\ frameQ' = Tail(frameQ)
  BY DEF TypeOK, NextFrame, Consumed
<1>2. /\ Head(frameQ) \in Frames /\ Tail(frameQ) \in Seq(Frames)
      /\ Len(Tail(frameQ)) = Len(frameQ) - 1 /\ Len(frameQ) \in Nat
  BY <1>1, HeadTailProperties
<1>3. FrameQ \in Nat
  BY StreamPathAssumption DEF StreamPathAssumption
<1>4. Len(Tail(frameQ)) <= FrameQ
  BY <1>1, <1>2, <1>3
<1> QED
  BY <1>1, <1>2, <1>4 DEF Frames

\* Every step keeps the types, and the limits of the queues.
LEMMA PathTypeStep == TypeOK /\ [Next]_vars => TypeOK'
<1> SUFFICES ASSUME TypeOK, [Next]_vars PROVE TypeOK'
  OBVIOUS
<1>0. TypeOK
  OBVIOUS
<1> USE DEF TypeOK, serverVars, netVars, connVars, sinkVars
<1>1. ASSUME NEW s \in Streams, Register(s) \/ OutClosed(s) PROVE TypeOK'
  <2>1. wire' \in Seq(Frames) /\ Len(wire') <= MaxWire
    <3>1. \E f \in Frames : Written(f)
      BY <1>1 DEF Register, OutClosed, RespFrame, CloseFrame, Frames
    <3> QED
      BY ONLY <1>0, <3>1, WrittenType
  <2>2. /\ prod' \in [Streams -> {"none", "open", "closed"}]
        /\ regs' \subseteq Streams
        /\ UNCHANGED <<made, sent, ctxd, netUp, c2s, connVars, sinkVars>>
    BY <1>1 DEF Register, OutClosed
  <2> QED
    BY ONLY <1>0, <2>1, <2>2 DEF TypeOK, connVars, sinkVars
<1>2. ASSUME NEW s \in Streams, Take(s) PROVE TypeOK'
  <2> DEFINE v == made[s] + 1
  <2>1. v \in Values /\ v \in 0..MaxVals
    <3>1. /\ made[s] \in 0..MaxVals /\ Amount[s] \in 0..MaxVals
          /\ made[s] < Amount[s] /\ MaxVals \in Nat
      BY <1>2, StreamPathAssumption DEF Take, StreamPathAssumption
    <3> QED
      BY <3>1 DEF Values
  <2>2. /\ made' = [made EXCEPT ![s] = v]
        /\ IF v \in Unencodable THEN UNCHANGED wire ELSE Written(ValFrame(s, v))
        /\ sent' = IF v \in Good THEN [sent EXCEPT ![s] = Append(@, v)] ELSE sent
        /\ UNCHANGED <<prod, ctxd, regs, netUp, c2s, connVars, sinkVars>>
    BY <1>2 DEF Take
  <2> HIDE DEF v
  <2>3. wire' \in Seq(Frames) /\ Len(wire') <= MaxWire
    BY <1>0, <2>1, <2>2, FrameTypes, WrittenType
  <2>4. sent' \in [Streams -> Seq(Good)]
    <3>1. v \in Good => Append(sent[s], v) \in Seq(Good)
      BY AppendProperties
    <3> QED
      BY <2>2, <3>1
  <2>5. made' \in [Streams -> 0..MaxVals]
    BY <2>1, <2>2
  <2> QED
    BY ONLY <1>0, <2>2, <2>3, <2>4, <2>5 DEF TypeOK, connVars, sinkVars
<1>3. ASSUME NEW s \in Streams,
             ProducerCloses(s) \/ CancelArrives(s) \/ WatchCancel(s) \/ UserCancel(s)
      PROVE  TypeOK'
  <2>1. CASE ProducerCloses(s)
    BY <2>1 DEF ProducerCloses
  <2>2. CASE CancelArrives(s)
    BY <2>2 DEF CancelArrives
  <2>3. CASE WatchCancel(s)
    BY <2>3 DEF WatchCancel, Cancelled
  <2>4. CASE UserCancel(s)
    BY <2>4 DEF UserCancel
  <2> QED
    BY <1>3, <2>1, <2>2, <2>3, <2>4
<1>4. CASE Break
  <2>1. wire' \in Seq(Frames) /\ Len(wire') <= MaxWire
    <3>1. PICK k \in 0..Len(wire) : wire' = SubSeq(wire, 1, k)
      BY <1>4 DEF Break
    <3>2. SubSeq(wire, 1, k) \in Seq(Frames) /\ Len(SubSeq(wire, 1, k)) = k
      OBVIOUS
    <3>3. Len(wire) \in Nat /\ MaxWire \in Nat /\ k <= Len(wire)
      BY StreamPathAssumption DEF StreamPathAssumption
    <3> QED
      BY <3>1, <3>2, <3>3
  <2>2. netUp' \in BOOLEAN /\ c2s' = {} /\ UNCHANGED <<serverVars, connVars, sinkVars>>
    BY <1>4 DEF Break
  <2> QED
    BY ONLY <1>0, <2>1, <2>2 DEF TypeOK, serverVars, connVars, sinkVars
<1>5. CASE Read
  <2>1. /\ wire # <<>> /\ Len(frameQ) < FrameQ
        /\ frameQ' = Append(frameQ, Head(wire)) /\ wire' = Tail(wire)
        /\ UNCHANGED <<serverVars, netUp, c2s, rx, xcur, inflight, handlers, lpc,
                       closing, sinkVars>>
    BY <1>5 DEF Read, Queue
  <2>2. /\ Head(wire) \in Frames /\ Tail(wire) \in Seq(Frames)
        /\ Len(Tail(wire)) = Len(wire) - 1
    BY <2>1, HeadTailProperties
  <2>3. /\ Append(frameQ, Head(wire)) \in Seq(Frames)
        /\ Len(Append(frameQ, Head(wire))) = Len(frameQ) + 1
    BY <2>2, AppendProperties
  <2>4. /\ Len(frameQ) \in Nat /\ Len(wire) \in Nat /\ FrameQ \in Nat
        /\ MaxWire \in Nat /\ Len(wire) <= MaxWire
    BY StreamPathAssumption DEF StreamPathAssumption
  <2>5. Len(frameQ') <= FrameQ /\ Len(wire') <= MaxWire
    BY ONLY <2>1, <2>2, <2>3, <2>4
  <2> QED
    BY ONLY <1>0, <2>1, <2>2, <2>3, <2>5 DEF TypeOK, serverVars, sinkVars
<1>6. CASE ReadFails \/ CloseInFlight \/ SwapHandlers
  <2>1. rx' \in BOOLEAN
    BY <1>6, Zenon DEF ReadFails, CloseInFlight, SwapHandlers, TypeOK
  <2> QED
    BY <1>6, <2>1 DEF ReadFails, CloseInFlight, SwapHandlers
<1>7. ASSUME NEW s \in Streams, CloseChan(s) PROVE TypeOK'
  <2>1. incClosed' \in [Streams -> BOOLEAN]
    BY <1>7 DEF CloseChan
  <2> QED
    BY <1>7, <2>1 DEF CloseChan
<1>8. CASE HandleResponse
  <2>1. /\ frameQ' \in Seq(Frames) /\ Len(frameQ') <= FrameQ
        /\ Head(frameQ).s \in Streams
    BY <1>0, <1>8, ConsumedType DEF HandleResponse
  <2>2. /\ inflight' \subseteq Streams /\ handlers' \subseteq Streams
        /\ worker' \in [Streams -> {"none", "run", "nil", "done"}]
        /\ watch' \subseteq Streams
        /\ UNCHANGED <<serverVars, netVars, rx, xcur, lpc, closing, incoming,
                       incClosed, buf, cctx, given>>
    BY <1>8, <2>1 DEF HandleResponse
  <2> QED
    BY ONLY <1>0, <2>1, <2>2 DEF TypeOK, serverVars, netVars
<1>9. CASE HandleValue
  <2>1. /\ frameQ' \in Seq(Frames) /\ Len(frameQ') <= FrameQ
        /\ Head(frameQ).s \in Streams /\ Head(frameQ).v \in Values
    BY <1>0, <1>9, ConsumedType DEF HandleValue
  <2>2. /\ xcur' \in [s : Streams, v : Values] \cup {NoSend}
        /\ UNCHANGED <<serverVars, netVars, rx, inflight, handlers, lpc, closing,
                       sinkVars>>
    BY <1>9, <2>1 DEF HandleValue
  <2> QED
    BY ONLY <1>0, <2>1, <2>2 DEF TypeOK, serverVars, netVars, sinkVars
<1>10. CASE SendIncoming
  <2> DEFINE s == xcur.s
  <2>1. s \in Streams /\ xcur.v \in Values
    BY <1>10 DEF SendIncoming
  <2>2. /\ xcur' = NoSend
        /\ UNCHANGED <<serverVars, netVars, rx, frameQ, inflight, handlers, lpc,
                       closing, incClosed, buf, worker, cctx, watch, given>>
        /\ \/ Len(incoming[s]) < IncomingCap
              /\ incoming' = [incoming EXCEPT ![s] = Append(@, xcur.v)]
           \/ UNCHANGED incoming
    BY <1>10 DEF SendIncoming
  <2>3. /\ Append(incoming[s], xcur.v) \in Seq(Values)
        /\ Len(Append(incoming[s], xcur.v)) = Len(incoming[s]) + 1
        /\ Len(incoming[s]) \in Nat /\ IncomingCap \in Nat
    BY <2>1, AppendProperties, StreamPathAssumption DEF StreamPathAssumption
  <2> HIDE DEF s
  <2>4. incoming' \in [Streams -> Seq(Values)]
    BY <2>1, <2>2, <2>3
  <2>5. \A q \in Streams : Len(incoming'[q]) <= IncomingCap
    <3>1. \A q \in Streams : \/ incoming'[q] = incoming[q]
                             \/ /\ incoming'[q] = Append(incoming[s], xcur.v)
                                /\ Len(incoming[s]) < IncomingCap
      BY <2>1, <2>2
    <3>2. Len(incoming[s]) < IncomingCap =>
            Len(Append(incoming[s], xcur.v)) <= IncomingCap
      BY <2>3
    <3> QED
      BY <3>1, <3>2
  <2> QED
    BY ONLY <1>0, <2>2, <2>4, <2>5 DEF TypeOK, serverVars, netVars
<1>11. CASE HandleClose
  <2>1. /\ frameQ' \in Seq(Frames) /\ Len(frameQ') <= FrameQ
        /\ Head(frameQ).s \in Streams
    BY <1>0, <1>11, ConsumedType DEF HandleClose
  <2>2. incClosed' \in [Streams -> BOOLEAN]
    BY <1>11, <2>1 DEF HandleClose
  <2>3. /\ handlers' \subseteq Streams
        /\ UNCHANGED <<serverVars, netVars, rx, xcur, inflight, lpc, closing,
                       incoming, buf, worker, cctx, watch, given>>
    BY <1>11 DEF HandleClose
  <2> QED
    BY ONLY <1>0, <2>1, <2>2, <2>3 DEF TypeOK, serverVars, netVars
<1>12. ASSUME NEW s \in Streams, WorkerTake(s) PROVE TypeOK'
  <2>1. /\ incoming[s] # <<>>
        /\ buf' = [buf EXCEPT ![s] = Append(@, Head(incoming[s]))]
        /\ incoming' = [incoming EXCEPT ![s] = Tail(@)]
        /\ UNCHANGED <<serverVars, netVars, connVars, incClosed, worker, cctx,
                       watch, given>>
    BY <1>12 DEF WorkerTake
  <2>2. /\ Head(incoming[s]) \in Values /\ Tail(incoming[s]) \in Seq(Values)
        /\ Len(Tail(incoming[s])) = Len(incoming[s]) - 1
        /\ Len(incoming[s]) \in Nat /\ IncomingCap \in Nat
    BY <2>1, HeadTailProperties, StreamPathAssumption DEF StreamPathAssumption
  <2>3. Append(buf[s], Head(incoming[s])) \in Seq(Values)
    BY <2>2, AppendProperties
  <2>4. Len(Tail(incoming[s])) <= IncomingCap
    BY <2>2
  <2>5. /\ buf' \in [Streams -> Seq(Values)] /\ incoming' \in [Streams -> Seq(Values)]
        /\ \A q \in Streams : Len(incoming'[q]) <= IncomingCap
    BY <2>1, <2>2, <2>3, <2>4
  <2> QED
    BY ONLY <1>0, <2>1, <2>5 DEF TypeOK, serverVars, netVars, connVars
<1>13. ASSUME NEW s \in Streams, WorkerGive(s) PROVE TypeOK'
  <2>1. /\ buf[s] # <<>>
        /\ given' = [given EXCEPT ![s] = Append(@, Head(buf[s]))]
        /\ buf' = [buf EXCEPT ![s] = Tail(@)]
        /\ UNCHANGED <<serverVars, netVars, connVars, incoming, incClosed, worker,
                       cctx, watch>>
    BY <1>13 DEF WorkerGive
  <2>2. Head(buf[s]) \in Values /\ Tail(buf[s]) \in Seq(Values)
    BY <2>1, HeadTailProperties
  <2>3. Append(given[s], Head(buf[s])) \in Seq(Values)
    BY <2>2, AppendProperties
  <2>4. buf' \in [Streams -> Seq(Values)] /\ given' \in [Streams -> Seq(Values)]
    BY <2>1, <2>2, <2>3
  <2> QED
    BY ONLY <1>0, <2>1, <2>4 DEF TypeOK, serverVars, netVars, connVars
<1>14. ASSUME NEW s \in Streams, WorkerNoMore(s) \/ WorkerReturn(s) PROVE TypeOK'
  <2>1. CASE WorkerNoMore(s)
    BY <2>1 DEF WorkerNoMore
  <2>2. CASE WorkerReturn(s)
    BY <2>2 DEF WorkerReturn
  <2> QED
    BY <1>14, <2>1, <2>2
<1>15. CASE UNCHANGED vars
  BY <1>15 DEF vars
<1> QED
  BY <1>1, <1>2, <1>3, <1>4, <1>5, <1>6, <1>7, <1>8, <1>9, <1>10, <1>11, <1>12,
     <1>13, <1>14, <1>15
  DEF Next, Server, Executor, Loop, WorkerMoves

-----------------------------------------------------------------------------
(* The loop and the sinks.                                                 *)

\* Nothing is given up, and no sink closed, before the connection breaks.
LEMMA LoopInit == Init => LoopCore /\ SinkCore
<1> SUFFICES ASSUME Init PROVE LoopCore /\ SinkCore
  OBVIOUS
<1>1. LoopCore
  BY DEF Init, LoopCore
<1>2. SinkCore
  BY DEF Init, SinkCore, NoSendOnClosed
<1> QED
  BY <1>1, <1>2

\* Every step keeps the order in which the loop gives the connection up.
LEMMA LoopStep == TypeOK /\ LoopCore /\ [Next]_vars => LoopCore'
<1> SUFFICES ASSUME TypeOK, LoopCore, [Next]_vars PROVE LoopCore'
  OBVIOUS
<1>1. ASSUME UNCHANGED <<rx, lpc, inflight, handlers, closing>>, netUp' => netUp
      PROVE  LoopCore'
  BY <1>1 DEF LoopCore
<1>2. CASE Server \/ Break \/ Read
  BY <1>1, <1>2 DEF Server, Register, Take, OutClosed, CancelArrives, Break, Read,
     connVars
<1>3. CASE ReadFails
  BY <1>3, Zenon DEF ReadFails, netVars, LoopCore
<1>4. CASE Loop
  <2>1. CASE CloseInFlight
    BY <2>1 DEF CloseInFlight, netVars, LoopCore
  <2>2. CASE SwapHandlers
    BY <2>2 DEF SwapHandlers, netVars, LoopCore
  <2>3. ASSUME NEW s \in Streams, CloseChan(s) PROVE LoopCore'
    BY <2>3 DEF CloseChan, netVars, LoopCore
  <2> QED
    BY <1>4, <2>1, <2>2, <2>3 DEF Loop
<1>5. CASE Executor
  <2>1. CASE HandleResponse
    BY <2>1 DEF HandleResponse, netVars, LoopCore
  <2>2. CASE HandleClose
    BY <2>2 DEF HandleClose, netVars, LoopCore
  <2>3. CASE HandleValue \/ SendIncoming
    BY <1>1, <2>3 DEF HandleValue, SendIncoming, netVars
  <2> QED
    BY <1>5, <2>1, <2>2, <2>3 DEF Executor
<1>6. ASSUME NEW s \in Streams,
             \/ ProducerCloses(s) \/ UserCancel(s) \/ WorkerMoves(s)
             \/ WorkerGive(s) \/ WatchCancel(s)
      PROVE  LoopCore'
  BY <1>1, <1>6 DEF ProducerCloses, UserCancel, WorkerMoves, WorkerTake,
     WorkerNoMore, WorkerReturn, WorkerGive, WatchCancel, netVars, connVars
<1>7. CASE UNCHANGED vars
  BY <1>1, <1>7 DEF vars, netVars, connVars
<1> QED
  BY <1>2, <1>3, <1>4, <1>5, <1>6, <1>7 DEF Next

\* Every step keeps handlers, sinks and workers in step; in particular the
\* lock of a sink keeps closeChans from closing it under a value.
LEMMA SinkStep == TypeOK /\ LoopCore /\ SinkCore /\ [Next]_vars => SinkCore'
<1> SUFFICES ASSUME TypeOK, LoopCore, SinkCore, [Next]_vars PROVE SinkCore'
  OBVIOUS
<1>1. ASSUME UNCHANGED <<xcur, inflight, handlers, closing, incClosed, worker,
                         incoming, cctx>>
      PROVE  SinkCore'
  BY <1>1 DEF SinkCore, NoSendOnClosed
<1>2. CASE Server \/ Break \/ Read \/ ReadFails
  BY <1>1, <1>2 DEF Server, Register, Take, OutClosed, CancelArrives, Break, Read,
     ReadFails, connVars, sinkVars
<1>3. CASE CloseInFlight
  BY <1>3 DEF CloseInFlight, sinkVars, SinkCore, NoSendOnClosed
<1>4. CASE SwapHandlers
  BY <1>4 DEF SwapHandlers, sinkVars, SinkCore, NoSendOnClosed
<1>5. ASSUME NEW s \in Streams, CloseChan(s) PROVE SinkCore'
  <2>1. /\ s \in closing /\ xcur.s # s /\ closing' = closing \ {s}
        /\ inflight = {} /\ handlers = {}
        /\ incClosed' = [incClosed EXCEPT ![s] = TRUE]
        /\ UNCHANGED <<xcur, inflight, handlers, worker, incoming, cctx>>
    BY <1>5 DEF CloseChan, Unlocked, LoopCore
  <2>2. \A q \in Streams : incClosed'[q] <=> (q = s \/ incClosed[q])
    BY <2>1 DEF TypeOK
  <2>3. NoSendOnClosed'
    BY <2>1, <2>2 DEF SinkCore, NoSendOnClosed, TypeOK
  <2> QED
    BY <2>1, <2>2, <2>3 DEF SinkCore
<1>6. CASE HandleResponse
  <2> DEFINE s == Head(frameQ).s
  <2>1. s \in Streams /\ xcur = NoSend
    BY <1>6, ConsumedType DEF HandleResponse
  <2>2. UNCHANGED <<xcur, closing, incClosed, incoming, cctx>>
    BY <1>6 DEF HandleResponse
  <2>3. CASE s \notin inflight
    BY <1>1, <1>6, <2>2, <2>3 DEF HandleResponse
  <2>4. CASE s \in inflight
    <3>1. /\ inflight' = inflight \ {s} /\ handlers' = handlers \cup {s}
          /\ worker' = [worker EXCEPT ![s] = "run"]
      BY <1>6, <2>4 DEF HandleResponse
    <3> HIDE DEF s
    <3>2. ~incClosed[s]
      BY <2>1, <2>4 DEF SinkCore
    <3>3. \A q \in Streams : worker'[q] = IF q = s THEN "run" ELSE worker[q]
      BY <2>1, <3>1 DEF TypeOK
    <3>4. NoSendOnClosed'
      BY <2>1, <2>2 DEF NoSendOnClosed
    <3>5. inflight' \cap handlers' = {}
      BY <3>1 DEF SinkCore
    <3> QED
      BY <2>1, <2>2, <2>4, <3>1, <3>2, <3>3, <3>4, <3>5 DEF SinkCore
  <2> QED
    BY <2>3, <2>4
<1>7. CASE HandleValue
  <2>1. /\ UNCHANGED <<inflight, handlers, closing, incClosed, worker, incoming, cctx>>
        /\ \/ xcur' = NoSend
           \/ xcur'.s \in handlers /\ xcur'.s = Head(frameQ).s
    BY <1>7 DEF HandleValue, sinkVars
  <2>2. Head(frameQ).s \in Streams
    BY <1>7, ConsumedType DEF HandleValue
  <2>3. NoSendOnClosed'
    BY <2>1, <2>2 DEF SinkCore, NoSendOnClosed
  <2> QED
    BY <2>1, <2>3 DEF SinkCore
<1>8. CASE SendIncoming
  <2>1. /\ xcur # NoSend /\ xcur' = NoSend
        /\ UNCHANGED <<inflight, handlers, closing, incClosed, worker, cctx>>
        /\ \A q \in Streams : q # xcur.s => incoming'[q] = incoming[q]
    BY <1>8 DEF SendIncoming, TypeOK
  <2>2. ~incClosed[xcur.s]
    BY <2>1 DEF SinkCore, NoSendOnClosed
  <2> QED
    BY <2>1, <2>2 DEF SinkCore, NoSendOnClosed
<1>9. CASE HandleClose
  <2> DEFINE s == Head(frameQ).s
  <2>1. s \in Streams /\ xcur = NoSend
    BY <1>9, ConsumedType DEF HandleClose
  <2>2. /\ UNCHANGED <<xcur, inflight, closing, worker, incoming, cctx>>
        /\ handlers' = handlers \ {s}
        /\ incClosed' = IF s \in handlers THEN [incClosed EXCEPT ![s] = TRUE]
                        ELSE incClosed
    BY <1>9 DEF HandleClose
  <2> HIDE DEF s
  <2>3. \A q \in Streams : incClosed'[q] <=> (incClosed[q] \/ (q = s /\ s \in handlers))
    BY <2>1, <2>2 DEF TypeOK
  <2>4. s \in handlers => s \notin inflight /\ s \notin closing
    <3>1. s \in handlers => lpc # "chans"
      BY DEF LoopCore
    <3> QED
      BY <3>1 DEF LoopCore, SinkCore
  <2>5. NoSendOnClosed'
    BY <2>1, <2>2 DEF NoSendOnClosed
  <2> QED
    BY <2>1, <2>2, <2>3, <2>4, <2>5 DEF SinkCore
<1>10. ASSUME NEW s \in Streams,
              WorkerTake(s) \/ WorkerNoMore(s) \/ WorkerReturn(s)
       PROVE  SinkCore'
  <2>1. /\ UNCHANGED <<xcur, inflight, handlers, closing, incClosed>>
        /\ \A q \in Streams : q # s =>
             /\ worker'[q] = worker[q] /\ cctx'[q] = cctx[q]
             /\ incoming'[q] = incoming[q]
    BY <1>10 DEF WorkerTake, WorkerNoMore, WorkerReturn, connVars, TypeOK
  <2>2. CASE WorkerTake(s)
    BY <2>1, <2>2 DEF WorkerTake, SinkCore, NoSendOnClosed, TypeOK
  <2>3. CASE WorkerNoMore(s)
    <3>1. /\ worker[s] = "run" /\ worker'[s] = "nil" /\ incoming'[s] = <<>>
          /\ incClosed[s] /\ cctx' = cctx
      BY <2>3 DEF WorkerNoMore, TypeOK
    <3> QED
      BY <2>1, <3>1 DEF SinkCore, NoSendOnClosed
  <2>4. CASE WorkerReturn(s)
    <3>1. /\ worker[s] \in {"run", "nil"} /\ worker'[s] = "done"
          /\ cctx'[s] = IF cctx[s] = "live" THEN "chan" ELSE cctx[s]
          /\ cctx[s] = "live" => worker[s] = "nil"
      BY <2>4 DEF WorkerReturn, Drained, TypeOK
    <3>2. cctx'[s] # "live" /\ (cctx'[s] = "chan" => incClosed[s])
      BY <3>1 DEF SinkCore
    <3> QED
      BY <2>1, <3>1, <3>2 DEF SinkCore, NoSendOnClosed
  <2> QED
    BY <1>10, <2>2, <2>3, <2>4
<1>11. ASSUME NEW s \in Streams, UserCancel(s) PROVE SinkCore'
  <2>1. /\ UNCHANGED <<xcur, inflight, handlers, closing, incClosed, worker, incoming>>
        /\ worker[s] # "none"
        /\ \A q \in Streams : cctx'[q] = IF q = s THEN "user" ELSE cctx[q]
    BY <1>11 DEF UserCancel, connVars, TypeOK
  <2> QED
    BY <2>1 DEF SinkCore, NoSendOnClosed
<1>12. ASSUME NEW s \in Streams, ProducerCloses(s) \/ WorkerGive(s) \/ WatchCancel(s)
       PROVE  SinkCore'
  BY <1>1, <1>12 DEF ProducerCloses, WorkerGive, WatchCancel, connVars, sinkVars
<1>13. CASE UNCHANGED vars
  BY <1>1, <1>13 DEF vars, connVars, sinkVars
<1> QED
  BY <1>2, <1>3, <1>4, <1>5, <1>6, <1>7, <1>8, <1>9, <1>10, <1>11, <1>12, <1>13
  DEF Next, Loop, Executor, WorkerMoves

-----------------------------------------------------------------------------
(* The way: how its frames move.                                           *)

\* The frames on the way are frames about streams.
LEMMA WayTyped ==
    ASSUME TypeOK
    PROVE  /\ Way \in Seq(Frames) /\ DOMAIN Way = 1..Len(Way) /\ Len(Way) \in Nat
           /\ frameQ \in Seq(Frames) /\ wire \in Seq(Frames)
           /\ \A i \in 1..Len(Way) : Way[i] \in Frames /\ Way[i].s \in Streams
<1>1. frameQ \in Seq(Frames) /\ wire \in Seq(Frames)
  BY DEF TypeOK
<1>2. Way \in Seq(Frames)
  BY <1>1, ConcatProperties DEF Way
<1>3. \A i \in 1..Len(Way) : Way[i] \in Frames
  BY <1>2
<1>4. \A f \in Frames : f.s \in Streams
  BY DEF Frames
<1> QED
  BY <1>1, <1>2, <1>3, <1>4

\* A frame that handleOutChans writes is the last one.
LEMMA WayWritten ==
    ASSUME TypeOK, NEW f \in Frames, Written(f), UNCHANGED frameQ
    PROVE  Way' = Append(Way, f)
  BY WayTyped, ConcatAppend DEF Written, Way

\* Reading moves a frame along the way.
LEMMA WayRead == ASSUME TypeOK, Read PROVE UNCHANGED Way
  BY WayTyped, MoveHead DEF Read, Queue, Way

\* The executor takes the first frame.
LEMMA WayConsumed ==
    ASSUME TypeOK, NEW t, NextFrame(t), Consumed, UNCHANGED wire
    PROVE  /\ Way # <<>> /\ Head(Way) = Head(frameQ) /\ Head(Way).t = t
           /\ Way' = Tail(Way)
  BY WayTyped, ConcatTail DEF NextFrame, Consumed, Way

\* The connection breaks: the end of the way is lost.
LEMMA WayBreak ==
    ASSUME TypeOK, Break
    PROVE  \E n \in 0..Len(Way) : Way' = SubSeq(Way, 1, n)
<1>1. PICK k \in 0..Len(wire) : wire' = SubSeq(wire, 1, k)
  BY DEF Break
<1>2. \E n \in 0..Len(frameQ \o wire) :
        frameQ \o SubSeq(wire, 1, k) = SubSeq(frameQ \o wire, 1, n)
  <2>1. frameQ \in Seq(Frames) /\ wire \in Seq(Frames)
    BY WayTyped
  <2> QED
    BY <2>1, ConcatCut, Zenon
<1>3. frameQ' = frameQ
  BY DEF Break, connVars
<1> QED
  BY <1>1, <1>2, <1>3 DEF Way

\* w is q with the frame f at its end.
FrameCame(q, f, w) ==
    /\ Len(q) \in Nat /\ DOMAIN q = 1..Len(q) /\ DOMAIN w = 1..Len(q) + 1
    /\ w[Len(q) + 1] = f /\ \A i \in 1..Len(q) : w[i] = q[i]
    /\ \A i \in 1..Len(q) + 1 : i # Len(q) + 1 => i \in 1..Len(q)
    /\ Len(q) + 1 \in 1..Len(q) + 1
    /\ \A i \in 1..Len(q) : i \in 1..Len(q) + 1 /\ i < Len(q) + 1
    /\ \A i \in 1..Len(q) : Answered(q, i) => Answered(w, i)
    /\ (\E j \in 1..Len(q) : q[j].s = f.s /\ q[j].t = "resp") =>
         Answered(w, Len(q) + 1)

\* The frames after one came.
LEMMA FrameComes ==
    ASSUME NEW q \in Seq(Frames), NEW f \in Frames, NEW w, w = Append(q, f)
    PROVE  FrameCame(q, f, w)
<1>1. /\ Len(q) \in Nat /\ DOMAIN q = 1..Len(q) /\ DOMAIN w = 1..Len(q) + 1
      /\ w[Len(q) + 1] = f /\ \A i \in 1..Len(q) : w[i] = q[i]
  OBVIOUS
<1>2. /\ \A i \in 1..Len(q) + 1 : i # Len(q) + 1 => i \in 1..Len(q)
      /\ Len(q) + 1 \in 1..Len(q) + 1
      /\ \A i \in 1..Len(q) : i \in 1..Len(q) + 1 /\ i < Len(q) + 1
  BY <1>1
<1>3. \A i \in 1..Len(q) : Answered(q, i) => Answered(w, i)
  BY ONLY <1>1, <1>2 DEF Answered
<1>4. (\E j \in 1..Len(q) : q[j].s = f.s /\ q[j].t = "resp") => Answered(w, Len(q) + 1)
  BY ONLY <1>1, <1>2 DEF Answered
<1> QED
  BY <1>1, <1>2, <1>3, <1>4 DEF FrameCame

\* w is q without its first frame.
FrameLeft(q, w) ==
    /\ Len(q) \in Nat /\ DOMAIN q = 1..Len(q) /\ DOMAIN w = 1..Len(q) - 1
    /\ 1 \in 1..Len(q) /\ q[1] = Head(q)
    /\ \A i \in 1..Len(q) - 1 : w[i] = q[i + 1] /\ i + 1 \in 1..Len(q) /\ 1 < i + 1
    /\ \A i, j \in 1..Len(q) - 1 : i < j => i + 1 < j + 1
    /\ \A i \in 2..Len(q) : i - 1 \in 1..Len(q) - 1 /\ w[i - 1] = q[i]
    /\ \A i \in 1..Len(q) - 1 : Answered(q, i + 1) =>
         \/ Answered(w, i)
         \/ Head(q).t = "resp" /\ Head(q).s = w[i].s
    /\ ~Answered(q, 1)

\* The frames after the first one left: an answer that a frame was behind is
\* still there, or was that one.
LEMMA FrameLeaves ==
    ASSUME NEW q \in Seq(Frames), q # <<>>, NEW w, w = Tail(q)
    PROVE  FrameLeft(q, w)
<1>1. /\ w \in Seq(Frames) /\ Len(w) = Len(q) - 1 /\ Len(q) \in Nat \ {0}
      /\ q[1] = Head(q) /\ \A i \in 1..Len(q) - 1 : w[i] = q[i + 1]
      /\ DOMAIN q = 1..Len(q) /\ DOMAIN w = 1..Len(q) - 1
  BY HeadTailProperties, EmptySeq
<1>2. /\ 1 \in 1..Len(q)
      /\ \A i \in 1..Len(q) - 1 : i + 1 \in 1..Len(q) /\ 1 < i + 1
      /\ \A i, j \in 1..Len(q) - 1 : i < j => i + 1 < j + 1
      /\ \A i \in 2..Len(q) : i - 1 \in 1..Len(q) - 1 /\ (i - 1) + 1 = i
  BY <1>1
<1>3. \A i \in 2..Len(q) : w[i - 1] = q[i]
  <2> SUFFICES ASSUME NEW i \in 2..Len(q) PROVE w[i - 1] = q[i]
    OBVIOUS
  <2>1. w[i - 1] = q[(i - 1) + 1]
    BY <1>1, <1>2
  <2> QED
    BY <1>2, <2>1
<1>4. ASSUME NEW i \in 1..Len(q) - 1, Answered(q, i + 1)
      PROVE  Answered(w, i) \/ (Head(q).t = "resp" /\ Head(q).s = w[i].s)
  <2>1. PICK j \in 1..Len(q) : j < i + 1 /\ q[j].s = q[i + 1].s /\ q[j].t = "resp"
    BY <1>1, <1>4 DEF Answered
  <2>2. CASE j = 1
    BY <1>1, <2>1, <2>2
  <2>3. CASE j # 1
    <3>1. j \in 2..Len(q) /\ j - 1 < i
      BY <1>1, <2>1, <2>3
    <3>2. j - 1 \in DOMAIN w /\ w[j - 1] = q[j]
      BY <1>1, <1>2, <1>3, <3>1
    <3> QED
      BY <1>1, <2>1, <3>1, <3>2 DEF Answered
  <2> QED
    BY <2>2, <2>3
<1>5. ~Answered(q, 1)
  BY <1>1 DEF Answered
<1> QED
  BY <1>1, <1>2, <1>3, <1>4, <1>5 DEF FrameLeft

\* w is the first n frames of q.
FramesKept(q, n, w) ==
    /\ DOMAIN q = 1..Len(q) /\ DOMAIN w = 1..n
    /\ \A i \in 1..n : i \in 1..Len(q) /\ w[i] = q[i]
    /\ \A i \in 1..n : Answered(q, i) => Answered(w, i)

\* The frames that are left of a broken connection.
LEMMA FramesCut ==
    ASSUME NEW q \in Seq(Frames), NEW n \in 0..Len(q), NEW w, w = SubSeq(q, 1, n)
    PROVE  FramesKept(q, n, w)
<1>1. /\ w \in Seq(Frames) /\ Len(w) = n /\ DOMAIN w = 1..n /\ DOMAIN q = 1..Len(q)
      /\ \A i \in 1..n : i \in 1..Len(q) /\ w[i] = q[i]
  OBVIOUS
<1>2. \A i \in 1..n : \A j \in 1..Len(q) : j < i => j \in 1..n
  BY <1>1
<1>3. \A i \in 1..n : Answered(q, i) => Answered(w, i)
  BY ONLY <1>1, <1>2 DEF Answered
<1> QED
  BY <1>1, <1>3 DEF FramesKept

-----------------------------------------------------------------------------
(* The way and the two sides of it.                                        *)

\* Nothing is on the way before anything is sent.
LEMMA WayInit == Init => WayCore /\ AnswerCore
<1> SUFFICES ASSUME Init PROVE WayCore /\ AnswerCore
  OBVIOUS
<1>1. DOMAIN Way = {}
  BY DEF Init, Way
<1>2. WayCore
  BY <1>1 DEF WayCore, FramesFit, FramesInOrder
<1>3. AnswerCore
  BY <1>1 DEF Init, AnswerCore, AnswerFirst, NoneYet, FramesMet, RegsMet, ClosedOver
<1> QED
  BY <1>2, <1>3

\* A step that no frame, no registration and no handler takes part in.
LEMMA WayKept ==
    ASSUME WayCore, AnswerCore, UNCHANGED <<regs, inflight, handlers, incClosed>>,
           Way' = Way, netUp' => netUp,
           \/ prod' = prod
           \/ \A s \in Streams : \/ prod'[s] = prod[s]
                                 \/ prod[s] = "open" /\ prod'[s] = "closed",
           TypeOK
    PROVE  WayCore' /\ AnswerCore'
<1>1. \A i \in DOMAIN Way : Way[i].s \in Streams
  BY WayTyped
<1>2. WayCore'
  BY <1>1 DEF WayCore, FramesFit, FramesInOrder
<1>3. AnswerFirst'
  BY DEF AnswerCore, AnswerFirst
<1>4. ASSUME netUp' PROVE NoneYet' /\ FramesMet' /\ RegsMet' /\ ClosedOver'
  <2>1. NoneYet' /\ ClosedOver'
    BY <1>4 DEF AnswerCore, NoneYet, ClosedOver
  <2>2. FramesMet' /\ RegsMet'
    BY <1>4 DEF AnswerCore, FramesMet, RegsMet
  <2> QED
    BY <2>1, <2>2
<1> QED
  BY <1>2, <1>3, <1>4 DEF AnswerCore

\* The answer with the channel id is written: it is the first frame about its
\* stream (handleOutChans).
LEMMA RegisterWay ==
    ASSUME TypeOK, Agreement, NEW s \in Streams, Register(s)
    PROVE  WayCore' /\ AnswerCore'
<1> DEFINE n == Len(Way)
           w == Way'
<1>1. /\ netUp /\ prod[s] = "none" /\ regs' = regs \cup {s}
      /\ \A q \in Streams : prod'[q] = IF q = s THEN "open" ELSE prod[q]
      /\ UNCHANGED <<inflight, handlers, incClosed, netUp>>
      /\ Written(RespFrame(s)) /\ UNCHANGED frameQ
  BY DEF Register, TypeOK, connVars, sinkVars
<1>2. RespFrame(s) \in Frames /\ RespFrame(s).t = "resp" /\ RespFrame(s).s = s
  BY DEF RespFrame, Frames
<1>3. w = Append(Way, RespFrame(s)) /\ Way \in Seq(Frames)
  BY ONLY TypeOK, <1>1, <1>2, WayWritten, WayTyped
<1> HIDE DEF w
<1>4. /\ n \in Nat /\ DOMAIN Way = 1..n /\ DOMAIN w = 1..n + 1
      /\ w[n + 1] = RespFrame(s) /\ n + 1 \in 1..n + 1
      /\ \A i \in 1..n : w[i] = Way[i] /\ i \in 1..n + 1
      /\ \A i \in 1..n + 1 : i # n + 1 => i \in 1..n
      /\ \A i \in 1..n : Answered(Way, i) => Answered(w, i)
  <2>1. FrameCame(Way, RespFrame(s), w)
    BY ONLY <1>2, <1>3, FrameComes
  <2> QED
    BY <2>1 DEF FrameCame
<1>5. /\ \A i \in 1..n : Way[i].s \in Streams /\ Way[i].s # s
      /\ s \in inflight /\ s \notin regs /\ ~incClosed[s]
  BY <1>1, <1>4, WayTyped
  DEF Agreement, WayCore, FramesFit, AnswerCore, NoneYet, ClosedOver
<1>6. FramesFit'
  BY <1>1, <1>2, <1>4, <1>5 DEF Agreement, WayCore, FramesFit, w

<1>7. FramesInOrder'
  BY <1>2, <1>4, <1>5 DEF Agreement, WayCore, FramesInOrder, w
<1>8. AnswerFirst'
  BY <1>1, <1>2, <1>4 DEF Agreement, AnswerCore, AnswerFirst, w
<1>9. NoneYet' /\ ClosedOver'
  BY <1>1, <1>2, <1>4, <1>5 DEF Agreement, AnswerCore, NoneYet, ClosedOver, w
<1>10. FramesMet'
  BY <1>1, <1>2, <1>4, <1>5 DEF Agreement, AnswerCore, FramesMet, w
<1>11. RegsMet'
  BY <1>1, <1>2, <1>4, <1>5 DEF Agreement, AnswerCore, RegsMet, w
<1> QED
  BY <1>6, <1>7, <1>8, <1>9, <1>10, <1>11 DEF WayCore, AnswerCore

\* A value or the end of a registered channel is written: after its answer
\* and before nothing of the same stream.
LEMMA WriteWay ==
    ASSUME TypeOK, Agreement, NEW s \in Streams, NEW f \in Frames,
           netUp, s \in regs, UNCHANGED <<prod, inflight, handlers, incClosed, netUp>>,
           Way' = Append(Way, f), f.s = s,
           \/ f.t = "val" /\ f.v \notin Unencodable /\ regs' = regs
           \/ f.t = "close" /\ prod[s] = "closed" /\ regs' = regs \ {s}
    PROVE  WayCore' /\ AnswerCore'
<1> DEFINE n == Len(Way)
           w == Way'
<1>1. w = Append(Way, f) /\ Way \in Seq(Frames)
  BY WayTyped
<1> HIDE DEF w
<1>2. /\ n \in Nat /\ DOMAIN Way = 1..n /\ DOMAIN w = 1..n + 1
      /\ w[n + 1] = f /\ n + 1 \in 1..n + 1
      /\ \A i \in 1..n : w[i] = Way[i] /\ i \in 1..n + 1
      /\ \A i \in 1..n + 1 : i # n + 1 => i \in 1..n
      /\ \A i \in 1..n : Answered(Way, i) => Answered(w, i)
      /\ (\E j \in 1..n : Way[j].s = f.s /\ Way[j].t = "resp") => Answered(w, n + 1)
  <2>1. FrameCame(Way, f, w)
    BY <1>1, FrameComes
  <2> QED
    BY <2>1 DEF FrameCame
<1>3. f.t # "resp" /\ s \notin handlers => Answered(w, n + 1)
  <2>1. RespFrame(s).t = "resp" /\ RespFrame(s).s = s
    BY DEF RespFrame
  <2> QED
    BY <1>2, <2>1 DEF Agreement, AnswerCore, RegsMet
<1>4. f.t # "resp" /\ ~incClosed[s] /\ prod[s] # "none" /\ (s \in inflight => s \notin handlers)
  <2>1. ~incClosed[s] /\ prod[s] # "none"
    BY DEF Agreement, AnswerCore, NoneYet, ClosedOver
  <2> QED
    BY <2>1 DEF Agreement, SinkCore
<1>5. \A i \in 1..n : Way[i].s = s => Way[i].t # "close"
  BY <1>2 DEF Agreement, WayCore, FramesFit
<1>6. FramesFit'
  BY <1>2, <1>4 DEF Agreement, WayCore, FramesFit, w
<1>7. FramesInOrder'
  BY <1>2, <1>4, <1>5 DEF Agreement, WayCore, FramesInOrder, w
<1>8. AnswerFirst'
  BY <1>2, <1>3, <1>4 DEF Agreement, AnswerCore, AnswerFirst, w
<1>9. NoneYet' /\ ClosedOver'
  BY <1>2, <1>4 DEF Agreement, AnswerCore, NoneYet, ClosedOver, w
<1>10. FramesMet'
  BY <1>2, <1>3, <1>4 DEF Agreement, AnswerCore, FramesMet, w
<1>11. RegsMet'
  BY <1>2 DEF Agreement, AnswerCore, RegsMet, w
<1> QED
  BY <1>6, <1>7, <1>8, <1>9, <1>10, <1>11 DEF WayCore, AnswerCore

\* The connection breaks.
LEMMA BreakWay ==
    ASSUME TypeOK, Agreement, Break
    PROVE  WayCore' /\ AnswerCore'
<1> DEFINE w == Way'
<1>1. ~netUp' /\ UNCHANGED <<prod, regs, inflight, handlers, incClosed>>
  BY DEF Break, serverVars, connVars, sinkVars
<1>2. PICK n \in 0..Len(Way) : w = SubSeq(Way, 1, n)
  BY WayBreak
<1>3. Way \in Seq(Frames)
  BY WayTyped
<1> HIDE DEF w
<1>4. /\ DOMAIN Way = 1..Len(Way) /\ DOMAIN w = 1..n
      /\ \A i \in 1..n : i \in 1..Len(Way) /\ w[i] = Way[i]
      /\ \A i \in 1..n : Answered(Way, i) => Answered(w, i)
  <2>1. FramesKept(Way, n, w)
    BY <1>2, <1>3, FramesCut
  <2> QED
    BY <2>1 DEF FramesKept
<1>5. WayCore'
  BY <1>1, <1>4 DEF Agreement, WayCore, FramesFit, FramesInOrder, w
<1>6. AnswerFirst'
  BY <1>1, <1>4 DEF Agreement, AnswerCore, AnswerFirst, w
<1> QED
  BY <1>1, <1>5, <1>6 DEF AnswerCore

\* The loop of the client gives the connection up: only when it is lost.
LEMMA GiveUpWay ==
    ASSUME TypeOK, Agreement, ~netUp, UNCHANGED <<prod, regs, netUp>>, Way' = Way,
           inflight' \subseteq inflight
    PROVE  WayCore' /\ AnswerCore'
<1>1. WayCore'
  BY DEF Agreement, WayCore, FramesFit, FramesInOrder
<1>2. AnswerFirst'
  BY DEF Agreement, AnswerCore, AnswerFirst
<1> QED
  BY <1>1, <1>2 DEF AnswerCore

\* The executor takes the answer of a call: when the call is in flight, the
\* call gets its handler; when it is not, the connection is gone.
LEMMA ResponseWay ==
    ASSUME TypeOK, Agreement, HandleResponse
    PROVE  WayCore' /\ AnswerCore'
<1> DEFINE n == Len(Way)
           w == Way'
           s == Head(Way).s
<1>1. /\ Way # <<>> /\ Head(Way).t = "resp" /\ w = Tail(Way) /\ Way \in Seq(Frames)
      /\ Head(Way) = Head(frameQ)
  BY WayConsumed, WayTyped DEF HandleResponse, netVars
<1>2. UNCHANGED <<prod, regs, incClosed, netUp>>
  BY DEF HandleResponse, serverVars, netVars
<1>3. \/ s \notin inflight /\ UNCHANGED <<inflight, handlers>>
      \/ s \in inflight /\ inflight' = inflight \ {s} /\ handlers' = handlers \cup {s}
  BY <1>1 DEF HandleResponse
<1> HIDE DEF w
<1>4. FrameLeft(Way, w)
  BY ONLY <1>1, FrameLeaves
<1>5. /\ n \in Nat /\ DOMAIN Way = 1..n /\ DOMAIN w = 1..n - 1
      /\ 1 \in 1..n /\ Way[1] = Head(Way)
      /\ \A i \in 1..n - 1 : w[i] = Way[i + 1] /\ i + 1 \in 1..n /\ 1 < i + 1
      /\ \A i, j \in 1..n - 1 : i < j => i + 1 < j + 1
      /\ \A i \in 2..n : i - 1 \in 1..n - 1 /\ w[i - 1] = Way[i]
      /\ \A i \in 1..n : i # 1 => i \in 2..n
  BY <1>4 DEF FrameLeft
<1>6. \A i \in 1..n - 1 : Answered(Way, i + 1) => Answered(w, i) \/ w[i].s = s
  BY <1>4 DEF FrameLeft
<1>7. s \in Streams /\ prod[s] # "none"
  BY <1>1, <1>5, WayTyped DEF Agreement, WayCore, FramesFit
<1>8. \A i \in 1..n - 1 : w[i].s = s => w[i].t # "resp"
  BY <1>5 DEF Agreement, WayCore, FramesInOrder
<1>9. netUp => s \in inflight
  BY <1>1, <1>5 DEF Agreement, AnswerCore, FramesMet
<1> HIDE DEF s
<1>10. FramesFit'
  BY <1>2, <1>5 DEF Agreement, WayCore, FramesFit, w
<1>11. FramesInOrder'
  <2> SUFFICES ASSUME NEW i \in 1..n - 1, NEW j \in 1..n - 1, i < j, w[i].s = w[j].s
               PROVE  w[j].t # "resp" /\ w[i].t # "close"
    BY <1>5 DEF FramesInOrder, w
  <2>1. w[i] = Way[i + 1] /\ w[j] = Way[j + 1] /\ i + 1 < j + 1
    BY <1>5
  <2> QED
    BY <1>5, <2>1 DEF Agreement, WayCore, FramesInOrder
<1>12. AnswerFirst'
  <2> SUFFICES ASSUME NEW i \in 1..n - 1, w[i].t # "resp", w[i].s \in inflight'
               PROVE  Answered(w, i)
    BY <1>5 DEF AnswerFirst, w
  <2>1. w[i].s \in inflight /\ w[i].s # s
    BY <1>3
  <2> QED
    BY <1>5, <1>6, <2>1 DEF Agreement, AnswerCore, AnswerFirst
<1>13. ASSUME netUp' PROVE NoneYet' /\ ClosedOver' /\ FramesMet' /\ RegsMet'
  <2>1. /\ netUp /\ s \in inflight
        /\ inflight' = inflight \ {s} /\ handlers' = handlers \cup {s}
    BY <1>2, <1>3, <1>9, <1>13
  <2>2. NoneYet'
    BY <1>2, <1>7, <2>1 DEF Agreement, AnswerCore, NoneYet
  <2>3. ClosedOver'
    <3> SUFFICES ASSUME NEW q \in Streams, incClosed'[q]
                 PROVE  /\ prod[q] = "closed" /\ q \notin regs
                        /\ \A i \in 1..n - 1 : w[i].s # q
      BY <1>2, <1>5 DEF ClosedOver, w
    <3>1. CASE incClosed[q]
      <4>1. /\ prod[q] = "closed" /\ q \notin regs
            /\ \A i \in 1..n : Way[i].s # q
        BY <1>5, <1>13, <2>1, <3>1 DEF Agreement, AnswerCore, ClosedOver
      <4> QED
        BY <1>5, <4>1
    <3> QED
      BY <1>2, <3>1
  <2>4. FramesMet'
    BY <1>2, <1>5, <1>6, <1>8, <2>1 DEF Agreement, AnswerCore, FramesMet, w
  <2>5. RegsMet'
    <3> SUFFICES ASSUME NEW q \in regs, q \notin handlers'
                 PROVE  \E i \in 1..n - 1 : w[i] = RespFrame(q)
      BY <1>2, <1>5 DEF RegsMet, w
    <3>1. q # s /\ RespFrame(q).s = q
      BY <2>1 DEF RespFrame
    <3>2. PICK i \in 1..n : Way[i] = RespFrame(q)
      BY <1>5, <2>1 DEF Agreement, AnswerCore, RegsMet
    <3>3. i # 1
      BY <1>5, <3>1, <3>2 DEF s
    <3> QED
      BY <1>5, <3>2, <3>3
  <2> QED
    BY <2>2, <2>3, <2>4, <2>5
<1> QED
  BY <1>10, <1>11, <1>12, <1>13 DEF WayCore, AnswerCore

\* The executor takes a value or the end of a stream: after the end there is
\* nothing about the stream.
LEMMA TakeWay ==
    ASSUME TypeOK, Agreement, NEW t \in {"val", "close"}, NextFrame(t), Consumed,
           UNCHANGED <<prod, regs, inflight, netUp, wire>>,
           \/ t = "val" /\ UNCHANGED <<handlers, incClosed>>
           \/ /\ t = "close" /\ handlers' = handlers \ {Head(frameQ).s}
              /\ \A q \in Streams : incClosed'[q] => incClosed[q] \/ q = Head(frameQ).s
    PROVE  WayCore' /\ AnswerCore'
<1> DEFINE n == Len(Way)
           w == Way'
           s == Head(Way).s
<1>1. /\ Way # <<>> /\ Head(Way).t = t /\ w = Tail(Way) /\ Way \in Seq(Frames)
      /\ Head(Way) = Head(frameQ) /\ t # "resp"
  BY WayConsumed, WayTyped
<1> HIDE DEF w
<1>4. FrameLeft(Way, w)
  BY ONLY <1>1, FrameLeaves
<1>5. /\ n \in Nat /\ DOMAIN Way = 1..n /\ DOMAIN w = 1..n - 1
      /\ 1 \in 1..n /\ Way[1] = Head(Way)
      /\ \A i \in 1..n - 1 : w[i] = Way[i + 1] /\ i + 1 \in 1..n /\ 1 < i + 1
      /\ \A i, j \in 1..n - 1 : i < j => i + 1 < j + 1
      /\ \A i \in 2..n : i - 1 \in 1..n - 1 /\ w[i - 1] = Way[i]
      /\ \A i \in 1..n : i # 1 => i \in 2..n
  BY <1>4 DEF FrameLeft
<1>6. \A i \in 1..n - 1 : Answered(Way, i + 1) => Answered(w, i)
  BY <1>1, <1>4 DEF FrameLeft
<1>7. t = "close" => /\ s \notin regs /\ prod[s] = "closed"
                     /\ \A i \in 1..n - 1 : w[i].s # s
  BY <1>1, <1>5 DEF Agreement, WayCore, FramesFit, FramesInOrder
<1>8. \/ UNCHANGED <<handlers, incClosed>>
      \/ /\ t = "close" /\ handlers' = handlers \ {s}
         /\ \A q \in Streams : incClosed'[q] => incClosed[q] \/ q = s
  BY <1>1
<1> HIDE DEF s
<1>10. FramesFit'
  BY <1>5 DEF Agreement, WayCore, FramesFit, w
<1>11. FramesInOrder'
  <2> SUFFICES ASSUME NEW i \in 1..n - 1, NEW j \in 1..n - 1, i < j, w[i].s = w[j].s
               PROVE  w[j].t # "resp" /\ w[i].t # "close"
    BY <1>5 DEF FramesInOrder, w
  <2>1. w[i] = Way[i + 1] /\ w[j] = Way[j + 1] /\ i + 1 < j + 1
    BY <1>5
  <2> QED
    BY <1>5, <2>1 DEF Agreement, WayCore, FramesInOrder
<1>12. AnswerFirst'
  BY <1>5, <1>6 DEF Agreement, AnswerCore, AnswerFirst, w
<1>13. ASSUME netUp' PROVE NoneYet' /\ ClosedOver' /\ FramesMet' /\ RegsMet'
  <2>1. NoneYet'
    BY <1>13 DEF Agreement, AnswerCore, NoneYet
  <2>2. ClosedOver'
    <3> SUFFICES ASSUME NEW q \in Streams, incClosed'[q]
                 PROVE  /\ prod[q] = "closed" /\ q \notin regs
                        /\ \A i \in 1..n - 1 : w[i].s # q
      BY <1>5 DEF ClosedOver, w
    <3>1. CASE incClosed[q]
      <4>1. /\ prod[q] = "closed" /\ q \notin regs
            /\ \A i \in 1..n : Way[i].s # q
        BY <1>5, <1>13, <3>1 DEF Agreement, AnswerCore, ClosedOver
      <4> QED
        BY <1>5, <4>1
    <3> QED
      BY <1>7, <1>8, <3>1
  <2>3. FramesMet'
    <3> SUFFICES ASSUME NEW i \in 1..n - 1
                 PROVE  IF w[i].t = "resp" THEN w[i].s \in inflight
                        ELSE w[i].s \in handlers' \/ Answered(w, i)
      BY <1>5 DEF FramesMet, w
    <3>1. i + 1 \in 1..n /\ w[i] = Way[i + 1]
      BY <1>5
    <3>2. IF w[i].t = "resp" THEN w[i].s \in inflight
          ELSE w[i].s \in handlers \/ Answered(Way, i + 1)
      BY <1>5, <1>13, <3>1 DEF Agreement, AnswerCore, FramesMet
    <3>3. w[i].s \in handlers => w[i].s \in handlers'
      BY <1>7, <1>8
    <3> QED
      BY <1>6, <3>2, <3>3
  <2>4. RegsMet'
    <3> SUFFICES ASSUME NEW q \in regs, q \notin handlers'
                 PROVE  \E i \in 1..n - 1 : w[i] = RespFrame(q)
      BY <1>5 DEF RegsMet, w
    <3>1. RespFrame(q).t = "resp" /\ q \notin handlers
      BY <1>7, <1>8 DEF RespFrame
    <3>2. PICK i \in 1..n : Way[i] = RespFrame(q)
      BY <1>5, <1>13, <3>1 DEF Agreement, AnswerCore, RegsMet
    <3>3. i # 1
      BY <1>1, <1>5, <3>1, <3>2
    <3> QED
      BY <1>5, <3>2, <3>3
  <2> QED
    BY <2>1, <2>2, <2>3, <2>4
<1> QED
  BY <1>10, <1>11, <1>12, <1>13 DEF WayCore, AnswerCore

\* Every step keeps the order of the frames about a stream, and what the two
\* sides of the connection know of it.
LEMMA WayStep == TypeOK /\ Agreement /\ [Next]_vars => WayCore' /\ AnswerCore'
<1> SUFFICES ASSUME TypeOK, Agreement, [Next]_vars PROVE WayCore' /\ AnswerCore'
  OBVIOUS
<1>0. TypeOK /\ Agreement /\ WayCore /\ AnswerCore
  BY DEF Agreement
<1>1. ASSUME UNCHANGED <<prod, regs, inflight, handlers, incClosed, netUp>>, Way' = Way
      PROVE  WayCore' /\ AnswerCore'
  BY ONLY <1>0, <1>1, WayKept
<1>2. ASSUME NEW s \in Streams, Register(s) PROVE WayCore' /\ AnswerCore'
  BY ONLY <1>0, <1>2, RegisterWay
<1>3. ASSUME NEW s \in Streams, Take(s) PROVE WayCore' /\ AnswerCore'
  <2>1. /\ netUp /\ s \in regs /\ frameQ' = frameQ
        /\ UNCHANGED <<prod, regs, inflight, handlers, incClosed, netUp>>
        /\ made[s] \in 0..MaxVals /\ made[s] < Amount[s] /\ Amount[s] \in 0..MaxVals
    BY <1>3, StreamPathAssumption
    DEF Take, TypeOK, connVars, sinkVars, StreamPathAssumption
  <2>2. CASE made[s] + 1 \in Unencodable
    <3>1. Way' = Way
      BY <1>3, <2>1, <2>2 DEF Take, Way
    <3> QED
      BY <1>1, <2>1, <3>1
  <2>3. CASE made[s] + 1 \notin Unencodable
    <3> DEFINE f == ValFrame(s, made[s] + 1)
    <3>1. Written(f)
      BY <1>3, <2>3 DEF Take
    <3>2. f \in Frames /\ f.s = s /\ f.t = "val" /\ f.v \notin Unencodable
      <4>1. made[s] + 1 \in Values
        BY <2>1, StreamPathAssumption DEF Values, StreamPathAssumption
      <4> QED
        BY <2>3, <4>1 DEF ValFrame, Frames
    <3> HIDE DEF f
    <3>3. Way' = Append(Way, f)
      BY ONLY <1>0, <2>1, <3>1, <3>2, WayWritten
    <3> QED
      BY ONLY <1>0, <2>1, <3>2, <3>3, WriteWay
  <2> QED
    BY <2>2, <2>3
<1>4. ASSUME NEW s \in Streams, OutClosed(s) PROVE WayCore' /\ AnswerCore'
  <2> DEFINE f == CloseFrame(s)
  <2>1. /\ netUp /\ s \in regs /\ prod[s] = "closed" /\ frameQ' = frameQ
        /\ UNCHANGED <<prod, inflight, handlers, incClosed, netUp>>
        /\ Written(f) /\ regs' = regs \ {s}
    BY <1>4 DEF OutClosed, connVars, sinkVars
  <2>2. f \in Frames /\ f.s = s /\ f.t = "close"
    BY DEF CloseFrame, Frames
  <2> HIDE DEF f
  <2>3. Way' = Append(Way, f)
    BY ONLY <1>0, <2>1, <2>2, WayWritten
  <2> QED
    BY ONLY <1>0, <2>1, <2>2, <2>3, WriteWay
<1>5. ASSUME NEW s \in Streams, ProducerCloses(s) PROVE WayCore' /\ AnswerCore'
  <2>1. /\ UNCHANGED <<regs, inflight, handlers, incClosed, netUp>>
        /\ Way' = Way
        /\ \A q \in Streams : \/ prod'[q] = prod[q]
                              \/ prod[q] = "open" /\ prod'[q] = "closed"
    BY <1>5 DEF ProducerCloses, TypeOK, netVars, connVars, sinkVars, Way
  <2> QED
    BY ONLY <1>0, <2>1, WayKept
<1>6. CASE Break
  BY ONLY <1>0, <1>6, BreakWay
<1>7. CASE Read
  <2>1. Way' = Way
    BY <1>7, WayRead
  <2> QED
    BY <1>1, <1>7, <2>1 DEF Read, serverVars, sinkVars
<1>8. CASE ReadFails
  BY <1>1, <1>8 DEF ReadFails, serverVars, netVars, sinkVars, Way
<1>9. CASE Loop
  <2>1. ~netUp
    BY <1>9 DEF Loop, CloseInFlight, SwapHandlers, CloseChan, Agreement, LoopCore
  <2>2. /\ UNCHANGED <<prod, regs, netUp>> /\ Way' = Way
        /\ inflight' \subseteq inflight
    BY <1>9 DEF Loop, CloseInFlight, SwapHandlers, CloseChan, serverVars, netVars, Way
  <2> QED
    BY ONLY <1>0, <2>1, <2>2, GiveUpWay
<1>10. CASE HandleResponse
  BY ONLY <1>0, <1>10, ResponseWay
<1>11. CASE HandleValue
  <2>1. /\ NextFrame("val") /\ Consumed
        /\ UNCHANGED <<prod, regs, inflight, netUp, wire, handlers, incClosed>>
    BY <1>11 DEF HandleValue, serverVars, netVars, sinkVars
  <2> QED
    BY ONLY <1>0, <2>1, TakeWay
<1>12. CASE HandleClose
  <2>1. /\ NextFrame("close") /\ Consumed
        /\ UNCHANGED <<prod, regs, inflight, netUp, wire>>
        /\ handlers' = handlers \ {Head(frameQ).s}
        /\ \A q \in Streams : incClosed'[q] => incClosed[q] \/ q = Head(frameQ).s
    BY <1>12 DEF HandleClose, serverVars, netVars, TypeOK
  <2> QED
    BY ONLY <1>0, <2>1, TakeWay
<1>13. CASE SendIncoming
  BY <1>1, <1>13 DEF SendIncoming, serverVars, netVars, Way
<1>14. ASSUME NEW s \in Streams,
              \/ CancelArrives(s) \/ UserCancel(s) \/ WorkerMoves(s)
              \/ WorkerGive(s) \/ WatchCancel(s)
       PROVE  WayCore' /\ AnswerCore'
  BY <1>1, <1>14 DEF CancelArrives, UserCancel, WorkerMoves, WorkerTake,
     WorkerNoMore, WorkerReturn, WorkerGive, WatchCancel, serverVars, netVars,
     connVars, sinkVars, Way
<1>15. CASE UNCHANGED vars
  BY <1>1, <1>15 DEF vars, serverVars, netVars, connVars, sinkVars, Way
<1> QED
  BY <1>2, <1>3, <1>4, <1>5, <1>6, <1>7, <1>8, <1>9, <1>10, <1>11, <1>12, <1>13,
     <1>14, <1>15
  DEF Next, Server, Executor

-----------------------------------------------------------------------------
(* The values: arrived, on the way, or gone.                               *)

\* Whole is more than Cut, and Cut more than Begins.
LEMMA WholeCutBegins ==
    ASSUME NEW st, NEW a \in Seq(Values), NEW q \in Seq(Frames), NEW s
    PROVE  /\ Whole(st, a, q, s) => Cut(st, a, q, s)
           /\ Cut(st, a, q, s) => Begins(st, a)
<1>1. ASSUME Whole(st, a, q, s) PROVE Cut(st, a, q, s)
  <2>1. PICK rest \in Seq(Values) : st = a \o rest /\ Carried(q, s, rest)
    BY <1>1 DEF Whole
  <2>2. (a \o rest) \o <<>> = a \o rest /\ <<>> \in Seq(Values)
    BY ConcatProperties, ConcatEmptySeq
  <2> QED
    BY <2>1, <2>2, Zenon DEF Cut
<1>2. ASSUME Cut(st, a, q, s) PROVE Begins(st, a)
  <2>1. PICK rest, gone \in Seq(Values) : st = (a \o rest) \o gone
    BY <1>2 DEF Cut
  <2>2. (a \o rest) \o gone = a \o (rest \o gone) /\ rest \o gone \in Seq(Values)
    BY ConcatAssociative, ConcatProperties
  <2> QED
    BY <2>1, <2>2, Zenon DEF Begins
<1> QED
  BY <1>1, <1>2

\* A value is taken from the channel of the method and written.
LEMMA WholeSent ==
    ASSUME NEW st, NEW a \in Seq(Values), NEW q \in Seq(Frames), NEW s,
           NEW f \in Frames, Carries(f, s), f.v \in Values, Whole(st, a, q, s)
    PROVE  Whole(Append(st, f.v), a, Append(q, f), s)
<1>1. PICK rest \in Seq(Values) : st = a \o rest /\ Carried(q, s, rest)
  BY DEF Whole
<1>2. /\ Carried(Append(q, f), s, Append(rest, f.v))
      /\ Append(rest, f.v) \in Seq(Values)
  BY <1>1, CarriedMore, AppendProperties
<1>3. Append(st, f.v) = a \o Append(rest, f.v)
  <2>1. a \o Append(rest, f.v) = Append(a \o rest, f.v)
    BY ConcatAppend
  <2> QED
    BY <1>1, <2>1, Zenon
<1> QED
  BY <1>2, <1>3, Zenon DEF Whole

\* A value is taken from the channel: what has arrived still comes first.
LEMMA BeginsSent ==
    ASSUME NEW st, NEW a \in Seq(Values), NEW v \in Values, Begins(st, a)
    PROVE  Begins(Append(st, v), a)
<1>1. PICK rest \in Seq(Values) : st = a \o rest
  BY DEF Begins
<1>2. Append(rest, v) \in Seq(Values)
  BY AppendProperties
<1>3. Append(st, v) = a \o Append(rest, v)
  <2>1. a \o Append(rest, v) = Append(a \o rest, v)
    BY ConcatAppend
  <2> QED
    BY <1>1, <2>1, Zenon
<1> QED
  BY <1>2, <1>3, Zenon DEF Begins

\* A frame about something else is written, or read.
LEMMA WholeOther ==
    ASSUME NEW st, NEW a \in Seq(Values), NEW q \in Seq(Frames), NEW s,
           NEW f \in Frames, ~Carries(f, s), Whole(st, a, q, s)
    PROVE  Whole(st, a, Append(q, f), s)
<1>1. PICK rest \in Seq(Values) : st = a \o rest /\ Carried(q, s, rest)
  BY DEF Whole
<1>2. Carried(Append(q, f), s, rest)
  BY <1>1, CarriedOther
<1> QED
  BY <1>1, <1>2, Zenon DEF Whole

\* The executor takes a frame that carries nothing of s.
LEMMA WholePast ==
    ASSUME NEW st, NEW a \in Seq(Values), NEW q \in Seq(Frames), q # <<>>, NEW s,
           ~Carries(Head(q), s)
    PROVE  /\ Whole(st, a, q, s) => Whole(st, a, Tail(q), s)
           /\ Cut(st, a, q, s) => Cut(st, a, Tail(q), s)
<1>1. \A rest \in Seq(Values) : Carried(q, s, rest) => Carried(Tail(q), s, rest)
  BY CarriedPast
<1> QED
  BY <1>1, Zenon DEF Whole, Cut

\* The executor takes a frame with the next value of s.
LEMMA WholeNext ==
    ASSUME NEW st, NEW a \in Seq(Values), NEW q \in Seq(Frames), q # <<>>, NEW s,
           Carries(Head(q), s)
    PROVE  /\ Whole(st, a, q, s) => Whole(st, Append(a, Head(q).v), Tail(q), s)
           /\ Cut(st, a, q, s) => Cut(st, Append(a, Head(q).v), Tail(q), s)
<1>1. ASSUME NEW rest \in Seq(Values), Carried(q, s, rest)
      PROVE  /\ Tail(rest) \in Seq(Values) /\ Carried(Tail(q), s, Tail(rest))
             /\ Append(a, Head(q).v) \o Tail(rest) = a \o rest
  <2>1. /\ rest # <<>> /\ Head(rest) = Head(q).v
        /\ Carried(Tail(q), s, Tail(rest))
    BY <1>1, CarriedNext
  <2>2. /\ Append(a, Head(rest)) \o Tail(rest) = a \o rest
        /\ Tail(rest) \in Seq(Values)
    BY <2>1, MoveHead
  <2> QED
    BY <2>1, <2>2
<1>2. ASSUME Whole(st, a, q, s) PROVE Whole(st, Append(a, Head(q).v), Tail(q), s)
  BY <1>1, <1>2, Zenon DEF Whole
<1>3. ASSUME Cut(st, a, q, s) PROVE Cut(st, Append(a, Head(q).v), Tail(q), s)
  BY <1>1, <1>3, Zenon DEF Cut
<1> QED
  BY <1>2, <1>3

\* The connection breaks: the end of the way is lost.
LEMMA WholeBroken ==
    ASSUME NEW st, NEW a \in Seq(Values), NEW q \in Seq(Frames), NEW s,
           NEW n \in 0..Len(q), Whole(st, a, q, s)
    PROVE  Cut(st, a, SubSeq(q, 1, n), s)
<1>1. PICK rest \in Seq(Values) : st = a \o rest /\ Carried(q, s, rest)
  BY DEF Whole
<1>2. PICK m \in 0..Len(rest) : Carried(SubSeq(q, 1, n), s, SubSeq(rest, 1, m))
  BY <1>1, CarriedCut
<1> DEFINE less == SubSeq(rest, 1, m)
           gone == SubSeq(rest, m + 1, Len(rest))
<1>3. less \in Seq(Values) /\ gone \in Seq(Values) /\ less \o gone = rest
  <2>1. /\ Len(rest) \in Nat /\ m \in Nat /\ m <= Len(rest)
        /\ less \in Seq(Values) /\ Len(less) = m
        /\ gone \in Seq(Values) /\ Len(gone) = Len(rest) - m
        /\ \A i \in 1..m : less[i] = rest[i]
        /\ \A i \in 1..Len(rest) - m : gone[i] = rest[m + i]
    OBVIOUS
  <2> HIDE DEF less, gone
  <2>2. less \o gone \in Seq(Values) /\ Len(less \o gone) = Len(rest)
    BY <2>1, ConcatProperties
  <2>3. ASSUME NEW i \in 1..Len(rest) PROVE (less \o gone)[i] = rest[i]
    <3>1. (less \o gone)[i] = IF i <= m THEN less[i] ELSE gone[i - m]
      BY <2>1, ConcatProperties
    <3>2. CASE i <= m
      <4>1. i \in 1..m
        BY <2>1, <3>2
      <4> QED
        BY <2>1, <3>1, <3>2, <4>1
    <3>3. CASE ~(i <= m)
      <4>1. i - m \in 1..Len(rest) - m /\ m + (i - m) = i
        BY <2>1, <3>3
      <4> QED
        BY <2>1, <3>1, <3>3, <4>1
    <3> QED
      BY <3>2, <3>3
  <2> QED
    BY <2>1, <2>2, <2>3, SeqEqual
<1> HIDE DEF less, gone
<1>4. st = (a \o less) \o gone
  <2>1. \A p, r \in Seq(Values) : (a \o p) \o r = a \o (p \o r)
    BY ConcatAssociative
  <2>2. (a \o less) \o gone = a \o (less \o gone)
    BY ONLY <1>3, <2>1
  <2> QED
    BY <1>1, <1>3, <2>2, Zenon
<1>5. Carried(SubSeq(q, 1, n), s, less)
  BY <1>2 DEF less
<1> QED
  BY <1>3, <1>4, <1>5, Zenon DEF Cut

\* The last value that arrived is dropped again.
LEMMA BeginsLess ==
    ASSUME NEW st, NEW a \in Seq(Values), NEW v \in Values, Begins(st, Append(a, v))
    PROVE  Begins(st, a)
<1>1. PICK rest \in Seq(Values) : st = Append(a, v) \o rest
  BY DEF Begins
<1>2. Append(a, v) = a \o <<v>> /\ <<v>> \in Seq(Values)
  BY AppendIsConcat
<1>3. st = a \o (<<v>> \o rest) /\ <<v>> \o rest \in Seq(Values)
  BY <1>1, <1>2, ConcatAssociative, ConcatProperties
<1> QED
  BY <1>3, Zenon DEF Begins

\* What arrived, and what was sent, are sequences of values.
LEMMA ArrivedType ==
    ASSUME TypeOK, NEW s \in Streams
    PROVE  Arrived(s) \in Seq(Values) /\ sent[s] \in Seq(Values)
<1>1. /\ given[s] \in Seq(Values) /\ buf[s] \in Seq(Values)
      /\ incoming[s] \in Seq(Values) /\ sent[s] \in Seq(Good)
  BY DEF TypeOK
<1>2. sent[s] \in Seq(Values)
  BY <1>1 DEF Good
<1>3. (IF xcur.s = s THEN <<xcur.v>> ELSE <<>>) \in Seq(Values)
  <2>1. xcur.s = s => xcur.v \in Values
    BY StreamPathAssumption DEF TypeOK, NoSend, StreamPathAssumption
  <2> QED
    BY <2>1
<1>4. (given[s] \o buf[s]) \o incoming[s] \in Seq(Values)
  BY <1>1, ConcatProperties
<1> QED
  BY <1>2, <1>3, <1>4, ConcatProperties DEF Arrived

\* The hand-overs, for queues of values.
LEMMA ValueQueues ==
    /\ \A p, q, r \in Seq(Values) : (p \o q) \o r = p \o (q \o r)
    /\ \A p, q \in Seq(Values) : q # <<>> =>
         /\ Append(p, Head(q)) \o Tail(q) = p \o q
         /\ Append(p, Head(q)) \in Seq(Values) /\ Tail(q) \in Seq(Values)
    /\ \A p, q \in Seq(Values), v \in Values :
         /\ p \o Append(q, v) = Append(p \o q, v)
         /\ p \o <<v>> = Append(p, v) /\ Append(p, v) \in Seq(Values)
<1>1. \A p, q, r \in Seq(Values) : (p \o q) \o r = p \o (q \o r)
  BY ConcatAssociative
<1>2. ASSUME NEW p \in Seq(Values), NEW q \in Seq(Values), q # <<>>
      PROVE  /\ Append(p, Head(q)) \o Tail(q) = p \o q
             /\ Append(p, Head(q)) \in Seq(Values) /\ Tail(q) \in Seq(Values)
  BY <1>2, MoveHead
<1>3. ASSUME NEW p \in Seq(Values), NEW q \in Seq(Values), NEW v \in Values
      PROVE  /\ p \o Append(q, v) = Append(p \o q, v)
             /\ p \o <<v>> = Append(p, v) /\ Append(p, v) \in Seq(Values)
  <2>1. p \o Append(q, v) = Append(p \o q, v)
    BY ConcatAppend
  <2>2. p \o <<v>> = Append(p, v) /\ Append(p, v) \in Seq(Values)
    BY AppendIsConcat, AppendProperties
  <2> QED
    BY <2>1, <2>2
<1> QED
  BY <1>1, <1>2, <1>3

\* The hand-over between the last two of three queues.
LEMMA ThreeQueues ==
    \A g, p, q \in Seq(Values) : q # <<>> =>
      (g \o Append(p, Head(q))) \o Tail(q) = (g \o p) \o q
<1> SUFFICES ASSUME NEW g \in Seq(Values), NEW p \in Seq(Values), NEW q \in Seq(Values),
                    q # <<>>
             PROVE  (g \o Append(p, Head(q))) \o Tail(q) = (g \o p) \o q
  OBVIOUS
<1> DEFINE r == Append(p, Head(q))
           t == Tail(q)
<1>1. \A x, y, z \in Seq(Values) : (x \o y) \o z = x \o (y \o z)
  BY ValueQueues, Zenon
<1>2. r \in Seq(Values) /\ t \in Seq(Values) /\ r \o t = p \o q
  BY ValueQueues, Zenon
<1> HIDE DEF r, t
<1>3. (g \o r) \o t = g \o (r \o t)
  BY ONLY <1>1, <1>2
<1>4. (g \o p) \o q = g \o (p \o q)
  BY ONLY <1>1
<1>5. (g \o r) \o t = (g \o p) \o q
  BY <1>2, <1>3, <1>4, Zenon
<1> QED
  BY <1>5 DEF r, t

\* What is in the sinks stays there.
LEMMA ArrivedKept ==
    ASSUME NEW s \in Streams, UNCHANGED <<given, buf, incoming, xcur>>
    PROVE  Arrived(s)' = Arrived(s)
  BY DEF Arrived

\* The worker moves values from `incoming' to its list, and from there to the
\* program: nothing is lost or overtaken.
LEMMA ArrivedMoved ==
    ASSUME TypeOK, NEW q \in Streams, NEW s \in Streams, WorkerTake(q) \/ WorkerGive(q)
    PROVE  Arrived(s)' = Arrived(s)
<1> DEFINE x == IF xcur.s = s THEN <<xcur.v>> ELSE <<>>
<1>1. /\ given[s] \in Seq(Values) /\ buf[s] \in Seq(Values)
      /\ incoming[s] \in Seq(Values)
  BY DEF TypeOK
<1>2. xcur' = xcur
  BY DEF WorkerTake, WorkerGive, connVars
<1>3. CASE s # q
  BY <1>2, <1>3 DEF WorkerTake, WorkerGive, TypeOK, Arrived
<1>4. CASE s = q /\ WorkerTake(q)
  <2>1. /\ buf'[s] = Append(buf[s], Head(incoming[s])) /\ incoming'[s] = Tail(incoming[s])
        /\ given'[s] = given[s] /\ incoming[s] # <<>>
    BY <1>4 DEF WorkerTake, TypeOK
  <2>2. (given[s] \o Append(buf[s], Head(incoming[s]))) \o Tail(incoming[s])
          = (given[s] \o buf[s]) \o incoming[s]
    BY <1>1, <2>1, ThreeQueues, Zenon
  <2>3. (given'[s] \o buf'[s]) \o incoming'[s] = (given[s] \o buf[s]) \o incoming[s]
    BY <2>1, <2>2, Zenon
  <2> QED
    BY <1>2, <2>3 DEF Arrived
<1>5. CASE s = q /\ WorkerGive(q)
  <2>1. /\ given'[s] = Append(given[s], Head(buf[s])) /\ buf'[s] = Tail(buf[s])
        /\ incoming'[s] = incoming[s] /\ buf[s] # <<>>
    BY <1>5 DEF WorkerGive, TypeOK
  <2>2. Append(given[s], Head(buf[s])) \o Tail(buf[s]) = given[s] \o buf[s]
    BY ONLY <1>1, <2>1, ValueQueues
  <2>3. given'[s] \o buf'[s] = given[s] \o buf[s]
    BY <2>1, <2>2, Zenon
  <2> QED
    BY <1>2, <2>1, <2>3 DEF Arrived
<1> QED
  BY <1>3, <1>4, <1>5

\* A value that the executor holds has arrived at its sink.
LEMMA ArrivedNext ==
    ASSUME TypeOK, NEW s \in Streams, NEW v \in Values, xcur = NoSend,
           UNCHANGED <<given, buf, incoming>>
    PROVE  /\ xcur' = [s |-> s, v |-> v] => Arrived(s)' = Append(Arrived(s), v)
           /\ xcur'.s # s => Arrived(s)' = Arrived(s)
<1> DEFINE a == (given[s] \o buf[s]) \o incoming[s]
<1>1. a \in Seq(Values)
  BY ConcatProperties DEF TypeOK
<1>2. xcur.s # s
  BY StreamPathAssumption DEF NoSend, StreamPathAssumption
<1>3. a' = a
  OBVIOUS
<1>4. a \o <<>> = a /\ a \o <<v>> = Append(a, v)
  BY <1>1, AppendIsConcat, ConcatEmptySeq
<1>5. Arrived(s) = a /\ (xcur'.s # s => Arrived(s)' = a)
  BY <1>2, <1>4 DEF Arrived
<1>6. ASSUME xcur' = [s |-> s, v |-> v] PROVE Arrived(s)' = Append(a, v)
  <2>1. xcur'.s = s /\ xcur'.v = v
    BY <1>6
  <2> QED
    BY <1>4, <2>1 DEF Arrived
<1> QED
  BY <1>5, <1>6

\* The executor sends the value on, or drops it when the sink is abandoned.
LEMMA ArrivedSent ==
    ASSUME TypeOK, NEW s \in Streams, SendIncoming
    PROVE  /\ xcur \in [s : Streams, v : Values]
           /\ \/ Arrived(s)' = Arrived(s)
              \/ /\ xcur.s = s /\ Abandoned(s)
                 /\ Arrived(s) = Append(Arrived(s)', xcur.v)
<1> DEFINE b == given[s] \o buf[s]
           a == b \o incoming[s]
<1>1. /\ xcur \in [s : Streams, v : Values] /\ xcur' = NoSend
      /\ UNCHANGED <<given, buf>> /\ NoStream # s
  BY StreamPathAssumption DEF TypeOK, SendIncoming, StreamPathAssumption
<1>2. b \in Seq(Values) /\ incoming[s] \in Seq(Values) /\ a \in Seq(Values)
  BY ConcatProperties DEF TypeOK
<1>3. xcur'.s # s
  BY <1>1 DEF NoSend
<1>4. b' = b
  BY <1>1
<1>5. \A p \in Seq(Values) : p \o <<>> = p
  BY ConcatEmptySeq
<1>6. CASE xcur.s # s
  <2>1. incoming'[s] = incoming[s]
    BY <1>1, <1>6 DEF SendIncoming, TypeOK
  <2> QED
    BY <1>1, <1>3, <1>6, <2>1 DEF Arrived
<1>7. CASE xcur.s = s /\ incoming' = [incoming EXCEPT ![xcur.s] = Append(@, xcur.v)]
  <2>1. incoming'[s] = Append(incoming[s], xcur.v) /\ xcur.v \in Values
    BY <1>1, <1>7 DEF TypeOK
  <2>2. /\ b \o Append(incoming[s], xcur.v) = Append(a, xcur.v)
        /\ a \o <<xcur.v>> = Append(a, xcur.v) /\ Append(a, xcur.v) \in Seq(Values)
    <3> HIDE DEF b
    <3>1. b \o Append(incoming[s], xcur.v) = Append(a, xcur.v)
      BY ONLY <1>2, <2>1, ValueQueues
    <3> HIDE DEF a
    <3>2. a \o <<xcur.v>> = Append(a, xcur.v) /\ Append(a, xcur.v) \in Seq(Values)
      BY ONLY <1>2, <2>1, ValueQueues
    <3> QED
      BY <3>1, <3>2
  <2>3. Arrived(s) = Append(a, xcur.v)
    BY <1>7, <2>2 DEF Arrived
  <2>4. Arrived(s)' = Append(a, xcur.v)
    BY <1>1, <1>3, <1>5, <2>1, <2>2 DEF Arrived
  <2> QED
    BY <1>1, <2>3, <2>4
<1>8. CASE xcur.s = s /\ UNCHANGED incoming /\ Abandoned(s)
  <2>1. xcur.v \in Values /\ a \o <<xcur.v>> = Append(a, xcur.v)
    BY <1>1, <1>2, AppendIsConcat
  <2>2. Arrived(s) = Append(a, xcur.v)
    BY <1>8, <2>1 DEF Arrived
  <2>3. Arrived(s)' = a
    BY <1>1, <1>2, <1>3, <1>5, <1>8 DEF Arrived
  <2> QED
    BY <1>1, <1>8, <2>2, <2>3
<1> QED
  BY <1>1, <1>6, <1>7, <1>8 DEF SendIncoming

\* A step that moves no value into or out of the sink of s.
LEMMA DataKept ==
    ASSUME NEW s \in Streams, DataOf(s), sent'[s] = sent[s], Arrived(s)' = Arrived(s),
           Way' = Way, netUp' = netUp,
           \/ cctx'[s] = cctx[s]
           \/ cctx'[s] = "user"
           \/ cctx[s] = "live" /\ cctx'[s] = "chan",
           inflight' \cup handlers' \subseteq inflight \cup handlers
    PROVE  DataOf(s)'
<1>1. Begins(sent[s], Arrived(s))'
  BY Zenon DEF DataOf
<1>2. netUp' /\ cctx'[s] # "user" => Whole(sent[s], Arrived(s), Way, s)'
  BY Zenon DEF DataOf
<1>3. cctx'[s] = "live" /\ s \in inflight' \cup handlers' =>
        Cut(sent[s], Arrived(s), Way, s)'
  <2>1. cctx'[s] = "live" => cctx[s] = "live"
    OBVIOUS
  <2>2. s \in inflight' \cup handlers' => s \in inflight \cup handlers
    OBVIOUS
  <2> QED
    BY <2>1, <2>2, Zenon DEF DataOf
<1> QED
  BY <1>1, <1>2, <1>3, Zenon DEF DataOf

\* The executor takes a frame that carries nothing of s.
LEMMA DataPast ==
    ASSUME TypeOK, NEW s \in Streams, DataOf(s), Way # <<>>, ~Carries(Head(Way), s),
           sent'[s] = sent[s], Arrived(s)' = Arrived(s), Way' = Tail(Way),
           netUp' = netUp, cctx'[s] = cctx[s],
           inflight' \cup handlers' \subseteq inflight \cup handlers
    PROVE  DataOf(s)'
<1>1. Way \in Seq(Frames) /\ Arrived(s) \in Seq(Values)
  BY WayTyped, ArrivedType
<1>2. /\ Whole(sent[s], Arrived(s), Way, s) => Whole(sent[s], Arrived(s), Tail(Way), s)
      /\ Cut(sent[s], Arrived(s), Way, s) => Cut(sent[s], Arrived(s), Tail(Way), s)
  BY ONLY <1>1, Way # <<>>, ~Carries(Head(Way), s), WholePast
<1>3. Begins(sent[s], Arrived(s))'
  BY Zenon DEF DataOf
<1>4. netUp' /\ cctx'[s] # "user" => Whole(sent[s], Arrived(s), Way, s)'
  BY <1>2, Zenon DEF DataOf
<1>5. cctx'[s] = "live" /\ s \in inflight' \cup handlers' =>
        Cut(sent[s], Arrived(s), Way, s)'
  <2>1. s \in inflight' \cup handlers' => s \in inflight \cup handlers
    OBVIOUS
  <2> QED
    BY <1>2, <2>1, Zenon DEF DataOf
<1> QED
  BY <1>3, <1>4, <1>5, Zenon DEF DataOf

\* The types of the way and of what arrived, as a formula about one state.
PathTyped == Way \in Seq(Frames) /\ \A s \in Streams : Arrived(s) \in Seq(Values)

\* They hold with the types of the variables.
LEMMA PathIsTyped == TypeOK => PathTyped
  BY WayTyped, ArrivedType DEF PathTyped

\* A step while the connection holds: of what is not cancelled nothing is
\* gone.
LEMMA DataUp ==
    ASSUME TypeOK', NEW s \in Streams, netUp', Begins(sent[s], Arrived(s))',
           cctx'[s] # "user" => Whole(sent[s], Arrived(s), Way, s)'
    PROVE  DataOf(s)'
<1>1. PathTyped'
  BY PathIsTyped, PTL
<1>2. Way' \in Seq(Frames) /\ Arrived(s)' \in Seq(Values)
  BY <1>1 DEF PathTyped
<1>3. Whole(sent[s], Arrived(s), Way, s)' => Cut(sent[s], Arrived(s), Way, s)'
  <2> DEFINE st == sent'[s]
             a == Arrived(s)'
             q == Way'
  <2>1. a \in Seq(Values) /\ q \in Seq(Frames)
    BY <1>2
  <2> HIDE DEF st, a, q
  <2>2. Whole(st, a, q, s) => Cut(st, a, q, s)
    BY <2>1, WholeCutBegins
  <2> QED
    BY <2>2 DEF st, a, q
<1>4. cctx'[s] = "live" => cctx'[s] # "user"
  OBVIOUS
<1> QED
  BY <1>3, <1>4, Zenon DEF DataOf

\* A value is taken from the channel of a method: it is on the way, unless it
\* cannot be encoded; and one that cannot be decoded does not count.
LEMMA TakeData ==
    ASSUME TypeOK, TypeOK', DataCore, NEW c \in Streams, Take(c), NEW s \in Streams
    PROVE  DataOf(s)'
<1> DEFINE v == made[c] + 1
           f == ValFrame(c, v)
           a == Arrived(s)
           q == Way
           st == sent[s]
<1>1. /\ netUp /\ netUp' /\ cctx' = cctx /\ Arrived(s)' = a /\ frameQ' = frameQ
      /\ sent' = IF v \in Good THEN [sent EXCEPT ![c] = Append(@, v)] ELSE sent
      /\ IF v \in Unencodable THEN wire' = wire ELSE Written(f)
      /\ made[c] \in 0..MaxVals /\ made[c] < Amount[c] /\ Amount[c] \in 0..MaxVals
      /\ MaxVals \in Nat
  BY ArrivedKept, StreamPathAssumption
  DEF Take, connVars, sinkVars, TypeOK, StreamPathAssumption
<1>2. v \in Values
  BY <1>1 DEF Values
<1>3. f \in Frames /\ f.t = "val" /\ f.s = c /\ f.v = v
  BY <1>2 DEF ValFrame, Frames
<1>4. v \notin Unencodable => Way' = Append(q, f)
  BY ONLY TypeOK, <1>1, <1>3, WayWritten
<1>5. v \in Unencodable => Way' = q
  BY <1>1 DEF Way
<1>6. a \in Seq(Values) /\ q \in Seq(Frames) /\ st \in Seq(Values)
  BY ArrivedType, WayTyped
<1>7. Begins(st, a) /\ (cctx[s] # "user" => Whole(st, a, q, s))
  BY <1>1, Zenon DEF DataCore, DataOf
<1>8. CASE s = c /\ v \in Good
  <2>1. sent'[s] = Append(st, v) /\ v \notin Unencodable
    BY <1>1, <1>8 DEF Good, TypeOK
  <2>2. Carries(f, s)
    BY <1>3, <1>8 DEF Carries
  <2> HIDE DEF v, f, a, q, st
  <2>3. Begins(Append(st, v), a)
    BY <1>2, <1>6, <1>7, BeginsSent
  <2>4. Whole(st, a, q, s) => Whole(Append(st, v), a, Append(q, f), s)
    <3>1. Whole(st, a, q, s) => Whole(Append(st, f.v), a, Append(q, f), s)
      BY <1>2, <1>3, <1>6, <2>2, WholeSent
    <3> QED
      BY <1>3, <3>1
  <2>5. Begins(sent[s], Arrived(s))'
    BY <1>1, <2>1, <2>3, Zenon
  <2>6. cctx'[s] # "user" => Whole(sent[s], Arrived(s), Way, s)'
    BY <1>1, <1>4, <1>7, <2>1, <2>4, Zenon
  <2> QED
    BY <1>1, <2>5, <2>6, DataUp
<1>9. CASE ~(s = c /\ v \in Good)
  <2>1. sent'[s] = st
    BY <1>1, <1>9 DEF TypeOK
  <2>2. ~Carries(f, s)
    BY <1>3, <1>9 DEF Carries
  <2> HIDE DEF v, f, a, q, st
  <2>3. Whole(st, a, q, s) => Whole(st, a, Append(q, f), s)
    BY <1>3, <1>6, <2>2, WholeOther
  <2>4. Whole(st, a, q, s) => Whole(st, a, Way', s)
    BY <1>4, <1>5, <2>3, Zenon
  <2>5. Begins(sent[s], Arrived(s))'
    BY <1>1, <1>7, <2>1, Zenon
  <2>6. cctx'[s] # "user" => Whole(sent[s], Arrived(s), Way, s)'
    BY <1>1, <1>7, <2>1, <2>4, Zenon
  <2> QED
    BY <1>1, <2>5, <2>6, DataUp
<1> QED
  BY <1>8, <1>9

\* An answer, or the end of a stream, is written: no value moves.
LEMMA WriteData ==
    ASSUME TypeOK, TypeOK', DataCore, NEW f \in Frames, f.t # "val",
           netUp, netUp', UNCHANGED <<sent, cctx, given, buf, incoming, xcur>>,
           Way' = Append(Way, f), NEW s \in Streams
    PROVE  DataOf(s)'
<1>1. Arrived(s)' = Arrived(s)
  BY ArrivedKept
<1>2. Arrived(s) \in Seq(Values) /\ Way \in Seq(Frames)
  BY ArrivedType, WayTyped
<1>3. Begins(sent[s], Arrived(s))
  BY Zenon DEF DataCore, DataOf
<1>4. cctx[s] # "user" => Whole(sent[s], Arrived(s), Way, s)
  BY Zenon DEF DataCore, DataOf
<1>5. Whole(sent[s], Arrived(s), Way, s) => Whole(sent[s], Arrived(s), Append(Way, f), s)
  <2>1. ~Carries(f, s)
    BY DEF Carries
  <2> QED
    BY <1>2, <2>1, WholeOther
<1>6. Begins(sent[s], Arrived(s))'
  BY <1>1, <1>3, Zenon
<1>7. cctx'[s] # "user" => Whole(sent[s], Arrived(s), Way, s)'
  BY <1>1, <1>4, <1>5, Zenon
<1> QED
  BY <1>6, <1>7, DataUp

\* The connection breaks: the end of the way is gone.
LEMMA BreakData ==
    ASSUME TypeOK, DataCore, Break, NEW s \in Streams
    PROVE  DataOf(s)'
<1>1. /\ netUp /\ ~netUp' /\ Arrived(s)' = Arrived(s) /\ sent' = sent /\ cctx' = cctx
  BY ArrivedKept DEF Break, serverVars, connVars, sinkVars
<1>2. Arrived(s) \in Seq(Values) /\ Way \in Seq(Frames)
  BY ArrivedType, WayTyped
<1>3. PICK n \in 0..Len(Way) : Way' = SubSeq(Way, 1, n)
  BY WayBreak
<1>4. Whole(sent[s], Arrived(s), Way, s) => Cut(sent[s], Arrived(s), SubSeq(Way, 1, n), s)
  BY <1>2, WholeBroken
<1>5. cctx[s] = "live" => Whole(sent[s], Arrived(s), Way, s)
  <2>1. cctx[s] = "live" => cctx[s] # "user"
    OBVIOUS
  <2> QED
    BY <1>1, <2>1, Zenon DEF DataCore, DataOf
<1>6. Begins(sent[s], Arrived(s))'
  BY <1>1, Zenon DEF DataCore, DataOf
<1>7. cctx'[s] = "live" => Cut(sent[s], Arrived(s), Way, s)'
  BY <1>1, <1>3, <1>4, <1>5, Zenon
<1> QED
  BY <1>1, <1>6, <1>7, Zenon DEF DataOf

\* The executor sends the value that it holds, or drops it for a sink that is
\* abandoned: then the program cancelled, since a sink under a value is open.
LEMMA SendData ==
    ASSUME TypeOK, TypeOK', SinkCore, DataCore, SendIncoming, NEW s \in Streams
    PROVE  DataOf(s)'
<1>1. /\ xcur \in [s : Streams, v : Values] /\ xcur # NoSend
      /\ sent' = sent /\ cctx' = cctx /\ netUp' = netUp /\ Way' = Way
      /\ inflight' \cup handlers' \subseteq inflight \cup handlers
  BY ArrivedSent DEF SendIncoming, serverVars, netVars, Way
<1>2. DataOf(s)
  BY DEF DataCore
<1>3. CASE Arrived(s)' = Arrived(s)
  BY ONLY <1>1, <1>2, <1>3, DataKept
<1>4. CASE xcur.s = s /\ Abandoned(s) /\ Arrived(s) = Append(Arrived(s)', xcur.v)
  <2>1. cctx[s] = "user"
    BY <1>1, <1>4 DEF Abandoned, SinkCore, NoSendOnClosed, TypeOK
  <2>2. Begins(sent[s], Arrived(s)) /\ xcur.v \in Values
    BY <1>1, <1>2, Zenon DEF DataOf
  <2>3. PathTyped'
    BY PathIsTyped, PTL
  <2>4. Begins(sent[s], Arrived(s))'
    <3> DEFINE a == Arrived(s)'
               st == sent[s]
    <3>1. a \in Seq(Values) /\ Begins(st, Append(a, xcur.v)) /\ xcur.v \in Values
      BY <1>4, <2>2, <2>3 DEF PathTyped
    <3> HIDE DEF a, st
    <3>2. Begins(st, a)
      BY <3>1, BeginsLess
    <3> QED
      BY <1>1, <3>2 DEF a, st
  <2> QED
    BY <1>1, <2>1, <2>4, Zenon DEF DataOf
<1> QED
  BY <1>3, <1>4, ArrivedSent

\* The executor takes a value: it arrives at its sink.  It is dropped only when
\* it cannot be decoded, or when nothing is promised of its stream any more:
\* one whose answer did not come has no values at the executor, and one whose
\* sink was closed by the other side has none on the way.
LEMMA ValueData ==
    ASSUME TypeOK, TypeOK', Agreement, DataCore, HandleValue, NEW s \in Streams
    PROVE  DataOf(s)'
<1> DEFINE a == Arrived(s)
           h == Head(Way)
           st == sent[s]
<1>1. /\ xcur = NoSend /\ h.t = "val" /\ h.s \in Streams /\ h.v \in Values
      /\ Way # <<>> /\ Way' = Tail(Way) /\ h = Head(frameQ)
      /\ UNCHANGED <<sent, cctx, netUp, inflight, handlers, given, buf, incoming>>
  <2>1. /\ NextFrame("val") /\ Consumed
        /\ UNCHANGED <<sent, cctx, netUp, inflight, handlers, given, buf, incoming, wire>>
    BY DEF HandleValue, serverVars, netVars, sinkVars
  <2> QED
    BY <2>1, ConsumedType, WayConsumed
<1>2. a \in Seq(Values) /\ Way \in Seq(Frames) /\ DataOf(s) /\ h \in Frames
  <2>1. a \in Seq(Values) /\ Way \in Seq(Frames) /\ DataOf(s)
    BY ArrivedType, WayTyped DEF DataCore
  <2> QED
    BY <1>1, <2>1, HeadTailProperties
<1>3. \/ /\ xcur' = [s |-> h.s, v |-> h.v]
         /\ h.s \in handlers /\ h.v \notin Undecodable /\ cctx[h.s] = "live"
      \/ /\ xcur' = NoSend
         /\ h.s \notin handlers \/ h.v \in Undecodable \/ cctx[h.s] # "live"
  BY <1>1 DEF HandleValue
<1>4. FrameLeft(Way, Tail(Way))
  BY <1>2, <1>1, FrameLeaves
<1>5. 1 \in DOMAIN Way /\ Way[1] = h /\ ~Answered(Way, 1)
  BY <1>4 DEF FrameLeft
<1>6. h.v \notin Unencodable
  BY <1>1, <1>5 DEF Agreement, WayCore, FramesFit
<1>7. h.s \notin inflight
  BY <1>1, <1>5 DEF Agreement, AnswerCore, AnswerFirst
<1>8. netUp => h.s \in handlers
  BY <1>1, <1>5 DEF Agreement, AnswerCore, FramesMet
<1>9. \A q \in handlers : q \in Streams /\ cctx[q] # "chan"
  BY DEF Agreement, SinkCore, TypeOK
<1>10. NoStream # s
  BY StreamPathAssumption DEF StreamPathAssumption
<1>11. CASE ~Carries(h, s) /\ a' = a
  BY ONLY TypeOK, <1>1, <1>2, <1>11, DataPast
<1>12. CASE h.s # s \/ h.v \in Undecodable
  <2>1. ~Carries(h, s)
    BY <1>12 DEF Carries, Good
  <2>2. xcur'.s # s
    BY <1>3, <1>10, <1>12 DEF NoSend
  <2>3. a' = a
    BY <1>1, <2>2, ArrivedNext
  <2> QED
    BY <1>11, <2>1, <2>3
<1>13. CASE h.s = s /\ h.v \notin Undecodable /\ xcur' = [s |-> h.s, v |-> h.v]
  <2>1. Carries(h, s) /\ s \in handlers /\ cctx[s] = "live"
    <3>1. xcur'.s = s /\ NoSend.s # s
      BY <1>10, <1>13 DEF NoSend
    <3>2. xcur' # NoSend
      BY <3>1
    <3>3. s \in handlers /\ cctx[s] = "live"
      BY <1>3, <1>13, <3>2
    <3> QED
      BY <1>1, <1>6, <1>13, <3>3 DEF Carries, Good
  <2>2. a' = Append(a, h.v)
    BY <1>1, <1>13, ArrivedNext
  <2>3. /\ Whole(st, a, Way, s) => Whole(st, Append(a, h.v), Tail(Way), s)
        /\ Cut(st, a, Way, s) => Cut(st, Append(a, h.v), Tail(Way), s)
    <3> HIDE DEF a, st
    <3> QED
      BY ONLY <1>1, <1>2, <2>1, WholeNext
  <2>4. Cut(st, a, Way, s)
    BY <1>2, <2>1 DEF DataOf
  <2>5. Cut(sent[s], Arrived(s), Way, s)'
    BY <1>1, <2>2, <2>3, <2>4, Zenon
  <2>6. netUp' => Whole(sent[s], Arrived(s), Way, s)'
    <3>1. cctx[s] # "user"
      BY <2>1
    <3> QED
      BY <1>1, <1>2, <2>2, <2>3, <3>1, Zenon DEF DataOf
  <2>7. Begins(sent[s], Arrived(s))'
    <3>1. PathTyped'
      BY PathIsTyped, PTL
    <3> DEFINE a2 == Arrived(s)'
               q2 == Way'
               st2 == sent'[s]
    <3>2. a2 \in Seq(Values) /\ q2 \in Seq(Frames) /\ Cut(st2, a2, q2, s)
      BY <2>5, <3>1 DEF PathTyped
    <3> HIDE DEF a2, q2, st2
    <3>3. Begins(st2, a2)
      BY <3>2, WholeCutBegins
    <3> QED
      BY <3>3 DEF a2, st2
  <2> QED
    BY <2>5, <2>6, <2>7, Zenon DEF DataOf
<1>14. CASE h.s = s /\ h.v \notin Undecodable /\ xcur' = NoSend
  <2>1. s \notin handlers \/ cctx[s] # "live"
    <3>1. xcur'.s # s
      BY <1>10, <1>14 DEF NoSend
    <3>2. xcur' # [s |-> h.s, v |-> h.v]
      BY <1>14, <3>1
    <3> QED
      BY <1>3, <1>14, <3>2
  <2>2. netUp => cctx[s] = "user"
    <3>1. cctx[s] \in {"live", "user", "chan"}
      BY DEF TypeOK
    <3> QED
      BY <1>8, <1>9, <1>14, <2>1, <3>1
  <2>3. ~(cctx[s] = "live" /\ s \in inflight \cup handlers)
    BY <1>7, <1>14, <2>1
  <2>4. a' = a
    BY <1>1, <1>10, <1>14, ArrivedNext DEF NoSend
  <2> QED
    BY <1>1, <1>2, <2>2, <2>3, <2>4, Zenon DEF DataOf
<1> QED
  BY <1>3, <1>12, <1>13, <1>14

\* Every step keeps every value: where it was, or at the next place.
LEMMA DataStep ==
    TypeOK /\ Agreement /\ DataCore /\ [Next]_vars /\ TypeOK' => DataCore'
<1> SUFFICES ASSUME TypeOK, Agreement, DataCore, [Next]_vars, TypeOK', NEW s \in Streams
             PROVE  DataOf(s)'
  BY DEF DataCore
<1>0. DataOf(s) /\ SinkCore
  BY DEF DataCore, Agreement
<1>1. ASSUME sent' = sent, Arrived(s)' = Arrived(s), Way' = Way, netUp' = netUp,
             cctx' = cctx, inflight' \subseteq inflight,
             handlers' \subseteq handlers
      PROVE  DataOf(s)'
  <2>1. inflight' \cup handlers' \subseteq inflight \cup handlers
    BY <1>1
  <2> QED
    BY ONLY <1>0, <1>1, <2>1, DataKept
<1>2. ASSUME NEW c \in Streams, Take(c) PROVE DataOf(s)'
  BY <1>2, TakeData
<1>3. ASSUME NEW c \in Streams, Register(c) \/ OutClosed(c) PROVE DataOf(s)'
  <2>1. PICK f \in {RespFrame(c), CloseFrame(c)} : Written(f)
    BY <1>3 DEF Register, OutClosed
  <2>2. f \in Frames /\ f.t # "val"
    BY <2>1 DEF RespFrame, CloseFrame, Frames
  <2>3. /\ netUp /\ netUp' /\ UNCHANGED <<sent, cctx, given, buf, incoming, xcur, frameQ>>
    BY <1>3 DEF Register, OutClosed, connVars, sinkVars
  <2>4. Way' = Append(Way, f)
    BY <2>1, <2>2, <2>3, WayWritten
  <2> QED
    BY <2>2, <2>3, <2>4, WriteData
<1>4. CASE Break
  BY <1>4, BreakData
<1>5. CASE SendIncoming
  BY <1>0, <1>5, SendData
<1>6. CASE HandleValue
  BY <1>6, ValueData
<1>7. CASE HandleResponse \/ HandleClose
  <2>1. /\ UNCHANGED <<sent, netUp, cctx, wire, given, buf, incoming, xcur>>
        /\ inflight' \cup handlers' \subseteq inflight \cup handlers
    BY <1>7 DEF HandleResponse, HandleClose, serverVars, netVars
  <2>2. PICK t \in {"resp", "close"} : NextFrame(t) /\ Consumed
    BY <1>7 DEF HandleResponse, HandleClose
  <2>3. Way # <<>> /\ Head(Way).t = t /\ Way' = Tail(Way)
    BY <2>1, <2>2, WayConsumed
  <2>4. ~Carries(Head(Way), s)
    BY <2>2, <2>3 DEF Carries
  <2>5. Arrived(s)' = Arrived(s)
    BY <2>1, ArrivedKept
  <2> QED
    BY <1>0, <2>1, <2>3, <2>4, <2>5, DataPast
<1>8. CASE Read
  <2>1. Way' = Way /\ UNCHANGED <<sent, netUp, cctx, inflight, handlers>>
    BY <1>8, WayRead DEF Read, serverVars, sinkVars
  <2>2. Arrived(s)' = Arrived(s)
    BY <1>8, ArrivedKept DEF Read, sinkVars
  <2> QED
    BY <1>1, <2>1, <2>2
<1>9. CASE ReadFails \/ Loop
  <2>1. /\ UNCHANGED <<sent, netUp, cctx, given, buf, incoming, xcur>> /\ Way' = Way
        /\ inflight' \subseteq inflight /\ handlers' \subseteq handlers
    BY <1>9 DEF ReadFails, Loop, CloseInFlight, SwapHandlers, CloseChan, serverVars,
       netVars, sinkVars, Way
  <2> QED
    BY <1>1, <2>1, ArrivedKept
<1>10. ASSUME NEW c \in Streams, WorkerTake(c) \/ WorkerGive(c) PROVE DataOf(s)'
  <2>1. UNCHANGED <<sent, netUp, cctx, inflight, handlers>> /\ Way' = Way
    BY <1>10 DEF WorkerTake, WorkerGive, serverVars, netVars, connVars, Way
  <2>2. Arrived(s)' = Arrived(s)
    BY <1>10, ArrivedMoved
  <2> QED
    BY <1>1, <2>1, <2>2
<1>11. ASSUME NEW c \in Streams, WorkerReturn(c) \/ UserCancel(c) PROVE DataOf(s)'
  <2>1. /\ UNCHANGED <<sent, netUp, inflight, handlers, given, buf, incoming, xcur>>
        /\ Way' = Way
    BY <1>11 DEF WorkerReturn, UserCancel, serverVars, netVars, connVars, Way
  <2>2. \/ cctx'[s] = cctx[s]
        \/ cctx'[s] = "user"
        \/ cctx[s] = "live" /\ cctx'[s] = "chan"
    BY <1>11 DEF WorkerReturn, UserCancel, TypeOK
  <2>3. Arrived(s)' = Arrived(s)
    BY <2>1, ArrivedKept
  <2>4. inflight' \cup handlers' \subseteq inflight \cup handlers /\ sent'[s] = sent[s]
    BY <2>1
  <2> QED
    BY ONLY <1>0, <2>1, <2>2, <2>3, <2>4, DataKept
<1>12. ASSUME NEW c \in Streams,
              CancelArrives(c) \/ ProducerCloses(c) \/ WorkerNoMore(c) \/ WatchCancel(c)
       PROVE  DataOf(s)'
  <2>1. /\ UNCHANGED <<sent, netUp, cctx, inflight, handlers, given, buf, incoming, xcur>>
        /\ Way' = Way
    BY <1>12 DEF CancelArrives, ProducerCloses, WorkerNoMore, WatchCancel, serverVars,
       netVars, connVars, sinkVars, Way
  <2> QED
    BY <1>1, <2>1, ArrivedKept
<1>13. CASE UNCHANGED vars
  <2>1. /\ UNCHANGED <<sent, netUp, cctx, inflight, handlers, given, buf, incoming, xcur>>
        /\ Way' = Way
    BY <1>13 DEF vars, serverVars, netVars, connVars, sinkVars, Way
  <2> QED
    BY <1>1, <2>1, ArrivedKept
<1> QED
  BY <1>2, <1>3, <1>4, <1>5, <1>6, <1>7, <1>8, <1>9, <1>10, <1>11, <1>12, <1>13
  DEF Next, Server, Executor, WorkerMoves

-----------------------------------------------------------------------------
(* The theorems.                                                           *)

\* Nothing was sent, and nothing is anywhere.
LEMMA DataInit == Init => DataCore
<1> SUFFICES ASSUME Init, NEW s \in Streams PROVE DataOf(s)
  BY DEF DataCore
<1>1. sent[s] = <<>> /\ Arrived(s) = <<>> /\ Way = <<>>
  <2>1. NoStream # s
    BY StreamPathAssumption DEF StreamPathAssumption
  <2> QED
    BY <2>1 DEF Init, Arrived, Way, NoSend
<1>2. <<>> \in Seq(Values) /\ <<>> \in Seq(Frames) /\ <<>> \o <<>> = <<>>
  OBVIOUS
<1>3. Places(<<>>, <<>>, s, <<>>)
  <2>1. Len(<<>>) = 0 /\ 1..0 = {} /\ <<>> \in [1..0 -> 1..0]
    OBVIOUS
  <2> QED
    BY <2>1 DEF Places
<1>4. Carried(<<>>, s, <<>>)
  BY <1>2, <1>3, CarriedPlaces
<1>5. Whole(<<>>, <<>>, <<>>, s)
  BY <1>2, <1>4, Zenon DEF Whole
<1>6. Cut(<<>>, <<>>, <<>>, s) /\ Begins(<<>>, <<>>)
  BY <1>2, <1>5, WholeCutBegins
<1> QED
  BY <1>1, <1>5, <1>6, Zenon DEF DataOf

\* The invariant is an invariant.
LEMMA PathInvariant == Spec => []PathInv
<1>1. Init => PathInv
  BY PathTypeInit, LoopInit, WayInit, DataInit DEF PathInv, Agreement
<1>2. PathInv /\ [Next]_vars => PathInv'
  <2> SUFFICES ASSUME PathInv, [Next]_vars PROVE PathInv'
    OBVIOUS
  <2>1. TypeOK'
    BY PathTypeStep DEF PathInv
  <2>2. Agreement'
    BY LoopStep, SinkStep, WayStep DEF PathInv, Agreement
  <2>3. DataCore'
    BY <2>1, DataStep DEF PathInv
  <2> QED
    BY <2>1, <2>2, <2>3 DEF PathInv
<1> QED
  BY <1>1, <1>2, PTL DEF Spec

\* Every variable has its type, and the bounded queues (wire, frameExecQueue,
\* incoming) stay within their limits, whatever the program reads.
THEOREM PathTypesHold == Spec => []TypeOK
<1>1. PathInv => TypeOK
  BY DEF PathInv
<1> QED
  BY <1>1, PathInvariant, PTL

\* closeChans and handleChanClose never close `incoming' under a value that
\* the executor is sending to it, which would panic.
THEOREM NeverSendsOnClosed == Spec => []NoSendOnClosed
<1>1. PathInv => NoSendOnClosed
  BY DEF PathInv, Agreement, SinkCore
<1> QED
  BY <1>1, PathInvariant, PTL

\* The rest of a sequence of which the beginning is known.
LEMMA RestOf ==
    ASSUME NEW a \in Seq(Values), NEW rest \in Seq(Values)
    PROVE  SubSeq(a \o rest, Len(a) + 1, Len(a \o rest)) = rest
<1> DEFINE st == a \o rest
           w == SubSeq(st, Len(a) + 1, Len(st))
<1>1. /\ st \in Seq(Values) /\ Len(st) = Len(a) + Len(rest)
      /\ Len(a) \in Nat /\ Len(rest) \in Nat
      /\ \A i \in 1..Len(a) + Len(rest) :
           st[i] = IF i <= Len(a) THEN a[i] ELSE rest[i - Len(a)]
  BY ConcatProperties
<1> HIDE DEF st
<1>2. /\ w \in Seq(Values) /\ Len(w) = Len(rest)
      /\ \A i \in 1..Len(rest) : w[i] = st[Len(a) + i]
  BY <1>1
<1> HIDE DEF w
<1>3. ASSUME NEW i \in 1..Len(rest) PROVE w[i] = rest[i]
  <2>1. /\ Len(a) + i \in 1..Len(a) + Len(rest) /\ ~(Len(a) + i <= Len(a))
        /\ (Len(a) + i) - Len(a) = i
    BY <1>1
  <2> QED
    BY <1>1, <1>2, <2>1
<1>4. w = rest
  BY <1>2, <1>3, SeqEqual
<1> QED
  BY <1>4 DEF w, st

\* As long as the connection holds and the program does not cancel, every
\* value that was taken from the channel of a method is in exactly one place,
\* and in order (handleOutChans, frameExecQueue, handleChanMessage, worker).
THEOREM NothingIsLost == Spec => []NothingLost
<1>1. PathInv => NothingLost
  <2> SUFFICES ASSUME PathInv, NEW s \in Streams, netUp, cctx[s] # "user"
               PROVE  LET rest == SubSeq(sent[s], Len(Arrived(s)) + 1, Len(sent[s]))
                      IN  sent[s] = Arrived(s) \o rest /\ Carried(Way, s, rest)
    BY DEF NothingLost
  <2>1. Arrived(s) \in Seq(Values) /\ Whole(sent[s], Arrived(s), Way, s)
    BY ArrivedType DEF PathInv, DataCore, DataOf
  <2>2. PICK rest \in Seq(Values) : sent[s] = Arrived(s) \o rest /\ Carried(Way, s, rest)
    BY <2>1 DEF Whole
  <2>3. SubSeq(sent[s], Len(Arrived(s)) + 1, Len(sent[s])) = rest
    BY <2>1, <2>2, RestOf
  <2> QED
    BY <2>2, <2>3
<1> QED
  BY <1>1, PathInvariant, PTL

-----------------------------------------------------------------------------
(* The path implements the promise of Stream.                              *)

\* The value that the worker gives to the program is the next one that was
\* sent.
LEMMA NextOne ==
    ASSUME NEW st, NEW g \in Seq(Values), NEW b \in Seq(Values), b # <<>>,
           NEW i \in Seq(Values), NEW x \in Seq(Values),
           Begins(st, ((g \o b) \o i) \o x)
    PROVE  Len(g) < Len(st) /\ st[Len(g) + 1] = Head(b)
<1>1. PICK rest \in Seq(Values) : st = (((g \o b) \o i) \o x) \o rest
  BY DEF Begins
<1> DEFINE gb == g \o b
           gbi == gb \o i
           a == gbi \o x
<1>2. /\ gb \in Seq(Values) /\ Len(gb) = Len(g) + Len(b)
      /\ \A k \in 1..Len(g) + Len(b) :
           gb[k] = IF k <= Len(g) THEN g[k] ELSE b[k - Len(g)]
  BY ConcatProperties
<1>3. Len(b) \in Nat \ {0} /\ Len(g) \in Nat /\ Head(b) = b[1]
  BY HeadTailProperties, EmptySeq
<1>4. gb[Len(g) + 1] = Head(b) /\ Len(g) + 1 \in 1..Len(gb)
  <2>1. /\ Len(g) + 1 \in 1..Len(g) + Len(b) /\ ~(Len(g) + 1 <= Len(g))
        /\ (Len(g) + 1) - Len(g) = 1
    BY <1>3
  <2> QED
    BY <1>2, <1>3, <2>1
<1>5. \A p, q \in Seq(Values) : /\ p \o q \in Seq(Values)
                               /\ \A k \in 1..Len(p) : /\ k \in 1..Len(p \o q)
                                                       /\ (p \o q)[k] = p[k]
  <2> SUFFICES ASSUME NEW p \in Seq(Values), NEW q \in Seq(Values)
               PROVE  /\ p \o q \in Seq(Values)
                      /\ \A k \in 1..Len(p) : k \in 1..Len(p \o q) /\ (p \o q)[k] = p[k]
    OBVIOUS
  <2>1. /\ p \o q \in Seq(Values) /\ Len(p \o q) = Len(p) + Len(q)
        /\ Len(p) \in Nat /\ Len(q) \in Nat
        /\ \A k \in 1..Len(p) + Len(q) :
             (p \o q)[k] = IF k <= Len(p) THEN p[k] ELSE q[k - Len(p)]
    BY ConcatProperties
  <2>2. \A k \in 1..Len(p) : k \in 1..Len(p) + Len(q) /\ k <= Len(p)
    BY <2>1
  <2> QED
    BY <2>1, <2>2
<1> HIDE DEF gb
<1>6. gbi \in Seq(Values) /\ Len(g) + 1 \in 1..Len(gbi) /\ gbi[Len(g) + 1] = Head(b)
  BY <1>2, <1>4, <1>5
<1> HIDE DEF gbi
<1>7. a \in Seq(Values) /\ Len(g) + 1 \in 1..Len(a) /\ a[Len(g) + 1] = Head(b)
  BY <1>5, <1>6
<1>8. st = a \o rest
  BY <1>1 DEF gbi, gb
<1> HIDE DEF a
<1>9. /\ st \in Seq(Values) /\ Len(g) + 1 \in 1..Len(st)
      /\ st[Len(g) + 1] = Head(b)
  BY <1>5, <1>7, <1>8
<1> QED
  BY <1>3, <1>9

\* A stream that no frame is about has nothing on the way.
LEMMA NothingCarried ==
    ASSUME NEW q \in Seq(Frames), NEW s, NEW rest \in Seq(Values), Carried(q, s, rest),
           \A i \in 1..Len(q) : q[i].s # s
    PROVE  rest = <<>>
<1>1. PICK at : Places(at, q, s, rest)
  BY CarriedPlaces
<1>2. \A k \in 1..Len(rest) : at[k] \in 1..Len(q) /\ q[at[k]].s = s
  BY <1>1 DEF Places, Carries
<1>3. 1..Len(rest) = {}
  BY <1>2
<1>4. Len(rest) = 0
  BY <1>3
<1> QED
  BY <1>4, EmptySeq

\* A worker that found its `incoming' closed and gave everything away has
\* given all that was sent: the other side closed the channel, and closing
\* is the last thing that is said of a stream.
LEMMA DrainedIsComplete ==
    ASSUME PathInv, NEW s \in Streams, Drained(s), netUp, cctx[s] = "live"
    PROVE  prod[s] = "closed" /\ given[s] = sent[s]
<1>1. /\ worker[s] = "nil" /\ buf[s] = <<>> /\ incClosed[s] /\ incoming[s] = <<>>
      /\ given[s] \in Seq(Values)
  BY DEF Drained, PathInv, Agreement, SinkCore, TypeOK
<1>2. prod[s] = "closed" /\ \A i \in DOMAIN Way : Way[i].s # s
  BY <1>1 DEF PathInv, Agreement, AnswerCore, ClosedOver
<1>3. xcur.s # s
  <2>1. NoStream # s
    BY StreamPathAssumption DEF StreamPathAssumption
  <2> QED
    BY <1>1, <2>1 DEF NoSend, PathInv, Agreement, SinkCore, NoSendOnClosed
<1>4. Arrived(s) = given[s]
  BY <1>1, <1>3, ConcatEmptySeq DEF Arrived
<1>5. PICK rest \in Seq(Values) : sent[s] = Arrived(s) \o rest /\ Carried(Way, s, rest)
  <2>1. cctx[s] # "user"
    OBVIOUS
  <2> QED
    BY <2>1 DEF PathInv, DataCore, DataOf, Whole
<1>6. Way \in Seq(Frames) /\ DOMAIN Way = 1..Len(Way)
  BY WayTyped DEF PathInv
<1>7. rest = <<>>
  BY <1>2, <1>5, <1>6, NothingCarried
<1>8. sent[s] = given[s]
  BY <1>1, <1>4, <1>5, <1>7, ConcatEmptySeq
<1> QED
  BY <1>2, <1>8

\* Every step of the path is, for the observed stream, one of the promise, or
\* nothing that the promise speaks of.
LEMMA PromiseStep == PathInv /\ [Next]_vars => [Promise!Next]_Promise!vars
<1> DEFINE o == Observed
<1> SUFFICES ASSUME PathInv, [Next]_vars PROVE [Promise!Next]_Promise!vars
  OBVIOUS
<1>0. o \in Streams /\ TypeOK
  BY StreamPathAssumption DEF StreamPathAssumption, PathInv
<1>1. ASSUME sent'[o] = sent[o], prod'[o] = prod[o], given'[o] = given[o],
             cctx'[o] = cctx[o], netUp' = netUp,
             worker'[o] = "done" <=> worker[o] = "done"
      PROVE  [Promise!Next]_Promise!vars
  <2>1. UNCHANGED Promise!vars
    BY <1>1 DEF Promise!vars
  <2> QED
    BY <2>1
<1>2. ASSUME NEW s \in Streams, Take(s) PROVE [Promise!Next]_Promise!vars
  <2> DEFINE v == made[s] + 1
  <2>1. /\ UNCHANGED <<prod, given, cctx, worker, netUp>> /\ prod[s] = "open"
        /\ sent' = IF v \in Good THEN [sent EXCEPT ![s] = Append(@, v)] ELSE sent
    BY <1>2 DEF Take, connVars, sinkVars
  <2>2. CASE s = o /\ v \in Good
    <3>1. sent'[o] = Append(sent[o], v)
      BY <1>0, <2>1, <2>2 DEF TypeOK
    <3>2. Promise!Send
      BY <2>1, <2>2, <3>1 DEF Promise!Send
    <3> QED
      BY <3>2 DEF Promise!Next
  <2>3. CASE ~(s = o /\ v \in Good)
    <3>1. sent'[o] = sent[o]
      BY <1>0, <2>1, <2>3 DEF TypeOK
    <3> QED
      BY <1>1, <2>1, <3>1
  <2> QED
    BY <2>2, <2>3
<1>3. ASSUME NEW s \in Streams, Register(s) \/ OutClosed(s) \/ CancelArrives(s)
      PROVE  [Promise!Next]_Promise!vars
  <2>1. UNCHANGED <<sent, given, cctx, netUp, worker>>
    BY <1>3 DEF Register, OutClosed, CancelArrives, sinkVars
  <2>2. prod'[o] = prod[o] \/ (prod[o] = "none" /\ prod'[o] = "open")
    BY <1>0, <1>3 DEF Register, OutClosed, CancelArrives, TypeOK
  <2>3. UNCHANGED Promise!vars
    BY <2>1, <2>2 DEF Promise!vars
  <2> QED
    BY <2>3
<1>4. ASSUME NEW s \in Streams, ProducerCloses(s) PROVE [Promise!Next]_Promise!vars
  <2>1. UNCHANGED <<sent, given, cctx, netUp, worker>>
    BY <1>4 DEF ProducerCloses, netVars, sinkVars
  <2>2. CASE s = o
    <3>1. prod'[o] = "closed"
      BY <1>0, <1>4, <2>2 DEF ProducerCloses, TypeOK
    <3>2. Promise!Close
      BY <2>1, <3>1 DEF Promise!Close
    <3> QED
      BY <3>2 DEF Promise!Next
  <2>3. CASE s # o
    <3>1. prod'[o] = prod[o]
      BY <1>0, <1>4, <2>3 DEF ProducerCloses, TypeOK
    <3> QED
      BY <1>1, <2>1, <3>1
  <2> QED
    BY <2>2, <2>3
<1>5. CASE Break
  <2>1. UNCHANGED <<sent, prod, given, cctx, worker>> /\ ~netUp'
    BY <1>5 DEF Break, serverVars, sinkVars
  <2>2. Promise!Lose
    BY <2>1 DEF Promise!Lose
  <2> QED
    BY <2>2 DEF Promise!Next
<1>6. ASSUME NEW s \in Streams, WorkerGive(s) PROVE [Promise!Next]_Promise!vars
  <2>1. UNCHANGED <<sent, prod, cctx, netUp, worker>>
    BY <1>6 DEF WorkerGive, serverVars, netVars
  <2>2. CASE s = o
    <3>1. /\ given'[o] = Append(given[o], Head(buf[o])) /\ buf[o] # <<>>
          /\ worker[o] # "done"
      BY <1>0, <1>6, <2>2 DEF WorkerGive, TypeOK
    <3>2. /\ given[o] \in Seq(Values) /\ buf[o] \in Seq(Values)
          /\ incoming[o] \in Seq(Values)
      BY <1>0 DEF TypeOK
    <3>3. (IF xcur.s = o THEN <<xcur.v>> ELSE <<>>) \in Seq(Values)
      <4>1. xcur.s = o => xcur.v \in Values
        BY <1>0, StreamPathAssumption DEF TypeOK, NoSend, StreamPathAssumption
      <4> QED
        BY <4>1
    <3>4. Begins(sent[o], Arrived(o))
      BY <1>0 DEF PathInv, DataCore, DataOf
    <3>5. Len(given[o]) < Len(sent[o]) /\ sent[o][Len(given[o]) + 1] = Head(buf[o])
      <4> DEFINE st == sent[o]
                 g == given[o]
                 b == buf[o]
                 i == incoming[o]
                 x == IF xcur.s = o THEN <<xcur.v>> ELSE <<>>
      <4>1. /\ g \in Seq(Values) /\ b \in Seq(Values) /\ b # <<>>
            /\ i \in Seq(Values) /\ x \in Seq(Values)
            /\ Begins(st, ((g \o b) \o i) \o x)
        BY <3>1, <3>2, <3>3, <3>4 DEF Arrived
      <4> HIDE DEF st, g, b, i, x
      <4>2. Len(g) < Len(st) /\ st[Len(g) + 1] = Head(b)
        BY ONLY <4>1, NextOne
      <4> QED
        BY <4>2 DEF st, g, b
    <3>6. Promise!Deliver
      BY <2>1, <3>1, <3>5 DEF Promise!Deliver
    <3> QED
      BY <3>6 DEF Promise!Next
  <2>3. CASE s # o
    <3>1. given'[o] = given[o]
      BY <1>0, <1>6, <2>3 DEF WorkerGive, TypeOK
    <3> QED
      BY <1>1, <2>1, <3>1
  <2> QED
    BY <2>2, <2>3
<1>7. ASSUME NEW s \in Streams, UserCancel(s) PROVE [Promise!Next]_Promise!vars
  <2>1. UNCHANGED <<sent, prod, given, netUp, worker>>
    BY <1>7 DEF UserCancel, serverVars, netVars
  <2>2. CASE s = o
    <3>1. cctx'[o] = "user"
      BY <1>0, <1>7, <2>2 DEF UserCancel, TypeOK
    <3>2. Promise!Cancel
      BY <2>1, <3>1 DEF Promise!Cancel
    <3> QED
      BY <3>2 DEF Promise!Next
  <2>3. CASE s # o
    <3>1. cctx'[o] = cctx[o]
      BY <1>0, <1>7, <2>3 DEF UserCancel, TypeOK
    <3> QED
      BY <1>1, <2>1, <3>1
  <2> QED
    BY <2>2, <2>3
<1>8. ASSUME NEW s \in Streams, WorkerReturn(s) PROVE [Promise!Next]_Promise!vars
  <2>1. UNCHANGED <<sent, prod, given, netUp>>
    BY <1>8 DEF WorkerReturn, serverVars, netVars
  <2>2. CASE s = o
    <3>1. /\ worker'[o] = "done"
          /\ cctx'[o] = IF cctx[o] = "live" THEN "chan" ELSE cctx[o]
          /\ Drained(o) \/ (worker[o] \in {"run", "nil"} /\ cctx[o] # "live")
      BY <1>0, <1>8, <2>2 DEF WorkerReturn, TypeOK
    <3>2. cctx[o] # "chan"
      BY <1>0, <3>1 DEF Drained, PathInv, Agreement, SinkCore
    <3>3. cctx[o] = "live" \/ cctx[o] = "user"
      BY <1>0, <3>2 DEF TypeOK
    <3>4. cctx'[o] = "user" <=> cctx[o] = "user"
      BY <3>1, <3>3
    <3>5. \/ prod[o] = "closed" /\ given[o] = sent[o]
          \/ cctx[o] = "user"
          \/ ~netUp
      <4>1. CASE netUp /\ cctx[o] = "live"
        BY <1>0, <3>1, <4>1, DrainedIsComplete
      <4> QED
        BY <3>3, <4>1
    <3>6. Promise!End
      BY <2>1, <3>1, <3>4, <3>5 DEF Promise!End, Promise!Complete
    <3> QED
      BY <3>6 DEF Promise!Next
  <2>3. CASE s # o
    <3>1. worker'[o] = worker[o] /\ cctx'[o] = cctx[o]
      BY <1>0, <1>8, <2>3 DEF WorkerReturn, TypeOK
    <3> QED
      BY <1>1, <2>1, <3>1
  <2> QED
    BY <2>2, <2>3
<1>9. CASE HandleResponse
  <2>1. UNCHANGED <<sent, prod, given, cctx, netUp>>
    BY <1>9 DEF HandleResponse, serverVars, netVars
  <2>2. worker'[o] = "done" <=> worker[o] = "done"
    <3>1. \/ worker' = worker
          \/ \E s \in inflight : worker' = [worker EXCEPT ![s] = "run"]
      BY <1>9 DEF HandleResponse
    <3>2. \A s \in inflight : s \in Streams /\ worker[s] = "none"
      BY DEF PathInv, Agreement, SinkCore, TypeOK
    <3> QED
      BY <1>0, <3>1, <3>2 DEF TypeOK
  <2> QED
    BY <1>1, <2>1, <2>2
<1>10. ASSUME NEW s \in Streams, WorkerNoMore(s) PROVE [Promise!Next]_Promise!vars
  <2>1. UNCHANGED <<sent, prod, given, cctx, netUp>>
    BY <1>10 DEF WorkerNoMore, serverVars, netVars
  <2>2. worker'[o] = "done" <=> worker[o] = "done"
    BY <1>0, <1>10 DEF WorkerNoMore, TypeOK
  <2> QED
    BY <1>1, <2>1, <2>2
<1>11. CASE Read \/ ReadFails \/ Loop \/ HandleValue \/ SendIncoming \/ HandleClose
  <2>1. UNCHANGED <<sent, prod, given, cctx, netUp, worker>>
    BY <1>11 DEF Read, ReadFails, Loop, CloseInFlight, SwapHandlers, CloseChan,
       HandleValue, SendIncoming, HandleClose, serverVars, netVars, sinkVars
  <2> QED
    BY <1>1, <2>1
<1>12. ASSUME NEW s \in Streams, WorkerTake(s) \/ WatchCancel(s)
       PROVE  [Promise!Next]_Promise!vars
  <2>1. UNCHANGED <<sent, prod, given, cctx, netUp, worker>>
    BY <1>12 DEF WorkerTake, WatchCancel, serverVars, netVars
  <2> QED
    BY <1>1, <2>1
<1>13. CASE UNCHANGED vars
  <2>1. UNCHANGED <<sent, prod, given, cctx, netUp, worker>>
    BY <1>13 DEF vars, serverVars, netVars, sinkVars
  <2> QED
    BY <1>1, <2>1
<1> QED
  BY <1>2, <1>3, <1>4, <1>5, <1>6, <1>7, <1>8, <1>9, <1>10, <1>11, <1>12, <1>13
  DEF Next, Server, Executor, WorkerMoves

\* What the library promises of a channel that a method returns (Stream) is
\* what the path does: the program reads what the method wrote, in order and
\* without gaps, and sees its channel closed only after all of it, unless it
\* cancelled or the connection was lost.
THEOREM PathKeepsPromise == Spec => KeepsPromise
<1>1. Init => Promise!Init
  <2> SUFFICES ASSUME Init PROVE Promise!Init
    OBVIOUS
  <2>1. Observed \in Streams
    BY StreamPathAssumption DEF StreamPathAssumption
  <2> QED
    BY <2>1 DEF Init, Promise!Init
<1> QED
  BY <1>1, PathInvariant, PromiseStep, PTL DEF Spec, KeepsPromise, Promise!Spec
=============================================================================
