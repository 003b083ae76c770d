------------------------- MODULE ClientStreamProofs -------------------------
(* Theorems about the streams of ClientConn, for every value of its        *)
(* constants: who owns a sink, and which values reach it.                  *)
(*                                                                         *)
(* The frames in transit are those in frameExecQueue, the one readFrame    *)
(* holds, and those on the wire, in this order.                            *)
EXTENDS ClientSinkProofs, SequenceTheorems

InTransit == Len(frameQ) + Len(rbuf) + Len(s2c)
Places == 1..InTransit

Frame(i) ==
    IF i <= Len(frameQ) THEN frameQ[i]
    ELSE IF i <= Len(frameQ) + Len(rbuf) THEN rbuf[i - Len(frameQ)]
    ELSE s2c[i - Len(frameQ) - Len(rbuf)]

\* Frame i answers c with the channel id k; frame i belongs to stream k.
Answers(i, c, k) == Frame(i).t = "resp" /\ Frame(i).c = c /\ Frame(i).ch = k
OfStream(i, k) == Frame(i).t \in {"val", "close"} /\ Frame(i).ch = k

\* Call c has the channel id k in the table, or is about to.
Holds(c, k) ==
    \/ handlers[k] = <<c, 1>>
    \/ inflight[c] # 0 /\ xpc = "publish" /\ xreq.c = c /\ xreq.ch = k

\* ... or will, when the frames in transit have been executed.  An answer to
\* a request that is not in flight any more is a claim to nothing.
Claims(c, k) ==
    Holds(c, k) \/ (inflight[c] # 0 /\ \E i \in Places : Answers(i, c, k))

\* readFrame holds at most one frame.
OneRead == Len(rbuf) = IF rpc = "put" THEN 1 ELSE 0

\* A call without the retry tag has one attempt, and before it is accepted
\* nobody knows its id.
SentOnce ==
    \A c \in ChanCalls :
        /\ att[c] = 1 /\ cpc[c] # "sleep"
        /\ cpc[c] = "submit" =>
             /\ ~Writing(c)
             /\ \A s \in srv : s[1] # c
             /\ \A i \in Places : Frame(i).c = c => Frame(i).t # "resp"
             /\ ~(xpc = "publish" /\ xreq.c = c)

\* Whatever is about a channel is about the one attempt of a stream call.
OfStreamCall(c, a) == c \in ChanCalls /\ a = 1

ChannelsOfStreamCalls ==
    /\ Writing(mreq.c) /\ mreq.c \in ChanCalls => mreq.a = 1
    /\ \A s \in srv : s[1] \in ChanCalls => s[2] = 1
    /\ \A i \in Places : Frame(i).ch # 0 => OfStreamCall(Frame(i).c, Frame(i).a)
    /\ xpc = "publish" /\ xreq.ch # 0 => OfStreamCall(xreq.c, xreq.a)
    /\ \A k \in Chids : handlers[k] # NoSink =>
         OfStreamCall(handlers[k][1], handlers[k][2])

\* The server of the current connection numbers its streams upwards.
StreamsNumbered ==
    /\ \A st \in streams : st[1] <= nchan /\ OfStreamCall(st[2][1], st[2][2])
    /\ \A st \in streams : \A tu \in streams : st[1] = tu[1] => st = tu

\* A channel id has one claimant, who was given it by the server of the
\* current connection; while a reconnect is on its way there is none.
OneClaimant ==
    \A k \in Chids : \A c \in ChanCalls : Claims(c, k) =>
        /\ k <= nchan /\ gpc = "none"
        /\ \A d \in ChanCalls : Claims(d, k) => d = c
        /\ \A st \in streams : st[1] = k => st[2][1] = c

\* The frames of stream k that will find its holder are those of its own
\* stream: frames of an earlier connection are in front of the answer.
OwnFramesOnly ==
    \A k \in Chids : \A c \in ChanCalls : \A j \in Places : OfStream(j, k) =>
        /\ Holds(c, k) => Frame(j).c = c
        /\ \A i \in Places : i < j /\ inflight[c] # 0 /\ Answers(i, c, k) =>
             Frame(j).c = c

EmptiedBeforeDial == mpc = "rcChans" => \A c \in Calls : inflight[c] = 0

OpenOwned == \A s \in Sinks : sink[s] = "open" => Handled(s) \/ InHand(s)

FrameCore == OneRead /\ SentOnce /\ ChannelsOfStreamCalls /\ StreamsNumbered
             /\ OneClaimant /\ OwnFramesOnly /\ EmptiedBeforeDial

OwnedCore == OpenOwned /\ FramesReachOwnSink

StreamInv == HandlerInv /\ TransportInv /\ FrameCore /\ OwnedCore

\* The frames in transit after a step were in transit before it, in the same
\* order; m says where.
Thinned(m) ==
    \A i \in Places' :
        /\ m[i] \in Places /\ Frame(i)' = Frame(m[i])
        /\ \A j \in Places' : i < j => m[i] < m[j]

SomeThinned == \E m : Thinned(m)

\* Every place holds a frame.
LEMMA TransitTyped ==
    ASSUME TypeInv
    PROVE  /\ Len(frameQ) \in Nat /\ Len(rbuf) \in Nat /\ Len(s2c) \in Nat
           /\ InTransit \in Nat
           /\ \A i \in Places : Frame(i) \in Frames /\ i \in Nat
<1>1. frameQ \in Seq(Frames) /\ rbuf \in Seq(Frames) /\ s2c \in Seq(Frames)
  BY DEF TypeInv, TypeOK
<1>2. Len(frameQ) \in Nat /\ Len(rbuf) \in Nat /\ Len(s2c) \in Nat
  BY <1>1, LenProperties
<1>3. ASSUME NEW i \in Places PROVE Frame(i) \in Frames /\ i \in Nat
  <2>1. i \in Nat /\ i >= 1 /\ i <= Len(frameQ) + Len(rbuf) + Len(s2c)
    BY <1>2 DEF Places, InTransit
  <2>2. CASE i <= Len(frameQ)
    BY <1>1, <1>2, <2>1, <2>2, ElementOfSeq DEF Frame
  <2>3. CASE i > Len(frameQ) /\ i <= Len(frameQ) + Len(rbuf)
    <3>1. i - Len(frameQ) \in 1..Len(rbuf)
      BY <1>2, <2>1, <2>3
    <3>2. rbuf[i - Len(frameQ)] \in Frames
      BY <1>1, <3>1, ElementOfSeq
    <3> QED
      BY <1>2, <2>1, <2>3, <3>2 DEF Frame
  <2>4. CASE i > Len(frameQ) + Len(rbuf)
    <3>1. i - Len(frameQ) - Len(rbuf) \in 1..Len(s2c)
      BY <1>2, <2>1, <2>4
    <3>2. s2c[i - Len(frameQ) - Len(rbuf)] \in Frames
      BY <1>1, <3>1, ElementOfSeq
    <3> QED
      BY <1>2, <2>1, <2>4, <3>2 DEF Frame
  <2> QED
    BY <1>2, <2>1, <2>2, <2>3, <2>4
<1> QED
  BY <1>2, <1>3 DEF InTransit

\* Nothing moves.
LEMMA ThinnedSame ==
    ASSUME UNCHANGED <<frameQ, rbuf, s2c>> PROVE SomeThinned
<1> DEFINE m == [i \in Places |-> i]
<1>1. Places' = Places /\ \A i : Frame(i)' = Frame(i)
  BY DEF Places, InTransit, Frame
<1>2. Thinned(m)
  BY <1>1 DEF Thinned
<1> QED
  BY <1>2 DEF SomeThinned

\* readFrame moves a frame from the wire to its hands, and from there to the
\* queue of the executor.
LEMMA ThinnedRead ==
    ASSUME TypeInv, OneRead, ReadBody \/ Enqueue PROVE SomeThinned /\ OneRead'
<1> DEFINE m == [i \in Places |-> i]
<1>1. frameQ \in Seq(Frames) /\ rbuf \in Seq(Frames) /\ s2c \in Seq(Frames)
  BY DEF TypeInv, TypeOK
<1>2. Len(frameQ) \in Nat /\ Len(rbuf) \in Nat /\ Len(s2c) \in Nat
  BY TransitTyped
<1>3. CASE ReadBody
  <2>1. /\ s2c # <<>> /\ s2c' = Tail(s2c) /\ rbuf' = <<Head(s2c)>>
        /\ frameQ' = frameQ /\ Len(rbuf) = 0 /\ rpc' = "put"
    BY <1>3 DEF ReadBody, OneRead
  <2>2. /\ Len(s2c') = Len(s2c) - 1 /\ Len(rbuf') = 1
        /\ \A i \in 1..Len(s2c') : s2c'[i] = s2c[i+1]
        /\ Head(s2c) = s2c[1] /\ rbuf'[1] = s2c[1]
    BY <1>1, <2>1, HeadTailProperties
  <2>3. Places' = Places
    BY <1>2, <2>1, <2>2 DEF Places, InTransit
  <2>4. ASSUME NEW i \in Places PROVE Frame(i)' = Frame(i)
    <3>1. i \in Nat /\ i >= 1 /\ i <= Len(frameQ) + Len(s2c)
      BY <1>2, <2>1 DEF Places, InTransit
    <3>2. CASE i <= Len(frameQ)
      BY <2>1, <3>2 DEF Frame
    <3>3. CASE i = Len(frameQ) + 1
      BY <1>2, <2>1, <2>2, <3>3 DEF Frame
    <3>4. CASE i > Len(frameQ) + 1
      <4>1. i - Len(frameQ) - 1 \in 1..Len(s2c')
        BY <1>2, <2>2, <3>1, <3>4
      <4>2. s2c'[i - Len(frameQ) - 1] = s2c[i - Len(frameQ)]
        BY <1>2, <2>2, <3>1, <4>1
      <4> QED
        BY <1>2, <2>1, <2>2, <3>1, <3>4, <4>2 DEF Frame
    <3> QED
      BY <1>2, <3>1, <3>2, <3>3, <3>4
  <2>5. Thinned(m)
    BY <2>3, <2>4 DEF Thinned
  <2> QED
    BY <2>1, <2>2, <2>5 DEF SomeThinned, OneRead
<1>4. CASE Enqueue
  <2>1. /\ rbuf' = <<>> /\ frameQ' = Append(frameQ, rbuf[1]) /\ rpc' = "next"
        /\ s2c' = s2c /\ Len(rbuf) = 1
    BY <1>4 DEF Enqueue, Queued, OneRead, netVars
  <2>2. rbuf[1] \in Frames
    <3>1. 1 \in 1..Len(rbuf)
      BY <2>1
    <3> QED
      BY <1>1, <3>1, ElementOfSeq
  <2>3. /\ Len(frameQ') = Len(frameQ) + 1 /\ Len(rbuf') = 0
        /\ \A i \in 1..Len(frameQ) : frameQ'[i] = frameQ[i]
        /\ frameQ'[Len(frameQ) + 1] = rbuf[1]
    BY <1>1, <2>1, <2>2, AppendProperties
  <2>4. Places' = Places
    BY <1>2, <2>1, <2>3 DEF Places, InTransit
  <2>5. ASSUME NEW i \in Places PROVE Frame(i)' = Frame(i)
    <3>1. i \in Nat /\ i >= 1
      BY <1>2 DEF Places, InTransit
    <3> QED
      BY <1>2, <2>1, <2>3, <3>1 DEF Frame
  <2>6. Thinned(m)
    BY <2>4, <2>5 DEF Thinned
  <2> QED
    BY <2>1, <2>3, <2>6 DEF SomeThinned, OneRead
<1> QED
  BY <1>3, <1>4

\* A goroutine that ends drops the frame in its hands.
LEMMA ThinnedDropped ==
    ASSUME TypeInv, rbuf' = <<>>, UNCHANGED <<frameQ, s2c>> PROVE SomeThinned
<1> DEFINE m == [i \in Places' |-> IF i <= Len(frameQ) THEN i ELSE i + Len(rbuf)]
<1>1. Len(frameQ) \in Nat /\ Len(rbuf) \in Nat /\ Len(s2c) \in Nat
  BY TransitTyped
<1>2. Places' = 1..(Len(frameQ) + Len(s2c))
  BY <1>1 DEF Places, InTransit
<1>3. ASSUME NEW i \in Places' PROVE m[i] \in Places /\ Frame(i)' = Frame(m[i])
  <2>1. i \in Nat /\ i >= 1 /\ i <= Len(frameQ) + Len(s2c)
    BY <1>1, <1>2
  <2>2. CASE i <= Len(frameQ)
    BY <1>1, <2>1, <2>2 DEF Places, InTransit, Frame
  <2>3. CASE i > Len(frameQ)
    <3>1. m[i] = i + Len(rbuf) /\ m[i] \in Places
      BY <1>1, <2>1, <2>3 DEF Places, InTransit
    <3>2. Frame(i)' = s2c[i - Len(frameQ)]
      BY <1>1, <2>1, <2>3 DEF Frame
    <3>3. Frame(i + Len(rbuf)) = s2c[i + Len(rbuf) - Len(frameQ) - Len(rbuf)]
      BY <1>1, <2>1, <2>3 DEF Frame
    <3>4. i + Len(rbuf) - Len(frameQ) - Len(rbuf) = i - Len(frameQ)
      BY <1>1, <2>1
    <3> QED
      BY <3>1, <3>2, <3>3, <3>4
  <2> QED
    BY <1>1, <2>1, <2>2, <2>3
<1>4. \A i, j \in Places' : i < j => m[i] < m[j]
  BY <1>1, <1>2
<1>5. Thinned(m)
  BY <1>3, <1>4 DEF Thinned
<1> QED
  BY <1>5 DEF SomeThinned

\* The executor takes the first frame.
LEMMA ThinnedTaken ==
    ASSUME TypeInv, frameQ # <<>>, frameQ' = Tail(frameQ),
           UNCHANGED <<rbuf, s2c>>
    PROVE  /\ Thinned([i \in Places' |-> i + 1])
           /\ 1 \in Places /\ Frame(1) = Head(frameQ)
           /\ \A i \in Places' : /\ i + 1 \in Places /\ 1 < i + 1
                                 /\ Frame(i)' = Frame(i + 1)
<1> DEFINE m == [i \in Places' |-> i + 1]
<1>1. frameQ \in Seq(Frames)
  BY DEF TypeInv, TypeOK
<1>2. Len(frameQ) \in Nat /\ Len(rbuf) \in Nat /\ Len(s2c) \in Nat
  BY TransitTyped
<1>3. /\ Len(frameQ) >= 1 /\ Len(frameQ') = Len(frameQ) - 1
      /\ \A i \in 1..Len(frameQ') : frameQ'[i] = frameQ[i+1]
      /\ Head(frameQ) = frameQ[1]
  BY <1>1, <1>2, HeadTailProperties, EmptySeq
<1>4. Places' = 1..(InTransit - 1) /\ InTransit = Len(frameQ) + Len(rbuf) + Len(s2c)
  BY <1>2, <1>3 DEF Places, InTransit
<1>5. ASSUME NEW i \in Places' PROVE m[i] \in Places /\ Frame(i)' = Frame(m[i])
  <2>1. i \in Nat /\ i >= 1 /\ i <= InTransit - 1 /\ m[i] = i + 1
    BY <1>2, <1>4
  <2>2. m[i] \in Places
    BY <1>2, <1>4, <2>1 DEF Places
  <2>3. CASE i <= Len(frameQ')
    <3>1. i \in 1..Len(frameQ') /\ i + 1 <= Len(frameQ)
      BY <1>2, <1>3, <2>1, <2>3
    <3>2. Frame(i)' = frameQ'[i] /\ Frame(i + 1) = frameQ[i + 1]
      BY <2>3, <3>1 DEF Frame
    <3> QED
      BY <1>3, <2>1, <2>2, <3>1, <3>2
  <2>4. CASE i > Len(frameQ')
    <3>1. /\ i - Len(frameQ') = i + 1 - Len(frameQ)
          /\ i - Len(frameQ') - Len(rbuf) = i + 1 - Len(frameQ) - Len(rbuf)
          /\ i <= Len(frameQ') + Len(rbuf) <=> i + 1 <= Len(frameQ) + Len(rbuf)
          /\ i + 1 > Len(frameQ)
      BY <1>2, <1>3, <2>1, <2>4
    <3>2. Frame(i)' = IF i <= Len(frameQ') + Len(rbuf) THEN rbuf[i - Len(frameQ')]
                      ELSE s2c[i - Len(frameQ') - Len(rbuf)]
      BY <1>2, <1>3, <2>1, <2>4 DEF Frame
    <3>3. Frame(i + 1) = IF i + 1 <= Len(frameQ) + Len(rbuf)
                         THEN rbuf[i + 1 - Len(frameQ)]
                         ELSE s2c[i + 1 - Len(frameQ) - Len(rbuf)]
      BY <1>2, <2>1, <3>1 DEF Frame
    <3> QED
      BY <2>1, <2>2, <3>1, <3>2, <3>3
  <2> QED
    BY <1>2, <1>3, <2>1, <2>2, <2>3, <2>4
<1>6. \A i, j \in Places' : i < j => m[i] < m[j]
  BY <1>2, <1>4
<1>7. Thinned(m)
  BY <1>5, <1>6 DEF Thinned
<1>8. \A i \in Places' : i + 1 \in Places /\ 1 < i + 1 /\ Frame(i)' = Frame(i + 1)
  BY <1>2, <1>4, <1>5
<1>9. 1 \in Places /\ Frame(1) = Head(frameQ)
  BY <1>2, <1>3 DEF Places, InTransit, Frame
<1> QED
  BY <1>7, <1>8, <1>9

\* The network loses the last frames of the wire, or the wire is replaced.
LEMMA ThinnedCut ==
    ASSUME TypeInv, NEW k \in 0..Len(s2c), s2c' = SubSeq(s2c, 1, k),
           UNCHANGED <<frameQ, rbuf>>
    PROVE  SomeThinned
<1> DEFINE m == [i \in Places' |-> i]
<1>1. s2c \in Seq(Frames)
  BY DEF TypeInv, TypeOK
<1>2. Len(frameQ) \in Nat /\ Len(rbuf) \in Nat /\ Len(s2c) \in Nat
  BY TransitTyped
<1>3. /\ Len(s2c') = k /\ k <= Len(s2c) /\ k \in Nat
      /\ \A i \in 1..k : s2c'[i] = s2c[i]
  BY <1>1, <1>2
<1>4. Places' = 1..(Len(frameQ) + Len(rbuf) + k)
  BY <1>2, <1>3 DEF Places, InTransit
<1>5. ASSUME NEW i \in Places' PROVE i \in Places /\ Frame(i)' = Frame(i)
  <2>1. i \in Nat /\ i >= 1 /\ i <= Len(frameQ) + Len(rbuf) + k
    BY <1>2, <1>3, <1>4
  <2>2. i \in Places
    BY <1>2, <1>3, <2>1 DEF Places, InTransit
  <2>3. i > Len(frameQ) + Len(rbuf) => i - Len(frameQ) - Len(rbuf) \in 1..k
    BY <1>2, <1>3, <2>1
  <2>4. i > Len(frameQ) + Len(rbuf) =>
          s2c'[i - Len(frameQ) - Len(rbuf)] = s2c[i - Len(frameQ) - Len(rbuf)]
    BY <1>3, <2>3
  <2> QED
    BY <1>2, <2>1, <2>2, <2>4 DEF Frame
<1>6. Thinned(m)
  BY <1>5 DEF Thinned
<1> QED
  BY <1>6 DEF SomeThinned

\* The server sends one more frame.
LEMMA TransitGrows ==
    ASSUME TypeInv, NEW f \in Frames, s2c' = Append(s2c, f),
           UNCHANGED <<frameQ, rbuf>>
    PROVE  /\ InTransit' = InTransit + 1
           /\ Places' = Places \cup {InTransit + 1}
           /\ \A i \in Places : i < InTransit + 1 /\ Frame(i)' = Frame(i)
           /\ \A i : i = InTransit + 1 => Frame(i)' = f
<1>1. s2c \in Seq(Frames)
  BY DEF TypeInv, TypeOK
<1>2. Len(frameQ) \in Nat /\ Len(rbuf) \in Nat /\ Len(s2c) \in Nat
  BY TransitTyped
<1>3. /\ Len(s2c') = Len(s2c) + 1 /\ s2c'[Len(s2c) + 1] = f
      /\ \A i \in 1..Len(s2c) : s2c'[i] = s2c[i]
  BY <1>1, AppendProperties
<1>4. InTransit' = InTransit + 1 /\ InTransit = Len(frameQ) + Len(rbuf) + Len(s2c)
  BY <1>2, <1>3 DEF InTransit
<1>5. Places' = Places \cup {InTransit + 1}
  BY <1>2, <1>4 DEF Places
<1>6. ASSUME NEW i \in Places PROVE i < InTransit + 1 /\ Frame(i)' = Frame(i)
  <2>1. i \in Nat /\ i >= 1 /\ i <= Len(frameQ) + Len(rbuf) + Len(s2c)
    BY <1>2, <1>4 DEF Places
  <2>2. i > Len(frameQ) + Len(rbuf) => i - Len(frameQ) - Len(rbuf) \in 1..Len(s2c)
    BY <1>2, <2>1
  <2> QED
    BY <1>2, <1>3, <1>4, <2>1, <2>2 DEF Frame
<1>7. ASSUME NEW i, i = InTransit + 1 PROVE Frame(i)' = f
  <2>1. ~(i <= Len(frameQ)) /\ ~(i <= Len(frameQ) + Len(rbuf))
        /\ i - Len(frameQ) - Len(rbuf) = Len(s2c) + 1
    BY <1>2, <1>4, <1>7
  <2> QED
    BY <1>3, <1>4, <2>1 DEF Frame
<1> QED
  BY <1>4, <1>5, <1>6, <1>7

\* Executed, lost or forgotten: no step of these kinds gives a call a claim
\* or a frame of another stream, and a call that is accepted has no frames.
LEMMA ClaimsKept ==
    ASSUME TypeInv, SentOnce, OwnFramesOnly, NEW m, Thinned(m),
           \A c \in ChanCalls : inflight'[c] # 0 => inflight[c] # 0 \/ cpc[c] = "submit",
           \A k \in Chids : handlers'[k] # NoSink => handlers'[k] = handlers[k],
           xpc' = "publish" => xpc = "publish" /\ xreq' = xreq
    PROVE  /\ \A c \in ChanCalls, k \in Chids : Claims(c, k)' => Claims(c, k)
           /\ OwnFramesOnly'
<1>1. \A s \in Sinks : s # NoSink
  BY ClientConnAssumption DEF ClientConnAssumption, Sinks, Attempts
<1>2. \A c \in ChanCalls : <<c, 1>> \in Sinks
  BY ClientConnAssumption DEF ClientConnAssumption, Sinks, Attempts
<1>3. ASSUME NEW c \in ChanCalls, NEW k \in Chids, Holds(c, k)' PROVE Holds(c, k)
  BY <1>1, <1>2, <1>3 DEF Holds, SentOnce
<1>4. ASSUME NEW c \in ChanCalls, NEW k \in Chids, NEW i \in Places',
             inflight'[c] # 0, Answers(i, c, k)'
      PROVE  m[i] \in Places /\ inflight[c] # 0 /\ Answers(m[i], c, k)
  BY <1>4 DEF Thinned, Answers, SentOnce
<1>5. ASSUME NEW c \in ChanCalls, NEW k \in Chids, Claims(c, k)' PROVE Claims(c, k)
  BY <1>3, <1>4, <1>5 DEF Claims
<1>6. OwnFramesOnly'
  <2> SUFFICES ASSUME NEW k \in Chids, NEW c \in ChanCalls, NEW j \in Places',
                      OfStream(j, k)'
               PROVE  /\ Holds(c, k)' => Frame(j)'.c = c
                      /\ \A i \in Places' : i < j /\ inflight'[c] # 0 /\ Answers(i, c, k)'
                           => Frame(j)'.c = c
    BY DEF OwnFramesOnly
  <2>1. m[j] \in Places /\ OfStream(m[j], k) /\ Frame(j)' = Frame(m[j])
    BY DEF Thinned, OfStream
  <2>2. Holds(c, k)' => Frame(j)'.c = c
    BY <1>3, <2>1 DEF OwnFramesOnly
  <2>3. ASSUME NEW i \in Places', i < j, inflight'[c] # 0, Answers(i, c, k)'
        PROVE  Frame(j)'.c = c
    <3>1. m[i] < m[j]
      BY <2>3 DEF Thinned
    <3> QED
      BY <1>4, <2>1, <2>3, <3>1 DEF OwnFramesOnly
  <2> QED
    BY <2>2, <2>3
<1> QED
  BY <1>5, <1>6

\* Nobody else's claim appears while the server and the reconnect do nothing.
LEMMA OneClaimantKept ==
    ASSUME OneClaimant, nchan' = nchan, streams' \subseteq streams,
           gpc = "none" => gpc' = "none",
           \A c \in ChanCalls, k \in Chids : Claims(c, k)' => Claims(c, k)
    PROVE  OneClaimant'
  BY DEF OneClaimant

\* An unaccepted call stays unknown: only doRequest submits a call, and only
\* handleRpcCall submits it again, when it has the retry tag.
LEMMA SentOnceKept ==
    ASSUME SentOnce, SomeThinned,
           \A c \in ChanCalls :
              /\ att'[c] = att[c] /\ cpc'[c] # "sleep"
              /\ cpc'[c] = "submit" =>
                   /\ cpc[c] = "submit"
                   /\ Writing(c)' => Writing(c)
                   /\ \A s \in srv' : s[1] = c => s \in srv
                   /\ xpc' = "publish" /\ xreq'.c = c => xpc = "publish" /\ xreq.c = c
    PROVE  SentOnce'
<1>1. PICK m : Thinned(m)
  BY DEF SomeThinned
<1> SUFFICES ASSUME NEW c \in ChanCalls, cpc'[c] = "submit"
             PROVE  /\ ~Writing(c)'
                    /\ \A s \in srv' : s[1] # c
                    /\ \A i \in Places' : Frame(i)'.c = c => Frame(i)'.t # "resp"
                    /\ ~(xpc' = "publish" /\ xreq'.c = c)
  BY DEF SentOnce
<1>2. ~Writing(c)' /\ (\A s \in srv' : s[1] # c) /\ ~(xpc' = "publish" /\ xreq'.c = c)
  BY DEF SentOnce
<1>3. \A i \in Places' : Frame(i)'.c = c => Frame(i)'.t # "resp"
  BY <1>1 DEF SentOnce, Thinned
<1> QED
  BY <1>2, <1>3

\* Whatever is about a channel stays about the one attempt of a stream call.
LEMMA ChannelsKept ==
    ASSUME ChannelsOfStreamCalls, SomeThinned,
           Writing(mreq.c)' /\ mreq'.c \in ChanCalls => mreq'.a = 1,
           \A s \in srv' : s[1] \in ChanCalls => s \in srv \/ s[2] = 1,
           xpc' = "publish" => xpc = "publish" /\ xreq' = xreq,
           \A k \in Chids : handlers'[k] # NoSink => handlers'[k] = handlers[k]
    PROVE  ChannelsOfStreamCalls'
<1>1. PICK m : Thinned(m)
  BY DEF SomeThinned
<1>2. \A i \in Places' : Frame(i)'.ch # 0 => OfStreamCall(Frame(i)'.c, Frame(i)'.a)
  BY <1>1 DEF Thinned, ChannelsOfStreamCalls
<1> QED
  BY <1>2 DEF ChannelsOfStreamCalls, OfStreamCall

\* Steps of callers, loop, reader, streams, network and reconnect that
\* accept, answer and open nothing.
LEMMA FrameCoreKept ==
    ASSUME TypeInv, FrameCore, SomeThinned, OneRead', EmptiedBeforeDial',
           nchan' = nchan, streams' \subseteq streams,
           gpc = "none" => gpc' = "none",
           \A c \in ChanCalls :
              /\ att'[c] = att[c] /\ cpc'[c] # "sleep"
              /\ cpc'[c] = "submit" => cpc[c] = "submit"
              /\ inflight'[c] # 0 => inflight[c] # 0,
           mpc' = "write" => mreq'.kind = "cancel" \/ UNCHANGED <<mpc, mreq>>,
           srv' \subseteq srv,
           xpc' = "publish" => xpc = "publish" /\ xreq' = xreq,
           \A k \in Chids : handlers'[k] # NoSink => handlers'[k] = handlers[k]
    PROVE  FrameCore'
<1>1. PICK m : Thinned(m)
  BY DEF SomeThinned
<1>2. /\ \A c \in ChanCalls, k \in Chids : Claims(c, k)' => Claims(c, k)
      /\ OwnFramesOnly'
  BY <1>1, ClaimsKept DEF FrameCore
<1>3. OneClaimant'
  BY <1>2, OneClaimantKept DEF FrameCore
<1>4. \A c \in ChanCalls : Writing(c)' => Writing(c)
  BY DEF Writing
<1>5. SentOnce'
  BY <1>4, SentOnceKept DEF FrameCore
<1>6. ChannelsOfStreamCalls'
  <2>1. Writing(mreq.c)' /\ mreq'.c \in ChanCalls => mreq'.a = 1
    BY DEF FrameCore, ChannelsOfStreamCalls, Writing
  <2> QED
    BY <2>1, ChannelsKept DEF FrameCore
<1>7. StreamsNumbered'
  BY DEF FrameCore, StreamsNumbered
<1> QED
  BY <1>2, <1>3, <1>5, <1>6, <1>7 DEF FrameCore

\* The request that the loop accepts, the write of one, and the steps of a
\* caller.
LEMMA FrameCaller ==
    ASSUME ChanCalls \cap RetryCalls = {}, StreamInv,
           WriteOk \/ \E c \in Calls : Caller(c)
    PROVE  FrameCore'
<1>1. TypeInv /\ FrameCore
  BY DEF StreamInv, HandlerInv, CallsInv
<1>2. /\ cpc \in [Calls -> CallerStates] /\ att \in [Calls -> Attempts]
      /\ inflight \in [Calls -> 0..MaxAttempts]
      /\ ChanCalls \subseteq Calls /\ ChanCalls \cap NotifyCalls = {}
  BY <1>1, ClientConnAssumption DEF TypeInv, TypeOK, ClientConnAssumption
<1>3. SentOnce
  BY <1>1 DEF FrameCore
<1>4. ASSUME NEW c \in Calls, AcceptRequest(c) PROVE FrameCore'
  <2>1. /\ mpc = "select" /\ mpc' \in {"select", "write"}
        /\ cpc[c] = "submit" /\ cpc' = [cpc EXCEPT ![c] = "wait"]
        /\ inflight' = inflight \/ inflight' = [inflight EXCEPT ![c] = att[c]]
        /\ mpc' = "write" => mreq' = [kind |-> "call", c |-> c, a |-> att[c]]
        /\ UNCHANGED <<att, frameQ, rbuf, s2c, rpc, handlers, xpc, xreq, nchan,
                       streams, srv, gpc>>
    BY <1>4 DEF AcceptRequest, netVars, serverVars, backVars, readVars,
       execVars, sinkVars, dialVars
  <2>2. PICK m : Thinned(m)
    BY <2>1, ThinnedSame DEF SomeThinned
  <2>3. \A d \in ChanCalls : inflight'[d] # 0 => inflight[d] # 0 \/ cpc[d] = "submit"
    BY <1>2, <2>1
  <2>4. /\ \A d \in ChanCalls, k \in Chids : Claims(d, k)' => Claims(d, k)
        /\ OwnFramesOnly'
    BY <1>1, <2>1, <2>2, <2>3, ClaimsKept DEF FrameCore
  <2>5. OneClaimant'
    BY <1>1, <2>1, <2>4, OneClaimantKept DEF FrameCore
  <2>6. \A d \in ChanCalls :
          /\ att'[d] = att[d] /\ cpc'[d] # "sleep"
          /\ cpc'[d] = "submit" => cpc[d] = "submit" /\ ~Writing(d)'
    BY <1>2, <1>3, <2>1 DEF SentOnce, Writing
  <2>7. SentOnce'
    BY <1>3, <2>1, <2>2, <2>6, SentOnceKept DEF SomeThinned
  <2>8. Writing(mreq.c)' /\ mreq'.c \in ChanCalls => mreq'.a = 1
    BY <1>3, <2>1 DEF Writing, SentOnce
  <2>9. ChannelsOfStreamCalls'
    BY <1>1, <2>1, <2>2, <2>8, ChannelsKept DEF FrameCore, SomeThinned
  <2>10. StreamsNumbered' /\ OneRead' /\ EmptiedBeforeDial'
    BY <1>1, <2>1 DEF FrameCore, StreamsNumbered, OneRead, EmptiedBeforeDial
  <2> QED
    BY <2>4, <2>5, <2>7, <2>9, <2>10 DEF FrameCore
<1>5. ASSUME WriteOk PROVE FrameCore'
  <2>1. /\ mpc = "write" /\ mpc' = "select"
        /\ UNCHANGED <<cpc, att, inflight, frameQ, rbuf, s2c, rpc, handlers,
                       xpc, xreq, nchan, streams, gpc>>
        /\ \A s \in srv' : s \in srv \/ (s = <<mreq.c, mreq.a>> /\ mreq.kind = "call")
    BY <1>5 DEF WriteOk, readVars, execVars, sinkVars, dialVars
  <2>2. PICK m : Thinned(m)
    BY <2>1, ThinnedSame DEF SomeThinned
  <2>3. /\ \A d \in ChanCalls, k \in Chids : Claims(d, k)' => Claims(d, k)
        /\ OwnFramesOnly'
    BY <1>1, <2>1, <2>2, ClaimsKept DEF FrameCore
  <2>4. OneClaimant'
    BY <1>1, <2>1, <2>3, OneClaimantKept DEF FrameCore
  <2>5. \A d \in ChanCalls : cpc'[d] = "submit" =>
          ~Writing(d)' /\ \A s \in srv' : s[1] = d => s \in srv
    BY <1>3, <2>1 DEF SentOnce, Writing
  <2>6. SentOnce'
    BY <1>3, <2>1, <2>2, <2>5, SentOnceKept DEF SomeThinned, SentOnce
  <2>7. /\ ~Writing(mreq.c)'
        /\ \A s \in srv' : s[1] \in ChanCalls => s \in srv \/ s[2] = 1
    BY <1>1, <2>1 DEF FrameCore, ChannelsOfStreamCalls, Writing
  <2>8. ChannelsOfStreamCalls'
    BY <1>1, <2>1, <2>2, <2>7, ChannelsKept DEF FrameCore, SomeThinned
  <2>9. StreamsNumbered' /\ OneRead' /\ EmptiedBeforeDial'
    BY <1>1, <2>1 DEF FrameCore, StreamsNumbered, OneRead, EmptiedBeforeDial
  <2> QED
    BY <2>3, <2>4, <2>6, <2>8, <2>9 DEF FrameCore
<1>6. ASSUME NEW c \in Calls,
             \/ LeaveSubmit(c) \/ LeaveWait(c) \/ SeeCtxDone(c)
             \/ AcceptCancel(c) \/ GiveUpCancel(c) \/ Retry(c)
      PROVE  FrameCore'
  <2>1. UNCHANGED <<inflight, frameQ, rbuf, s2c, rpc, handlers, xpc, xreq,
                    nchan, streams, srv, gpc>>
    BY <1>6 DEF LeaveSubmit, LeaveWait, SeeCtxDone, AcceptCancel, GiveUpCancel,
       Retry, mainVars, netVars, serverVars, backVars, readVars, execVars,
       sinkVars, dialVars
  <2>2. mpc' = "write" => mreq'.kind = "cancel" \/ UNCHANGED <<mpc, mreq>>
    BY <1>6 DEF LeaveSubmit, LeaveWait, SeeCtxDone, AcceptCancel, GiveUpCancel,
       Retry, mainVars
  <2>3. mpc' = mpc \/ mpc' = "write"
    BY <1>6 DEF LeaveSubmit, LeaveWait, SeeCtxDone, AcceptCancel, GiveUpCancel,
       Retry, mainVars
  <2>4. ASSUME NEW d \in ChanCalls
        PROVE  /\ att'[d] = att[d] /\ cpc'[d] # "sleep"
               /\ cpc'[d] = "submit" => cpc[d] = "submit"
    <3>1. d \in Calls /\ d \notin RetryCalls /\ cpc[d] # "sleep"
      BY <1>2, <1>3 DEF SentOnce
    <3>2. CASE Retry(c)
      <4>1. d # c /\ cpc' = [cpc EXCEPT ![c] = "submit"]
            /\ att' = [att EXCEPT ![c] = att[c] + 1]
        BY <3>1, <3>2 DEF Retry
      <4> QED
        BY <1>2, <3>1, <4>1
    <3>3. CASE ~Retry(c)
      <4>1. att' = att
        BY <1>6, <3>3 DEF LeaveSubmit, LeaveWait, SeeCtxDone, AcceptCancel,
           GiveUpCancel
      <4>2. \/ cpc' = [cpc EXCEPT ![c] = "done"]
            \/ cpc' = [cpc EXCEPT ![c] = "wait"]
            \/ cpc' = [cpc EXCEPT ![c] = "cancel"]
            \/ cpc' = [cpc EXCEPT ![c] = "sleep"] /\ c \in RetryCalls
        BY <1>6, <3>3 DEF LeaveSubmit, LeaveWait, SeeCtxDone, AcceptCancel,
           GiveUpCancel
      <4> QED
        BY <1>2, <3>1, <4>1, <4>2
    <3> QED
      BY <3>2, <3>3
  <2>5. OneRead' /\ EmptiedBeforeDial' /\ SomeThinned
    BY <1>1, <2>1, <2>3, ThinnedSame DEF FrameCore, OneRead, EmptiedBeforeDial
  <2> QED
    BY <1>1, <2>1, <2>2, <2>4, <2>5, FrameCoreKept
<1> QED
  BY <1>4, <1>5, <1>6 DEF Caller

\* handleResponse: the claim of an answer in flight becomes that of the
\* executor, and then the entry of the table.
LEMMA FrameExecutor ==
    ASSUME StreamInv, Executor \/ ChanMessagePanics
    PROVE  FrameCore'
<1>1. TypeInv /\ FrameCore
  BY DEF StreamInv, HandlerInv, CallsInv
<1>2. /\ att \in [Calls -> Attempts]
      /\ inflight \in [Calls -> 0..MaxAttempts]
      /\ handlers \in [Chids -> Sinks \cup {NoSink}]
      /\ ChanCalls \subseteq Calls /\ NoSink \notin Sinks
      /\ xpc = "publish" => xreq \in ExecReqs
  BY <1>1, ClientConnAssumption
  DEF TypeInv, TypeOK, HeldOK, ClientConnAssumption, Sinks, Attempts
<1>3. SentOnce /\ OwnFramesOnly /\ ChannelsOfStreamCalls /\ OneClaimant
  BY <1>1 DEF FrameCore
<1>4. ASSUME LookupResponse PROVE FrameCore'
  <2> DEFINE f == Head(frameQ)
  <2>1. /\ xpc = "idle" /\ frameQ # <<>> /\ frameQ' = Tail(frameQ)
        /\ f.t = "resp"
        /\ UNCHANGED <<cpc, att, mpc, mreq, inflight, rbuf, s2c, rpc, handlers,
                       nchan, streams, srv, gpc>>
    BY <1>4 DEF LookupResponse, NextFrame, frontVars, callerVars, mainVars,
       netVars, serverVars, dialVars
  <2>2. \/ UNCHANGED <<xpc, xreq>>
        \/ /\ inflight[f.c] # 0 /\ xpc' = "publish"
           /\ xreq' = [kind |-> "resp", c |-> f.c, a |-> inflight[f.c],
                       src |-> f.a, ch |-> f.ch]
    BY <1>4 DEF LookupResponse
  <2>3. PICK m : /\ Thinned(m) /\ 1 \in Places /\ Frame(1) = f
                 /\ \A i \in Places' : m[i] \in Places /\ 1 < m[i]
                                       /\ Frame(i)' = Frame(m[i])
    <3>1. Thinned([i \in Places' |-> i + 1])
      BY <1>1, <2>1, ThinnedTaken
    <3>2. /\ 1 \in Places /\ Frame(1) = f
          /\ \A i \in Places' : /\ i + 1 \in Places /\ 1 < i + 1
                                /\ Frame(i)' = Frame(i + 1)
      BY <1>1, <2>1, ThinnedTaken
    <3> QED
      BY <3>1, <3>2
  <2>4. OneRead' /\ EmptiedBeforeDial' /\ SomeThinned
    BY <1>1, <2>1, <2>3 DEF FrameCore, OneRead, EmptiedBeforeDial, SomeThinned
  <2>5. CASE UNCHANGED <<xpc, xreq>>
    BY <1>1, <1>3, <2>1, <2>4, <2>5, FrameCoreKept DEF SentOnce
  <2>6. CASE ~UNCHANGED <<xpc, xreq>>
    <3>1. /\ inflight[f.c] # 0 /\ xpc' = "publish" /\ xreq'.c = f.c
          /\ xreq'.a = inflight[f.c] /\ xreq'.ch = f.ch
      BY <2>2, <2>6
    <3>2. f \in Frames /\ f.c \in Calls
      BY <1>1, <2>3, TransitTyped DEF Frames
    <3>3. ASSUME NEW c \in ChanCalls, NEW k \in Chids, Holds(c, k)'
          PROVE  Holds(c, k) \/ (inflight[c] # 0 /\ c = f.c /\ k = f.ch
                                 /\ Answers(1, c, k))
      BY <2>1, <2>3, <3>1, <3>3 DEF Holds, Answers
    <3>4. ASSUME NEW c \in ChanCalls, NEW k \in Chids, NEW i \in Places',
                 Answers(i, c, k)'
          PROVE  Answers(m[i], c, k)
      BY <2>3, <3>4 DEF Answers
    <3>5. \A c \in ChanCalls, k \in Chids : Claims(c, k)' => Claims(c, k)
      BY <2>1, <2>3, <3>3, <3>4 DEF Claims
    <3>6. OneClaimant'
      BY <1>3, <2>1, <3>5, OneClaimantKept
    <3>7. OwnFramesOnly'
      <4> SUFFICES ASSUME NEW k \in Chids, NEW c \in ChanCalls, NEW j \in Places',
                          OfStream(j, k)'
                   PROVE  /\ Holds(c, k)' => Frame(j)'.c = c
                          /\ \A i \in Places' : i < j /\ inflight'[c] # 0
                               /\ Answers(i, c, k)' => Frame(j)'.c = c
        BY DEF OwnFramesOnly
      <4>1. /\ m[j] \in Places /\ 1 < m[j] /\ OfStream(m[j], k)
            /\ Frame(j)' = Frame(m[j])
        BY <2>3 DEF OfStream
      <4>2. Holds(c, k)' => Frame(j)'.c = c
        BY <1>3, <2>3, <3>3, <4>1 DEF OwnFramesOnly
      <4>3. ASSUME NEW i \in Places', i < j, inflight'[c] # 0, Answers(i, c, k)'
            PROVE  Frame(j)'.c = c
        <5>1. m[i] \in Places /\ m[i] < m[j]
          BY <2>3, <4>3 DEF Thinned
        <5> QED
          BY <1>3, <2>1, <3>4, <4>1, <4>3, <5>1 DEF OwnFramesOnly
      <4> QED
        BY <4>2, <4>3
    <3>8. SentOnce'
      <4>1. f.c \in ChanCalls => cpc[f.c] # "submit"
        BY <1>3, <2>1, <2>3 DEF SentOnce
      <4>2. \A c \in ChanCalls : Writing(c)' => Writing(c)
        BY <2>1 DEF Writing
      <4>3. \A c \in ChanCalls :
              /\ att'[c] = att[c] /\ cpc'[c] # "sleep"
              /\ cpc'[c] = "submit" =>
                   /\ cpc[c] = "submit"
                   /\ Writing(c)' => Writing(c)
                   /\ \A s \in srv' : s[1] = c => s \in srv
                   /\ xpc' = "publish" /\ xreq'.c = c => xpc = "publish" /\ xreq.c = c
        BY <1>3, <2>1, <3>1, <4>1, <4>2 DEF SentOnce
      <4> QED
        BY <1>3, <2>4, <4>3, SentOnceKept
    <3>9. ChannelsOfStreamCalls'
      <4>1. \A i \in Places' : Frame(i)'.ch # 0 => OfStreamCall(Frame(i)'.c, Frame(i)'.a)
        BY <1>3, <2>3 DEF ChannelsOfStreamCalls
      <4>2. f.ch # 0 => f.c \in ChanCalls
        BY <1>3, <2>3 DEF ChannelsOfStreamCalls, OfStreamCall
      <4>3. f.c \in ChanCalls => inflight[f.c] = 1
        BY <1>3, <3>1, <3>2
        DEF SentOnce, StreamInv, HandlerInv, CallsInv, CallsCore, InflightUnanswered
      <4>4. xreq'.ch # 0 => OfStreamCall(xreq'.c, xreq'.a)
        BY <3>1, <4>2, <4>3 DEF OfStreamCall
      <4> QED
        BY <1>3, <2>1, <4>1, <4>4 DEF ChannelsOfStreamCalls, Writing, OfStreamCall
    <3>10. StreamsNumbered'
      BY <1>1, <2>1 DEF FrameCore, StreamsNumbered
    <3> QED
      BY <2>4, <3>6, <3>7, <3>8, <3>9, <3>10 DEF FrameCore
  <2> QED
    BY <2>5, <2>6
<1>5. ASSUME PublishResponse PROVE FrameCore'
  <2>1. /\ xpc = "publish" /\ xpc' = "idle"
        /\ UNCHANGED <<cpc, att, mpc, mreq, frameQ, rbuf, s2c, rpc,
                       nchan, streams, srv, gpc>>
    BY <1>5 DEF PublishResponse, netVars, serverVars, readVars, dialVars
  <2>2. PICK m : Thinned(m)
    BY <2>1, ThinnedSame DEF SomeThinned
  <2>3. OneRead' /\ StreamsNumbered' /\ SomeThinned
    BY <1>1, <2>1, <2>2 DEF FrameCore, OneRead, StreamsNumbered, SomeThinned
  <2>4. SentOnce'
    BY <1>3, <2>1, <2>3, SentOnceKept DEF SentOnce, Writing
  <2>5. xreq.c \in Calls /\ xreq.a \in Attempts /\ xreq.ch \in 0..MaxChan
    BY <1>2, <2>1 DEF ExecReqs
  <2>6. CASE PublishRefused \/ xreq.ch = 0
    <3>1. /\ UNCHANGED handlers
          /\ \A c \in Calls : inflight'[c] # 0 => inflight'[c] = inflight[c]
          /\ \A c \in Calls : inflight[c] = 0 => inflight'[c] = 0
      BY <1>2, <1>5, <2>5, <2>6 DEF PublishResponse, Unregistered
    <3>2. EmptiedBeforeDial'
      BY <1>1, <2>1, <3>1 DEF FrameCore, EmptiedBeforeDial
    <3> QED
      BY <1>1, <1>2, <1>3, <2>1, <2>3, <3>1, <3>2, FrameCoreKept DEF SentOnce
  <2>7. CASE ~PublishRefused /\ xreq.ch # 0
    <3> DEFINE d == xreq.c
               n == xreq.ch
    <3>1. /\ inflight[d] = xreq.a /\ inflight' = [inflight EXCEPT ![d] = 0]
          /\ handlers' = [handlers EXCEPT ![n] = <<d, xreq.a>>]
      BY <1>5, <2>7 DEF PublishResponse, PublishRefused, SameRequest, Unregistered
    <3>2. d \in ChanCalls /\ xreq.a = 1 /\ n \in Chids
      BY <1>3, <2>1, <2>5, <2>7 DEF ChannelsOfStreamCalls, OfStreamCall, Chids
    <3>3. /\ inflight'[d] = 0 /\ inflight[d] # 0
          /\ \A c \in Calls : c # d => inflight'[c] = inflight[c]
          /\ \A k \in Chids : handlers'[k] = IF k = n THEN <<d, 1>> ELSE handlers[k]
      BY <1>2, <2>5, <3>1, <3>2
    <3>4. ASSUME NEW c \in ChanCalls, NEW k \in Chids, Holds(c, k)' PROVE Holds(c, k)
      BY <2>1, <3>2, <3>3, <3>4 DEF Holds
    <3>5. ASSUME NEW c \in ChanCalls, NEW i \in Places', NEW k \in Chids,
                 inflight'[c] # 0, Answers(i, c, k)'
          PROVE  m[i] \in Places /\ inflight[c] # 0 /\ Answers(m[i], c, k)
      BY <1>2, <2>2, <3>3, <3>5 DEF Thinned, Answers
    <3>6. \A c \in ChanCalls, k \in Chids : Claims(c, k)' => Claims(c, k)
      BY <3>4, <3>5 DEF Claims
    <3>7. OneClaimant'
      BY <1>3, <2>1, <3>6, OneClaimantKept
    <3>8. OwnFramesOnly'
      <4> SUFFICES ASSUME NEW k \in Chids, NEW c \in ChanCalls, NEW j \in Places',
                          OfStream(j, k)'
                   PROVE  /\ Holds(c, k)' => Frame(j)'.c = c
                          /\ \A i \in Places' : i < j /\ inflight'[c] # 0
                               /\ Answers(i, c, k)' => Frame(j)'.c = c
        BY DEF OwnFramesOnly
      <4>1. m[j] \in Places /\ OfStream(m[j], k) /\ Frame(j)' = Frame(m[j])
        BY <2>2 DEF Thinned, OfStream
      <4>2. Holds(c, k)' => Frame(j)'.c = c
        BY <1>3, <3>4, <4>1 DEF OwnFramesOnly
      <4>3. ASSUME NEW i \in Places', i < j, inflight'[c] # 0, Answers(i, c, k)'
            PROVE  Frame(j)'.c = c
        <5>1. m[i] < m[j]
          BY <2>2, <4>3 DEF Thinned
        <5> QED
          BY <1>3, <3>5, <4>1, <4>3, <5>1 DEF OwnFramesOnly
      <4> QED
        BY <4>2, <4>3
    <3>9. EmptiedBeforeDial'
      BY <1>1, <1>2, <2>1, <3>3 DEF FrameCore, EmptiedBeforeDial
    <3>10. ChannelsOfStreamCalls'
      <4>1. \A i \in Places' : Frame(i)'.ch # 0 => OfStreamCall(Frame(i)'.c, Frame(i)'.a)
        BY <1>3, <2>2 DEF ChannelsOfStreamCalls, Thinned
      <4>2. \A k \in Chids : handlers'[k] # NoSink =>
              OfStreamCall(handlers'[k][1], handlers'[k][2])
        BY <1>3, <3>2, <3>3 DEF ChannelsOfStreamCalls, OfStreamCall
      <4> QED
        BY <1>3, <2>1, <4>1, <4>2 DEF ChannelsOfStreamCalls, Writing
    <3> QED
      BY <2>3, <2>4, <3>7, <3>8, <3>9, <3>10 DEF FrameCore
  <2> QED
    BY <2>6, <2>7
<1>6. ASSUME ChanMessage \/ ChanMessagePanics \/ ChanClose PROVE FrameCore'
  <2>1. /\ frameQ # <<>> /\ frameQ' = Tail(frameQ) /\ xpc = "idle"
        /\ UNCHANGED <<cpc, att, mpc, mreq, inflight, rbuf, s2c, rpc, xreq,
                       nchan, streams, srv, gpc>>
        /\ xpc' # "publish"
    BY <1>6 DEF ChanMessage, ChanMessagePanics, ChanClose, NextFrame, frontVars,
       callerVars, mainVars, netVars, serverVars, execVars, dialVars
  <2>2. \A k \in Chids : handlers'[k] # NoSink => handlers'[k] = handlers[k]
    BY <1>2, <1>6, Zenon DEF ChanMessage, ChanMessagePanics, ChanClose, Unhandled, sinkVars
  <2>3. SomeThinned
    BY <1>1, <2>1, ThinnedTaken DEF SomeThinned
  <2>4. OneRead' /\ EmptiedBeforeDial'
    BY <1>1, <2>1 DEF FrameCore, OneRead, EmptiedBeforeDial
  <2> QED
    BY <1>1, <1>3, <2>1, <2>2, <2>3, <2>4, FrameCoreKept DEF SentOnce
<1>7. ASSUME ExecQuit PROVE FrameCore'
  <2>1. UNCHANGED <<cpc, att, mpc, mreq, inflight, frameQ, rbuf, s2c, rpc, xreq,
                    handlers, nchan, streams, srv, gpc>> /\ xpc' = "done"
    BY <1>7 DEF ExecQuit, frontVars, callerVars, mainVars, netVars, serverVars,
       readVars, sinkVars, dialVars
  <2>2. OneRead' /\ EmptiedBeforeDial' /\ SomeThinned
    BY <1>1, <2>1, ThinnedSame DEF FrameCore, OneRead, EmptiedBeforeDial
  <2> QED
    BY <1>1, <1>3, <2>1, <2>2, FrameCoreKept DEF SentOnce
<1> QED
  BY <1>4, <1>5, <1>6, <1>7 DEF Executor

\* The server gives an answer the next channel id of its connection, and
\* sends the values and the end of a stream under the id of its own.
LEMMA FrameServer ==
    ASSUME StreamInv, (\E s \in Sinks : ServerReply(s)) \/ ServerValue \/ ServerClose
    PROVE  FrameCore'
<1>1. TypeInv /\ FrameCore
  BY DEF StreamInv, HandlerInv, CallsInv
<1>2. SentOnce /\ OwnFramesOnly /\ ChannelsOfStreamCalls /\ OneClaimant
      /\ StreamsNumbered
  BY <1>1 DEF FrameCore
<1>3. /\ srv \subseteq Sinks /\ streams \subseteq (Chids \X Sinks)
      /\ nchan \in 0..MaxChan /\ MaxChan \in Nat /\ ChanCalls \subseteq Calls
  BY <1>1, ClientConnAssumption DEF TypeInv, TypeOK, ClientConnAssumption
<1>4. /\ gpc = "none" /\ conn \in open
      /\ UNCHANGED <<cpc, att, mpc, mreq, inflight, frameQ, rbuf, rpc, handlers,
                     xpc, xreq, gpc>>
  <2>1. ServerAlive /\ UNCHANGED <<frontVars, conn, open, netUp, backVars>>
    BY DEF ServerReply, ServerValue, ServerClose
  <2> QED
    BY <2>1 DEF ServerAlive, StreamInv, TransportInv, TransportCore,
       OneTransport, frontVars, callerVars, mainVars, backVars, readVars,
       execVars, sinkVars, dialVars
<1>5. OneRead' /\ EmptiedBeforeDial'
  BY <1>1, <1>4 DEF FrameCore, OneRead, EmptiedBeforeDial
<1>6. \A c \in ChanCalls, k \in Chids : Holds(c, k)' => Holds(c, k)
  BY <1>4 DEF Holds
<1>7. ASSUME NEW f \in Frames, s2c' = Append(s2c, f)
      PROVE  /\ \A i \in Places' : \/ i = InTransit + 1 /\ Frame(i)' = f
                                   \/ i \in Places /\ Frame(i)' = Frame(i)
             /\ \A i, j \in Places' : i < j => i \in Places
  <2>1. /\ InTransit' = InTransit + 1
        /\ Places' = Places \cup {InTransit + 1}
        /\ \A i \in Places : i < InTransit + 1 /\ Frame(i)' = Frame(i)
        /\ \A i : i = InTransit + 1 => Frame(i)' = f
    BY <1>1, <1>4, <1>7, TransitGrows
  <2>2. InTransit \in Nat /\ Places = 1..InTransit
    BY <1>1, TransitTyped DEF Places
  <2> QED
    BY <2>1, <2>2
<1>8. ASSUME NEW s \in Sinks, ServerReply(s) PROVE FrameCore'
  <2>1. PICK k \in 0..MaxChan :
          /\ s2c' = Append(s2c, [t |-> "resp", c |-> s[1], a |-> s[2], ch |-> k])
          /\ IF k = 0 THEN UNCHANGED <<nchan, streams>>
             ELSE /\ s[1] \in ChanCalls /\ k = nchan + 1 /\ nchan' = k
                  /\ streams' = streams \cup {<<k, s>>}
          /\ s \in srv /\ srv' = srv \ {s}
    <3>1. CASE s2c' = Append(s2c, [t |-> "resp", c |-> s[1], a |-> s[2], ch |-> 0])
               /\ UNCHANGED <<nchan, streams>>
      BY <1>3, <1>8, <3>1 DEF ServerReply
    <3>2. CASE ~(s2c' = Append(s2c, [t |-> "resp", c |-> s[1], a |-> s[2], ch |-> 0])
                 /\ UNCHANGED <<nchan, streams>>)
      <4>1. /\ s[1] \in ChanCalls /\ nchan < MaxChan /\ nchan' = nchan + 1
            /\ streams' = streams \cup {<<nchan + 1, s>>}
            /\ s2c' = Append(s2c, [t |-> "resp", c |-> s[1], a |-> s[2],
                                   ch |-> nchan + 1])
            /\ s \in srv /\ srv' = srv \ {s}
        BY <1>8, <3>2 DEF ServerReply
      <4>2. nchan + 1 \in 0..MaxChan /\ nchan + 1 # 0
        BY <1>3, <4>1
      <4> QED
        BY <4>1, <4>2
    <3> QED
      BY <3>1, <3>2
  <2> DEFINE f == [t |-> "resp", c |-> s[1], a |-> s[2], ch |-> k]
  <2>2. f \in Frames /\ s[1] \in Calls /\ s[2] \in Attempts
    BY DEF Frames, Sinks
  <2>3. /\ \A i \in Places' : \/ i = InTransit + 1 /\ Frame(i)' = f
                              \/ i \in Places /\ Frame(i)' = Frame(i)
        /\ \A i, j \in Places' : i < j => i \in Places
    BY <1>7, <2>1, <2>2
  <2>4. ASSUME NEW c \in ChanCalls, NEW n \in Chids, Claims(c, n)'
        PROVE  Claims(c, n) \/ (n = k /\ k # 0 /\ c = s[1] /\ n = nchan + 1
                                /\ nchan' = n)
    <3>1. n # 0
      BY DEF Chids
    <3>2. CASE Holds(c, n)'
      BY <1>6, <3>2 DEF Claims
    <3>3. CASE \E i \in Places' : inflight'[c] # 0 /\ Answers(i, c, n)'
      <4>1. PICK i \in Places' : inflight[c] # 0 /\ Answers(i, c, n)'
        BY <1>4, <3>3
      <4>2. CASE i \in Places /\ Frame(i)' = Frame(i)
        BY <4>1, <4>2 DEF Claims, Answers
      <4>3. CASE Frame(i)' = f
        BY <2>1, <3>1, <4>1, <4>3 DEF Answers
      <4> QED
        BY <2>3, <4>2, <4>3
    <3> QED
      BY <2>4, <3>2, <3>3 DEF Claims
  <2>5. ASSUME NEW c \in ChanCalls, NEW n \in Chids, Claims(c, n)
        PROVE  n <= nchan /\ n # nchan + 1 /\ n \in Nat
    <3>1. n <= nchan
      BY <1>2, <2>5 DEF OneClaimant
    <3> QED
      BY <1>3, <3>1 DEF Chids
  <2>6. StreamsNumbered'
    <3>1. \A st \in streams : st[1] <= nchan /\ st[1] \in Nat
      BY <1>2, <1>3 DEF StreamsNumbered, Chids
    <3>2. k # 0 => OfStreamCall(s[1], s[2])
      BY <1>2, <2>1 DEF ChannelsOfStreamCalls, OfStreamCall
    <3> QED
      BY <1>2, <1>3, <2>1, <3>1, <3>2 DEF StreamsNumbered
  <2>7. OneClaimant'
    <3> SUFFICES ASSUME NEW n \in Chids, NEW c \in ChanCalls, Claims(c, n)'
                 PROVE  /\ n <= nchan' /\ gpc' = "none"
                        /\ \A d \in ChanCalls : Claims(d, n)' => d = c
                        /\ \A st \in streams' : st[1] = n => st[2][1] = c
      BY DEF OneClaimant
    <3>1. CASE Claims(c, n)
      <4>1. n <= nchan /\ n # nchan + 1 /\ n \in Nat
        BY <2>5, <3>1
      <4>2. nchan' = nchan \/ nchan' = nchan + 1
        BY <2>1
      <4>3. \A st \in streams' : st[1] = n => st \in streams
        BY <2>1, <4>1
      <4> QED
        BY <1>2, <1>3, <1>4, <2>4, <3>1, <4>1, <4>2, <4>3 DEF OneClaimant
    <3>2. CASE ~Claims(c, n)
      <4>1. n = k /\ k # 0 /\ c = s[1] /\ n = nchan + 1 /\ nchan' = n
        BY <2>4, <3>2
      <4>2. \A d \in ChanCalls : Claims(d, n)' => d = c
        BY <2>4, <2>5, <4>1
      <4>3. \A st \in streams : st[1] # n
        BY <1>2, <1>3, <4>1 DEF StreamsNumbered
      <4> QED
        BY <1>4, <2>1, <4>1, <4>2, <4>3, <1>3
    <3> QED
      BY <3>1, <3>2
  <2>8. OwnFramesOnly'
    <3> SUFFICES ASSUME NEW n \in Chids, NEW c \in ChanCalls, NEW j \in Places',
                        OfStream(j, n)'
                 PROVE  /\ Holds(c, n)' => Frame(j)'.c = c
                        /\ \A i \in Places' : i < j /\ inflight'[c] # 0
                             /\ Answers(i, c, n)' => Frame(j)'.c = c
      BY DEF OwnFramesOnly
    <3>1. j \in Places /\ Frame(j)' = Frame(j) /\ OfStream(j, n)
      BY <2>3 DEF OfStream
    <3>2. \A i \in Places' : i < j => i \in Places /\ i # InTransit + 1
      BY <1>1, <2>3, <3>1, TransitTyped DEF Places
    <3>3. \A i \in Places' : i < j /\ Answers(i, c, n)' => Answers(i, c, n)
      BY <2>3, <3>2 DEF Answers
    <3> QED
      BY <1>2, <1>4, <1>6, <3>1, <3>2, <3>3 DEF OwnFramesOnly
  <2>9. SentOnce'
    <3>1. s[1] \in ChanCalls => cpc[s[1]] # "submit"
      BY <1>2, <2>1 DEF SentOnce
    <3>2. \A c \in ChanCalls : cpc[c] = "submit" =>
            \A i \in Places' : Frame(i)'.c = c => Frame(i)'.t # "resp"
      BY <1>2, <2>3, <3>1 DEF SentOnce
    <3> QED
      BY <1>2, <1>4, <2>1, <3>2 DEF SentOnce, Writing
  <2>10. ChannelsOfStreamCalls'
    <3>1. k # 0 => OfStreamCall(s[1], s[2])
      BY <1>2, <2>1 DEF ChannelsOfStreamCalls, OfStreamCall
    <3>2. \A i \in Places' : Frame(i)'.ch # 0 => OfStreamCall(Frame(i)'.c, Frame(i)'.a)
      BY <1>2, <2>3, <3>1 DEF ChannelsOfStreamCalls
    <3> QED
      BY <1>2, <1>4, <2>1, <3>2 DEF ChannelsOfStreamCalls, Writing
  <2> QED
    BY <1>5, <2>6, <2>7, <2>8, <2>9, <2>10 DEF FrameCore
<1>9. ASSUME ServerValue \/ ServerClose PROVE FrameCore'
  <2>1. PICK st \in streams, t \in {"val", "close"} :
          /\ s2c' = Append(s2c, [t |-> t, c |-> st[2][1], a |-> st[2][2],
                                 ch |-> st[1]])
          /\ streams' \subseteq streams /\ UNCHANGED <<srv, nchan>>
    BY <1>9 DEF ServerValue, ServerClose
  <2> DEFINE f == [t |-> t, c |-> st[2][1], a |-> st[2][2], ch |-> st[1]]
  <2>2. /\ f \in Frames /\ OfStreamCall(f.c, f.a) /\ f.t # "resp"
        /\ f.ch = st[1] /\ f.c = st[2][1]
    BY <1>2, <1>3 DEF Frames, Sinks, StreamsNumbered
  <2>3. /\ \A i \in Places' : \/ i = InTransit + 1 /\ Frame(i)' = f
                              \/ i \in Places /\ Frame(i)' = Frame(i)
        /\ \A i, j \in Places' : i < j => i \in Places
    BY <1>7, <2>1, <2>2
  <2>4. ASSUME NEW c \in ChanCalls, NEW n \in Chids, NEW i \in Places',
               Answers(i, c, n)'
        PROVE  i \in Places /\ Answers(i, c, n)
    BY <2>2, <2>3, <2>4 DEF Answers
  <2>5. \A c \in ChanCalls, n \in Chids : Claims(c, n)' => Claims(c, n)
    BY <1>4, <1>6, <2>4 DEF Claims
  <2>6. OneClaimant'
    BY <1>2, <1>4, <2>1, <2>5, OneClaimantKept
  <2>7. OwnFramesOnly'
    <3> SUFFICES ASSUME NEW n \in Chids, NEW c \in ChanCalls, NEW j \in Places',
                        OfStream(j, n)'
                 PROVE  /\ Holds(c, n)' => Frame(j)'.c = c
                        /\ \A i \in Places' : i < j /\ inflight'[c] # 0
                             /\ Answers(i, c, n)' => Frame(j)'.c = c
      BY DEF OwnFramesOnly
    <3>1. CASE j \in Places /\ Frame(j)' = Frame(j)
      BY <1>2, <1>4, <1>6, <2>4, <3>1 DEF OwnFramesOnly, OfStream
    <3>2. CASE Frame(j)' = f
      <4>1. n = st[1]
        BY <2>2, <3>2 DEF OfStream
      <4>2. Claims(c, n) => st[2][1] = c
        BY <1>2, <2>1, <4>1 DEF OneClaimant
      <4>3. Claims(c, n) => Frame(j)'.c = c
        BY <2>2, <3>2, <4>2
      <4> QED
        BY <1>4, <1>6, <2>4, <4>3 DEF Claims
    <3> QED
      BY <2>3, <3>1, <3>2
  <2>8. SentOnce'
    <3>1. \A c \in ChanCalls : cpc[c] = "submit" =>
            \A i \in Places' : Frame(i)'.c = c => Frame(i)'.t # "resp"
      BY <1>2, <2>2, <2>3 DEF SentOnce
    <3> QED
      BY <1>2, <1>4, <2>1, <3>1 DEF SentOnce, Writing
  <2>9. ChannelsOfStreamCalls' /\ StreamsNumbered'
    <3>1. \A i \in Places' : Frame(i)'.ch # 0 => OfStreamCall(Frame(i)'.c, Frame(i)'.a)
      BY <1>2, <2>2, <2>3 DEF ChannelsOfStreamCalls
    <3> QED
      BY <1>2, <1>4, <2>1, <3>1 DEF ChannelsOfStreamCalls, Writing, StreamsNumbered
  <2> QED
    BY <1>5, <2>6, <2>7, <2>8, <2>9 DEF FrameCore
<1> QED
  BY <1>8, <1>9

\* The loop empties the in-flight map and the table before it starts to
\* dial, so that the ids of the next connection are claimed by nobody.
LEMMA FrameReconnect ==
    ASSUME StreamInv,
           CloseInFlight \/ CloseChans \/ Dialer
    PROVE  FrameCore'
<1>1. TypeInv /\ FrameCore /\ TransportCore
  BY DEF StreamInv, HandlerInv, CallsInv, TransportInv
<1>2. SentOnce /\ OwnFramesOnly /\ ChannelsOfStreamCalls /\ OneClaimant
  BY <1>1 DEF FrameCore
<1>3. ChanCalls \subseteq Calls /\ \A c \in ChanCalls : <<c, 1>> # NoSink
  BY ClientConnAssumption DEF ClientConnAssumption
<1>4. ASSUME CloseInFlight PROVE FrameCore'
  <2>1. /\ UNCHANGED <<cpc, att, mreq, frameQ, rbuf, s2c, rpc, xpc, xreq,
                       handlers, nchan, streams, srv, gpc>>
        /\ mpc' \in {"rcChans", "exit"}
        /\ \A c \in Calls : inflight'[c] = 0
    BY <1>4 DEF CloseInFlight, netVars, serverVars, backVars, readVars,
       execVars, sinkVars, dialVars
  <2>2. OneRead' /\ EmptiedBeforeDial' /\ SomeThinned
    BY <1>1, <2>1, ThinnedSame DEF FrameCore, OneRead, EmptiedBeforeDial
  <2> QED
    BY <1>1, <1>2, <1>3, <2>1, <2>2, FrameCoreKept DEF SentOnce
<1>5. ASSUME CloseChans PROVE FrameCore'
  <2>1. /\ UNCHANGED <<cpc, att, mreq, inflight, frameQ, rbuf, s2c, rpc, xpc,
                       xreq, nchan, streams, srv>>
        /\ \A k \in Chids : handlers'[k] = NoSink
        /\ mpc' \in {"closeInFlight", "fail", "select"}
        /\ gpc' = gpc \/ mpc = "rcChans"
    BY <1>5 DEF CloseChans, callerVars, netVars, serverVars, readVars, execVars
  <2>2. OneRead' /\ EmptiedBeforeDial' /\ SomeThinned
    BY <1>1, <2>1, ThinnedSame DEF FrameCore, OneRead, EmptiedBeforeDial
  <2>3. CASE gpc' = gpc
    BY <1>1, <1>2, <2>1, <2>2, <2>3, FrameCoreKept DEF SentOnce
  <2>4. CASE mpc = "rcChans"
    <3>1. \A c \in ChanCalls : inflight'[c] = 0
      BY <1>1, <1>3, <2>1, <2>4 DEF FrameCore, EmptiedBeforeDial
    <3>2. PICK m : Thinned(m)
      BY <2>2 DEF SomeThinned
    <3>3. OwnFramesOnly'
      BY <1>1, <1>2, <2>1, <3>1, <3>2, ClaimsKept
    <3>4. OneClaimant'
      BY <1>3, <2>1, <3>1 DEF OneClaimant, Claims, Holds
    <3>5. \A c \in ChanCalls : ~Writing(c)'
      BY <2>1 DEF Writing
    <3>6. SentOnce'
      BY <1>2, <2>1, <2>2, <3>5, SentOnceKept DEF SentOnce
    <3>7. ~Writing(mreq.c)'
      BY <2>1 DEF Writing
    <3>8. ChannelsOfStreamCalls'
      BY <1>2, <2>1, <2>2, <3>7, ChannelsKept
    <3>9. StreamsNumbered'
      BY <1>1, <2>1 DEF FrameCore, StreamsNumbered
    <3> QED
      BY <2>2, <3>3, <3>4, <3>6, <3>8, <3>9 DEF FrameCore
  <2> QED
    BY <2>1, <2>3, <2>4
<1>6. ASSUME DialOk \/ DialQuit \/ CheckDialled PROVE FrameCore'
  <2>1. /\ UNCHANGED <<cpc, att, mpc, mreq, inflight, frameQ, rbuf, s2c, rpc,
                       xpc, xreq, handlers, nchan, streams, srv>>
        /\ gpc # "none"
    BY <1>6 DEF DialOk, DialQuit, CheckDialled, frontVars, callerVars, mainVars,
       netVars, serverVars, readVars, execVars, sinkVars
  <2>2. OneRead' /\ EmptiedBeforeDial' /\ SomeThinned
    BY <1>1, <2>1, ThinnedSame DEF FrameCore, OneRead, EmptiedBeforeDial
  <2> QED
    BY <1>1, <1>2, <2>1, <2>2, FrameCoreKept DEF SentOnce
<1>7. ASSUME Install PROVE FrameCore'
  <2>1. /\ UNCHANGED <<cpc, att, mpc, mreq, inflight, frameQ, rbuf, xpc, xreq,
                       handlers>>
        /\ gpc = "install" /\ gpc' = "none"
    BY <1>7 DEF Install, callerVars, execVars, sinkVars
  <2>2. CASE ~InstallAllowed
    <3>1. UNCHANGED <<s2c, rpc, nchan, streams, srv>>
      BY <1>7, <2>2 DEF Install
    <3>2. OneRead' /\ EmptiedBeforeDial' /\ SomeThinned
      BY <1>1, <2>1, <3>1, ThinnedSame DEF FrameCore, OneRead, EmptiedBeforeDial
    <3> QED
      BY <1>1, <1>2, <2>1, <3>1, <3>2, FrameCoreKept DEF SentOnce
  <2>3. CASE InstallAllowed
    <3>1. s2c' = <<>> /\ srv' = {} /\ nchan' = 0 /\ streams' = {} /\ rpc' = "next"
      BY <1>7, <2>3 DEF Install
    <3>2. rpc = "none"
      BY <1>1, <2>1 DEF TransportCore, ReconnectAlone
    <3>3. OneRead' /\ EmptiedBeforeDial' /\ StreamsNumbered'
      BY <1>1, <2>1, <3>1, <3>2 DEF FrameCore, OneRead, EmptiedBeforeDial,
         StreamsNumbered
    <3>4. SomeThinned
      <4>1. 0 \in 0..Len(s2c) /\ SubSeq(s2c, 1, 0) = <<>>
        BY <1>1, TransitTyped, SubSeqEmpty
      <4> QED
        BY <1>1, <2>1, <3>1, <4>1, ThinnedCut
    <3>5. PICK m : Thinned(m)
      BY <3>4 DEF SomeThinned
    <3>6. /\ \A c \in ChanCalls, k \in Chids : Claims(c, k)' => Claims(c, k)
          /\ OwnFramesOnly'
      BY <1>1, <1>2, <2>1, <3>5, ClaimsKept
    <3>7. OneClaimant'
      BY <1>2, <2>1, <3>6 DEF OneClaimant
    <3>8. SentOnce'
      BY <1>2, <2>1, <3>1, <3>4, SentOnceKept DEF SentOnce, Writing
    <3>9. ChannelsOfStreamCalls'
      <4>1. Writing(mreq.c)' /\ mreq'.c \in ChanCalls => mreq'.a = 1
        BY <1>2, <2>1 DEF ChannelsOfStreamCalls, Writing
      <4> QED
        BY <1>2, <2>1, <3>1, <3>4, <4>1, ChannelsKept
    <3> QED
      BY <3>3, <3>6, <3>7, <3>8, <3>9 DEF FrameCore
  <2> QED
    BY <2>2, <2>3
<1> QED
  BY <1>4, <1>5, <1>6, <1>7 DEF Dialer

\* The rest only moves, loses or ignores frames.
LEMMA FrameRest ==
    ASSUME StreamInv,
           \/ Program \/ WriteError \/ MainReturn \/ MainIncoming
           \/ BeginReconnect \/ Fail \/ FailReturns \/ Exit \/ MainTimeout
           \/ FailTransport \/ Reader \/ Break
           \/ (\E s \in Sinks : Stream(s)) \/ UNCHANGED vars
    PROVE  FrameCore'
<1>1. TypeInv /\ FrameCore
  BY DEF StreamInv, HandlerInv, CallsInv
<1>2. SentOnce /\ OneRead /\ EmptiedBeforeDial
  BY <1>1 DEF FrameCore
<1>3. ASSUME ReadBody \/ Enqueue PROVE FrameCore'
  <2>1. UNCHANGED <<cpc, att, mpc, mreq, inflight, xpc, xreq, handlers, nchan,
                    streams, srv, gpc>>
    BY <1>3 DEF ReadBody, Enqueue, frontVars, callerVars, mainVars, netVars,
       serverVars, execVars, sinkVars, dialVars
  <2>2. OneRead' /\ SomeThinned
    BY <1>1, <1>2, <1>3, ThinnedRead
  <2>3. EmptiedBeforeDial'
    BY <1>2, <2>1 DEF EmptiedBeforeDial
  <2> QED
    BY <1>1, <1>2, <2>1, <2>2, <2>3, FrameCoreKept DEF SentOnce
<1>4. ASSUME ReaderQuit PROVE FrameCore'
  <2>1. /\ UNCHANGED <<cpc, att, mpc, mreq, inflight, xpc, xreq, handlers, nchan,
                       streams, srv, gpc, frameQ, s2c>>
        /\ rbuf' = <<>> /\ rpc' = "none"
    BY <1>4 DEF ReaderQuit, frontVars, callerVars, mainVars, netVars,
       serverVars, execVars, sinkVars, dialVars
  <2>2. OneRead' /\ SomeThinned /\ EmptiedBeforeDial'
    BY <1>1, <1>2, <2>1, ThinnedDropped DEF OneRead, EmptiedBeforeDial
  <2> QED
    BY <1>1, <1>2, <2>1, <2>2, FrameCoreKept DEF SentOnce
<1>5. ASSUME Break PROVE FrameCore'
  <2>1. /\ UNCHANGED <<cpc, att, mpc, mreq, inflight, xpc, xreq, handlers, nchan,
                       gpc, frameQ, rbuf, rpc>>
        /\ streams' = {} /\ srv' = {}
        /\ \E k \in 0..Len(s2c) : s2c' = SubSeq(s2c, 1, k)
    BY <1>5 DEF Break, frontVars, callerVars, mainVars, backVars, readVars,
       execVars, sinkVars, dialVars
  <2>2. SomeThinned
    BY <1>1, <2>1, ThinnedCut
  <2>3. OneRead' /\ EmptiedBeforeDial'
    BY <1>2, <2>1 DEF OneRead, EmptiedBeforeDial
  <2> QED
    BY <1>1, <1>2, <2>1, <2>2, <2>3, FrameCoreKept DEF SentOnce
<1>6. ASSUME WriteError PROVE FrameCore'
  <2>1. /\ UNCHANGED <<cpc, att, xpc, xreq, handlers, nchan, streams, srv, gpc,
                       frameQ, rbuf, s2c, rpc>>
        /\ mpc = "write" /\ mpc' = "select"
        /\ inflight' = inflight \/ inflight' = [inflight EXCEPT ![mreq.c] = 0]
    BY <1>6 DEF WriteError, Unregistered, netVars, serverVars, backVars, readVars,
       execVars, sinkVars, dialVars
  <2>2. \A c \in ChanCalls : inflight'[c] # 0 => inflight[c] # 0
    BY <1>1, <2>1, ClientConnAssumption DEF ClientConnAssumption, TypeInv, TypeOK
  <2>3. OneRead' /\ EmptiedBeforeDial' /\ SomeThinned
    BY <1>2, <2>1, ThinnedSame DEF OneRead, EmptiedBeforeDial
  <2> QED
    BY <1>1, <1>2, <2>1, <2>2, <2>3, FrameCoreKept DEF SentOnce
<1>7. ASSUME \/ Program \/ MainReturn \/ MainIncoming \/ BeginReconnect \/ Fail
             \/ FailReturns \/ Exit \/ MainTimeout \/ FailTransport
             \/ NextMessageOk \/ NextMessageError \/ ReadBodyError
             \/ (\E s \in Sinks : Stream(s)) \/ UNCHANGED vars
      PROVE  FrameCore'
  <2>1. UNCHANGED <<cpc, att, inflight, xpc, xreq, handlers, nchan, streams, srv,
                    gpc, frameQ, rbuf, s2c, mreq>>
    BY <1>7 DEF Program, CancelCtx, Stop, CancelParent, MainReturn, MainIncoming,
       BeginReconnect, Fail, FailReturns, Exit, MainTimeout, FailTransport,
       NextMessageOk, NextMessageError, ReadBodyError, Stream, WorkerEnd, WatchEnd,
       WatchCancel, vars, frontVars, backVars, callerVars, mainVars, netVars,
       serverVars, readVars, execVars, sinkVars, dialVars
  <2>2. mpc' = mpc \/ mpc' \notin {"write", "rcChans"}
    BY <1>7 DEF Program, CancelCtx, Stop, CancelParent, MainReturn, MainIncoming,
       BeginReconnect, Fail, FailReturns, Exit, MainTimeout, FailTransport,
       NextMessageOk, NextMessageError, ReadBodyError, Stream, WorkerEnd, WatchEnd,
       WatchCancel, vars, frontVars, mainVars
  <2>3. rpc' = rpc \/ (rpc # "put" /\ rpc' # "put")
    BY <1>7 DEF Program, CancelCtx, Stop, CancelParent, MainReturn, MainIncoming,
       BeginReconnect, Fail, FailReturns, Exit, MainTimeout, FailTransport,
       NextMessageOk, NextMessageError, ReadBodyError, Stream, WorkerEnd, WatchEnd,
       WatchCancel, vars, backVars, readVars
  <2>4. OneRead' /\ EmptiedBeforeDial' /\ SomeThinned
    BY <1>2, <2>1, <2>2, <2>3, ThinnedSame DEF OneRead, EmptiedBeforeDial
  <2> QED
    BY <1>1, <1>2, <2>1, <2>2, <2>4, FrameCoreKept DEF SentOnce
<1> QED
  BY <1>3, <1>4, <1>5, <1>6, <1>7 DEF Reader

\* A sink that is open has its owner, and a value reaches its own sink.
LEMMA OwnedStep == StreamInv /\ [Next]_vars => OwnedCore'
<1> SUFFICES ASSUME StreamInv, [Next]_vars PROVE OwnedCore'
  OBVIOUS
<1>1. TypeInv /\ FrameCore /\ HandlerCore /\ OwnedCore
  BY DEF StreamInv, HandlerInv, CallsInv
<1>2. /\ handlers \in [Chids -> Sinks \cup {NoSink}] /\ NoSink \notin Sinks
      /\ sink \in [Sinks -> {"none", "open", "closed"}]
      /\ xpc = "publish" => xreq \in ExecReqs
      /\ inflight \in [Calls -> 0..MaxAttempts]
      /\ ChanCalls \subseteq Calls /\ Attempts = 1..MaxAttempts
      /\ MaxAttempts \in Nat
  BY <1>1, ClientConnAssumption
  DEF TypeInv, TypeOK, HeldOK, ClientConnAssumption, Sinks, Attempts
<1>3. OpenOwned /\ FramesReachOwnSink
  BY <1>1 DEF OwnedCore
<1>4. ASSUME UNCHANGED <<sink, handlers, got>>,
             UNCHANGED <<xpc, xreq>> \/ xpc # "publish"
      PROVE  OwnedCore'
  BY <1>3, <1>4 DEF OwnedCore, OpenOwned, FramesReachOwnSink, Handled, InHand
<1>5. ASSUME LookupResponse PROVE OwnedCore'
  <2> DEFINE f == Head(frameQ)
  <2>1. UNCHANGED <<handlers, got>> /\ xpc = "idle"
    BY <1>5 DEF LookupResponse, NextFrame, histVars
  <2>2. \/ UNCHANGED <<xpc, xreq, sink>>
        \/ /\ xpc' = "publish"
           /\ xreq' = [kind |-> "resp", c |-> f.c, a |-> inflight[f.c],
                       src |-> f.a, ch |-> f.ch]
           /\ IF f.ch = 0 THEN sink' = sink
              ELSE sink' = [sink EXCEPT ![<<f.c, inflight[f.c]>>] = "open"]
    BY <1>5 DEF LookupResponse
  <2>3. CASE UNCHANGED <<xpc, xreq, sink>>
    BY <1>4, <2>1, <2>3
  <2>4. CASE ~UNCHANGED <<xpc, xreq, sink>>
    <3>1. ASSUME NEW s \in Sinks, sink'[s] = "open"
          PROVE  Handled(s)' \/ InHand(s)'
      <4>1. CASE sink[s] = "open"
        BY <1>3, <2>1, <4>1 DEF OpenOwned, Handled, InHand
      <4>2. CASE sink[s] # "open"
        <5>1. f.ch # 0 /\ s = <<f.c, inflight[f.c]>>
          BY <1>2, <2>2, <2>4, <3>1, <4>2
        <5> QED
          BY <2>2, <2>4, <5>1 DEF InHand
      <4> QED
        BY <4>1, <4>2
    <3> QED
      BY <1>3, <2>1, <3>1 DEF OwnedCore, OpenOwned, FramesReachOwnSink
  <2> QED
    BY <2>2, <2>3, <2>4
<1>6. ASSUME PublishResponse PROVE OwnedCore'
  <2> DEFINE t == <<xreq.c, xreq.a>>
             n == xreq.ch
  <2>1. xpc = "publish" /\ xpc' = "idle" /\ UNCHANGED got
    BY <1>6 DEF PublishResponse, histVars
  <2>2. t \in Sinks /\ n \in 0..MaxChan /\ xreq.c \in Calls /\ xreq.a \in Attempts
    BY <1>2, <2>1 DEF ExecReqs, Sinks
  <2>3. CASE PublishRefused
    <3>1. /\ UNCHANGED handlers
          /\ sink' = IF n # 0 THEN [sink EXCEPT ![t] = "closed"] ELSE sink
      BY <1>6, <2>3 DEF PublishResponse
    <3>2. ASSUME NEW s \in Sinks, sink'[s] = "open" PROVE Handled(s)
      BY <1>2, <1>3, <2>2, <3>1, <3>2 DEF OpenOwned, InHand
    <3> QED
      BY <1>3, <2>1, <3>1, <3>2 DEF OwnedCore, OpenOwned, FramesReachOwnSink, Handled
  <2>4. CASE ~PublishRefused /\ n = 0
    <3>1. UNCHANGED <<handlers, sink>>
      BY <1>6, <2>4 DEF PublishResponse
    <3> QED
      BY <1>3, <2>1, <2>4, <3>1
      DEF OwnedCore, OpenOwned, FramesReachOwnSink, Handled, InHand
  <2>5. CASE ~PublishRefused /\ n # 0
    <3>1. /\ UNCHANGED sink /\ inflight[xreq.c] = xreq.a
          /\ handlers' = [handlers EXCEPT ![n] = t]
      BY <1>6, <2>5 DEF PublishResponse, PublishRefused, SameRequest
    <3>2. n \in Chids /\ inflight[xreq.c] # 0
      BY <1>2, <2>2, <2>5, <3>1 DEF Chids
    <3>3. xreq.c \in ChanCalls /\ xreq.a = 1 /\ Claims(xreq.c, n)
      BY <1>1, <2>1, <2>5, <3>2
      DEF FrameCore, ChannelsOfStreamCalls, OfStreamCall, Claims, Holds
    <3>4. handlers[n] = NoSink
      <4> SUFFICES ASSUME handlers[n] # NoSink PROVE FALSE
        OBVIOUS
      <4>1. /\ handlers[n] \in Sinks /\ handlers[n][1] \in ChanCalls
            /\ handlers[n][2] = 1
        BY <1>1, <1>2, <3>2 DEF FrameCore, ChannelsOfStreamCalls, OfStreamCall
      <4>2. handlers[n] = <<handlers[n][1], 1>>
        BY <4>1 DEF Sinks
      <4>3. Claims(handlers[n][1], n)
        BY <4>2 DEF Claims, Holds
      <4>4. handlers[n] = t
        BY <1>1, <3>2, <3>3, <4>1, <4>2, <4>3 DEF FrameCore, OneClaimant
      <4> QED
        BY <1>1, <2>1, <2>5, <3>2, <4>4 DEF HandlerCore, InHandFresh, Handled
    <3>5. ASSUME NEW s \in Sinks, sink'[s] = "open" PROVE Handled(s)'
      <4>1. CASE s = t
        BY <1>2, <3>1, <3>2, <4>1 DEF Handled
      <4>2. CASE s # t
        <5>1. PICK ch \in Chids : handlers[ch] = s
          BY <1>3, <3>1, <3>5, <4>2 DEF OpenOwned, InHand, Handled
        <5>2. ch # n /\ handlers'[ch] = s
          BY <1>2, <3>1, <3>4, <5>1
        <5> QED
          BY <5>2 DEF Handled
      <4> QED
        BY <4>1, <4>2
    <3> QED
      BY <1>3, <2>1, <3>5 DEF OwnedCore, OpenOwned, FramesReachOwnSink
  <2> QED
    BY <2>3, <2>4, <2>5
<1>7. ASSUME ChanClose PROVE OwnedCore'
  <2> DEFINE k == Head(frameQ).ch
             t == handlers[k]
  <2>1. UNCHANGED <<xpc, xreq, got>> /\ xpc = "idle"
    BY <1>7 DEF ChanClose, NextFrame, execVars, histVars
  <2>2. k \in Chids
    BY <1>1, <1>7 DEF ChanClose, NextFrame, TypeInv, TypeOK, Frames
  <2>3. CASE UNCHANGED <<handlers, sink>>
    BY <1>4, <2>1, <2>3
  <2>4. CASE t # NoSink
    <3>1. /\ handlers' = [handlers EXCEPT ![k] = NoSink]
          /\ sink' = [sink EXCEPT ![t] = "closed"] /\ t \in Sinks
      BY <1>2, <1>7, <2>2, <2>4 DEF ChanClose, Unhandled
    <3>2. ASSUME NEW s \in Sinks, sink'[s] = "open" PROVE Handled(s)'
      <4>1. sink[s] = "open" /\ s # t
        BY <1>2, <3>1, <3>2
      <4>2. PICK ch \in Chids : handlers[ch] = s
        BY <1>3, <2>1, <4>1 DEF OpenOwned, InHand, Handled
      <4>3. handlers'[ch] = s
        BY <1>2, <3>1, <4>1, <4>2
      <4> QED
        BY <4>3 DEF Handled
    <3> QED
      BY <1>3, <2>1, <3>2 DEF OwnedCore, OpenOwned, FramesReachOwnSink
  <2> QED
    BY <1>7, <2>3, <2>4 DEF ChanClose
<1>8. ASSUME CloseChans PROVE OwnedCore'
  <2>1. sink' = ClosedSinks /\ UNCHANGED <<xpc, xreq, got>>
    BY <1>8 DEF CloseChans, execVars, histVars
  <2>2. \A s \in Sinks : sink'[s] = "open" => sink[s] = "open" /\ ~Handled(s)
    BY <2>1 DEF ClosedSinks, Handled
  <2> QED
    BY <1>3, <2>1, <2>2 DEF OwnedCore, OpenOwned, FramesReachOwnSink, InHand
<1>9. ASSUME ChanMessage PROVE OwnedCore'
  <2> DEFINE f == Head(frameQ)
             t == handlers[f.ch]
  <2>1. /\ UNCHANGED <<handlers, sink, xpc, xreq>>
        /\ got' = got \/ (t # NoSink /\ got' = got \cup {<<t, <<f.c, f.a>>>>})
    BY <1>9 DEF ChanMessage, sinkVars, execVars
  <2>2. /\ frameQ # <<>> /\ f.t = "val" /\ frameQ' = Tail(frameQ)
        /\ UNCHANGED <<rbuf, s2c>>
    BY <1>9 DEF ChanMessage, NextFrame, netVars
  <2>3. 1 \in Places /\ Frame(1) = f
    BY <1>1, <2>2, ThinnedTaken
  <2>4. f.ch \in Chids /\ OfStream(1, f.ch) /\ f.ch # 0
    BY <1>1, <2>2, <2>3, TransitTyped DEF Frames, OfStream, Chids
  <2>5. t # NoSink => t = <<f.c, f.a>>
    <3> SUFFICES ASSUME t # NoSink PROVE t = <<f.c, f.a>>
      OBVIOUS
    <3>1. t \in Sinks /\ t[1] \in ChanCalls /\ t[2] = 1
      BY <1>1, <1>2, <2>4 DEF FrameCore, ChannelsOfStreamCalls, OfStreamCall
    <3>2. t = <<t[1], 1>>
      BY <3>1 DEF Sinks
    <3>3. Holds(t[1], f.ch)
      BY <3>2 DEF Holds
    <3>4. f.c = t[1]
      BY <1>1, <2>3, <2>4, <3>1, <3>3 DEF FrameCore, OwnFramesOnly
    <3>5. f.a = 1
      BY <1>1, <2>3, <2>4 DEF FrameCore, ChannelsOfStreamCalls, OfStreamCall
    <3> QED
      BY <3>2, <3>4, <3>5
  <2>6. FramesReachOwnSink'
    BY <1>3, <2>1, <2>5 DEF FramesReachOwnSink
  <2> QED
    BY <1>3, <2>1, <2>6 DEF OwnedCore, OpenOwned, Handled, InHand
<1>10. ASSUME \/ (\E c \in Calls : Caller(c)) \/ Program
              \/ WriteOk \/ WriteError \/ MainReturn \/ MainIncoming
              \/ BeginReconnect \/ CloseInFlight \/ Fail \/ FailReturns \/ Exit
              \/ MainTimeout \/ FailTransport \/ Reader \/ ExecQuit
              \/ ChanMessagePanics \/ (\E s \in Sinks : Stream(s))
              \/ Dialer \/ Environment \/ UNCHANGED vars
       PROVE  OwnedCore'
  <2>1. UNCHANGED <<sink, handlers, got>>
    BY <1>10
    DEF Caller, AcceptRequest, LeaveSubmit, LeaveWait, SeeCtxDone, AcceptCancel,
        GiveUpCancel, Retry, Program, CancelCtx, Stop, CancelParent, WriteOk,
        WriteError, MainReturn, MainIncoming, BeginReconnect, CloseInFlight,
        Fail, FailReturns, Exit, MainTimeout, FailTransport, Reader,
        NextMessageOk, NextMessageError, ReadBody, ReadBodyError, Enqueue,
        ReaderQuit, ExecQuit, ChanMessagePanics, Stream, WorkerEnd, WatchEnd,
        WatchCancel, Dialer, DialOk, DialQuit, CheckDialled, Install,
        Environment, Break, ServerReply, ServerValue, ServerClose, vars,
        backVars, sinkVars, histVars
  <2>2. UNCHANGED <<xpc, xreq>> \/ xpc # "publish"
    BY <1>10
    DEF Caller, AcceptRequest, LeaveSubmit, LeaveWait, SeeCtxDone, AcceptCancel,
        GiveUpCancel, Retry, Program, CancelCtx, Stop, CancelParent, WriteOk,
        WriteError, MainReturn, MainIncoming, BeginReconnect, CloseInFlight,
        Fail, FailReturns, Exit, MainTimeout, FailTransport, Reader,
        NextMessageOk, NextMessageError, ReadBody, ReadBodyError, Enqueue,
        ReaderQuit, ExecQuit, ChanMessagePanics, NextFrame, Stream, WorkerEnd,
        WatchEnd, WatchCancel, Dialer, DialOk, DialQuit, CheckDialled, Install,
        Environment, Break, ServerReply, ServerValue, ServerClose, vars,
        backVars, execVars
  <2> QED
    BY <1>4, <2>1, <2>2
<1> QED
  BY <1>5, <1>6, <1>7, <1>8, <1>9, <1>10 DEF Next, Main, Executor

\* The whole holds when the connection starts.
LEMMA StreamInit == Init => StreamInv
<1> SUFFICES ASSUME Init PROVE StreamInv
  OBVIOUS
<1>1. HandlerInv /\ TransportInv
  BY HandlerInit, TransportInit
<1>2. frameQ = <<>> /\ rbuf = <<>> /\ s2c = <<>> /\ InTransit = 0 /\ Places = {}
  BY DEF Init, InTransit, Places
<1>3. /\ ChanCalls \subseteq Calls
      /\ \A c \in ChanCalls : <<c, 1>> # NoSink /\ inflight[c] = 0
      /\ \A k \in Chids : handlers[k] = NoSink
  BY ClientConnAssumption DEF Init, ClientConnAssumption
<1>4. OneRead /\ SentOnce /\ ChannelsOfStreamCalls /\ StreamsNumbered
  BY <1>2, <1>3
  DEF Init, OneRead, SentOnce, ChannelsOfStreamCalls, StreamsNumbered, Writing
<1>5. OneClaimant /\ OwnFramesOnly
  BY <1>2, <1>3 DEF OneClaimant, OwnFramesOnly, Claims, Holds
<1>6. EmptiedBeforeDial /\ OwnedCore
  BY DEF Init, EmptiedBeforeDial, OwnedCore, OpenOwned, FramesReachOwnSink
<1> QED
  BY <1>1, <1>4, <1>5, <1>6 DEF StreamInv, FrameCore

\* Every step keeps it.
LEMMA StreamStep ==
    ASSUME ChanCalls \cap RetryCalls = {}
    PROVE  StreamInv /\ [Next]_vars => StreamInv'
<1> SUFFICES ASSUME StreamInv, [Next]_vars PROVE StreamInv'
  OBVIOUS
<1>1. HandlerInv' /\ TransportInv' /\ OwnedCore'
  BY HandlerStep, TransportStep, OwnedStep DEF StreamInv
<1>2. FrameCore'
  BY FrameCaller, FrameExecutor, FrameServer, FrameReconnect, FrameRest
  DEF Next, Main, Environment
<1> QED
  BY <1>1, <1>2 DEF StreamInv

\* When no method that returns a channel has the retry tag: every open sink
\* is in the table or in the hands of handleResponse, so that the end of the
\* stream, of the connection or a reconnect closes it, and at the end the
\* table is empty; and a value reaches only the channel of the call whose
\* stream it belongs to.  Channel ids start from 1 on every connection and
\* frames of earlier connections may still be queued: in-flight requests are
\* answered and forgotten before the next transport is dialled, so that an
\* old answer cannot register a sink for an old or a new stream.  With the
\* tag both fail (handleRpcCall sends the same id again).
THEOREM StreamsReachTheirSinks ==
    ASSUME ChanCalls \cap RetryCalls = {}
    PROVE  Spec => [](SinkOwned /\ FramesReachOwnSink)
<1>1. StreamInv => SinkOwned /\ FramesReachOwnSink
  <2> SUFFICES ASSUME StreamInv PROVE SinkOwned /\ FramesReachOwnSink
    OBVIOUS
  <2>1. OpenOwned /\ FramesReachOwnSink /\ EndedWithoutHandlers
    BY DEF StreamInv, OwnedCore, HandlerInv, HandlerCore
  <2> QED
    BY <2>1 DEF SinkOwned, OpenOwned, Handled, InHand, EndedWithoutHandlers
<1>2. StreamInv /\ [Next]_vars => StreamInv'
  BY StreamStep
<1> QED
  BY <1>1, <1>2, StreamInit, PTL DEF Spec
=============================================================================
