----------------------------- MODULE StreamPath -----------------------------
(***************************************************************************)
(* The way of the values of channels that methods return, over one         *)
(* connection, from the goroutine that writes to such a channel to the     *)
(* program that reads the channel of the generated function: the loop of   *)
(* handleOutChans, the wire, frameExecQueue, the frame executor            *)
(* (handleResponse, handleChanMessage, handleChanClose), the `incoming'    *)
(* channel of the sink, and the buffer worker of makeOutChan.  Next to it  *)
(* the ends of a stream: the method closes its channel, the program        *)
(* cancels the call (handleCtxAsync, cancelCtx), the connection breaks     *)
(* (closeInFlight, closeChans).                                            *)
(*                                                                         *)
(* The steps of registering calls and channels are those of ClientConn and *)
(* ServerConn; here one call makes at most one stream, and the name of a   *)
(* stream stands for its call, its JSON-RPC id and its channel id.  What   *)
(* is in detail here is the data: which value is where, the bounded        *)
(* queues, who blocks on which of them, and chanHandler.lk.                *)
(***************************************************************************)
EXTENDS Naturals, Sequences

CONSTANTS
    Streams,        \* the calls of functions that return a channel
    Observed,       \* the one of them that Stream is about
    Readers,        \* those whose channel the program goes on reading
    Cancels,        \* those whose call the program may cancel
    Unencodable,    \* values that the server cannot encode
    Undecodable,    \* values that the client cannot decode
    Amount,         \* bound: how many values are written to each channel
    MaxVals,        \* bound: the largest of these
    MaxWire,        \* bound: frames on the wire
    FrameQ,         \* maxQueuedFrames, the capacity of frameExecQueue
    IncomingCap,    \* the capacity of `incoming' (32)
    NoStream        \* no stream

ASSUME StreamPathAssumption ==
    /\ Observed \in Streams /\ Readers \subseteq Streams
    /\ Cancels \subseteq Streams     /\ NoStream \notin Streams
    /\ MaxVals \in Nat /\ Amount \in [Streams -> 0..MaxVals]
    /\ MaxWire \in Nat \ {0}
    /\ FrameQ \in Nat \ {0} /\ IncomingCap \in Nat \ {0}
    /\ Unencodable \subseteq 1..MaxVals /\ Undecodable \subseteq 1..MaxVals

VARIABLES
    \* server
    prod,       \* the returned channel: not returned, open, or closed
    made,       \* values taken from it; the n-th value is n
    sent,       \* history: those of them that can be encoded and decoded
    ctxd,       \* the context of the handler of the call is done
    regs,       \* the registrations of handleOutChans
    \* network
    netUp, wire, c2s,   \* c2s: xrpc.cancel on its way to the server
    \* connection of the client
    rx,         \* somebody reads the transport
    frameQ,     \* frameExecQueue
    xcur,       \* the value and the sink the executor is sending to
    inflight,   \* calls without an answer
    handlers,   \* sinks in chanHandlers
    lpc,        \* the loop: serving, in closeInFlight, in closeChans, past it
    closing,    \* sinks that closeChans has still to close
    \* sinks
    incoming,   \* the buffer of `incoming'
    incClosed,  \* `incoming' is closed
    buf,        \* the list of the worker
    worker,     \* the worker: not started, receiving, with incomingCh nil, gone
    cctx,       \* chanCtx: live, or its cause
    watch,      \* sinks whose handleCtxAsync runs
    given       \* what the program read

serverVars == <<prod, made, sent, ctxd, regs>>
netVars    == <<netUp, wire, c2s>>
connVars   == <<rx, frameQ, xcur, inflight, handlers, lpc, closing>>
sinkVars   == <<incoming, incClosed, buf, worker, cctx, watch, given>>

vars == <<serverVars, netVars, connVars, sinkVars>>

-----------------------------------------------------------------------------
Values == 1..MaxVals
Good == Values \ (Unencodable \cup Undecodable)

\* The answer with the channel id, a value, the end of a stream.
Frames == [t : {"resp", "close"}, s : Streams, v : {0}]
          \cup [t : {"val"}, s : Streams, v : Values]
RespFrame(s) == [t |-> "resp", s |-> s, v |-> 0]
ValFrame(s, v) == [t |-> "val", s |-> s, v |-> v]
CloseFrame(s) == [t |-> "close", s |-> s, v |-> 0]
NoSend == [s |-> NoStream, v |-> 0]

Init ==
    /\ prod = [s \in Streams |-> "none"] /\ made = [s \in Streams |-> 0]
    /\ sent = [s \in Streams |-> <<>>]
    /\ ctxd = {} /\ regs = {}
    /\ netUp = TRUE /\ wire = <<>> /\ c2s = {}
    /\ rx = TRUE /\ frameQ = <<>> /\ xcur = NoSend
    /\ inflight = Streams /\ handlers = {} /\ lpc = "serve" /\ closing = {}
    /\ incoming = [s \in Streams |-> <<>>]
    /\ incClosed = [s \in Streams |-> FALSE]
    /\ buf = [s \in Streams |-> <<>>]
    /\ worker = [s \in Streams |-> "none"]
    /\ cctx = [s \in Streams |-> "live"]
    /\ watch = {} /\ given = [s \in Streams |-> <<>>]

-----------------------------------------------------------------------------
(* The server, as long as the connection lives.                            *)

\* handleOutChans writes the frame; it blocks while the wire is full.
Written(f) == Len(wire) < MaxWire /\ wire' = Append(wire, f)

\* The method returns its channel, and handleOutChans accepts the
\* registration and writes the answer.
Register(s) ==
    /\ netUp /\ prod[s] = "none"
    /\ prod' = [prod EXCEPT ![s] = "open"]
    /\ regs' = regs \cup {s}
    /\ Written(RespFrame(s))
    /\ UNCHANGED <<made, sent, ctxd, netUp, c2s, connVars, sinkVars>>

\* A value is received from the channel of a registration and written, or
\* dropped when it cannot be encoded.
Take(s) ==
    /\ netUp /\ s \in regs
    /\ prod[s] = "open" /\ made[s] < Amount[s]
    /\ made' = [made EXCEPT ![s] = @ + 1]
    /\ IF made[s] + 1 \in Unencodable THEN UNCHANGED wire
       ELSE Written(ValFrame(s, made[s] + 1))
    /\ sent' = IF made[s] + 1 \in Good
               THEN [sent EXCEPT ![s] = Append(@, made[s] + 1)] ELSE sent
    /\ UNCHANGED <<prod, ctxd, regs, netUp, c2s, connVars, sinkVars>>

\* The method closes its channel: when it is done, or when its context is.
ProducerCloses(s) ==
    /\ netUp /\ prod[s] = "open"
    /\ prod' = [prod EXCEPT ![s] = "closed"]
    /\ UNCHANGED <<made, sent, ctxd, regs, netVars, connVars, sinkVars>>

\* The loop sees that the channel was closed.
OutClosed(s) ==
    /\ netUp /\ s \in regs /\ prod[s] = "closed"
    /\ regs' = regs \ {s}
    /\ Written(CloseFrame(s))
    /\ UNCHANGED <<prod, made, sent, ctxd, netUp, c2s, connVars, sinkVars>>

\* cancelCtx
CancelArrives(s) ==
    /\ netUp /\ s \in c2s
    /\ c2s' = c2s \ {s}
    /\ ctxd' = ctxd \cup {s}
    /\ UNCHANGED <<prod, made, sent, regs, netUp, wire, connVars, sinkVars>>

\* The connection breaks: the last frames are lost.
Break ==
    /\ netUp /\ netUp' = FALSE
    /\ \E k \in 0..Len(wire) : wire' = SubSeq(wire, 1, k)
    /\ c2s' = {}
    /\ UNCHANGED <<serverVars, connVars, sinkVars>>

-----------------------------------------------------------------------------
(* The connection of the client: reader chain, loop and frame executor.    *)

\* Variant: a full queue loses the frame.
QueueOrDrop(f) == frameQ' = IF Len(frameQ) < FrameQ THEN Append(frameQ, f) ELSE frameQ

\* Variant: the queue has no limit.
QueueBeyond(f) == frameQ' = Append(frameQ, f)

\* frameExecQueue <- frame: blocks while the queue is full.
Queue(f) == Len(frameQ) < FrameQ /\ frameQ' = Append(frameQ, f)

Read ==
    /\ rx /\ wire # <<>>
    /\ Queue(Head(wire)) /\ wire' = Tail(wire)
    /\ UNCHANGED <<serverVars, netUp, c2s, rx, xcur, inflight, handlers, lpc,
                   closing, sinkVars>>

\* Reading fails, and the loop begins to give the connection up.
ReadFails ==
    /\ rx /\ ~netUp /\ rx' = FALSE
    /\ lpc' = "inflight"
    /\ UNCHANGED <<serverVars, netVars, frameQ, xcur, inflight, handlers,
                   closing, sinkVars>>

CloseInFlight ==
    /\ lpc = "inflight" /\ lpc' = "swap"
    /\ inflight' = {}
    /\ UNCHANGED <<serverVars, netVars, rx, frameQ, xcur, handlers, closing,
                   sinkVars>>

\* closeChans replaces the map ...
SwapHandlers ==
    /\ lpc = "swap" /\ lpc' = "chans"
    /\ handlers' = {} /\ closing' = handlers
    /\ UNCHANGED <<serverVars, netVars, rx, frameQ, xcur, inflight, sinkVars>>

\* Variant: closeChans does not take chanHandler.lk.
Unguarded(s) == TRUE

\* The executor does not hold chanHandler.lk of s.
Unlocked(s) == xcur.s # s

\* ... and closes each sink under its lock.
CloseChan(s) ==
    /\ lpc = "chans" /\ s \in closing /\ Unlocked(s)
    /\ closing' = closing \ {s}
    /\ incClosed' = [incClosed EXCEPT ![s] = TRUE]
    /\ UNCHANGED <<serverVars, netVars, rx, frameQ, xcur, inflight, handlers,
                   lpc, incoming, buf, worker, cctx, watch, given>>

NextFrame(t) == xcur = NoSend /\ frameQ # <<>> /\ Head(frameQ).t = t
Consumed == frameQ' = Tail(frameQ)

\* handleResponse: the answer to a call still in flight builds the sink, its
\* worker and its handler.
HandleResponse ==
    /\ NextFrame("resp") /\ Consumed
    /\ LET s == Head(frameQ).s
       IN  IF s \notin inflight
           THEN UNCHANGED <<inflight, handlers, worker, watch>>
           ELSE /\ inflight' = inflight \ {s}
                /\ handlers' = handlers \cup {s}
                /\ worker' = [worker EXCEPT ![s] = "run"]
                /\ watch' = watch \cup {s}
    /\ UNCHANGED <<serverVars, netVars, rx, xcur, lpc, closing, incoming,
                   incClosed, buf, cctx, given>>

\* handleChanMessage: a value without handler, one that cannot be decoded,
\* and one whose sink is cancelled, is dropped; any other is sent to the
\* sink with the lock held.
HandleValue ==
    /\ NextFrame("val") /\ Consumed
    /\ LET f == Head(frameQ)
       IN  xcur' = IF f.s \in handlers /\ f.v \notin Undecodable /\ cctx[f.s] = "live"
                   THEN [s |-> f.s, v |-> f.v] ELSE NoSend
    /\ UNCHANGED <<serverVars, netVars, rx, inflight, handlers, lpc, closing,
                   sinkVars>>

\* <-chanCtx.Done()
Abandoned(s) == cctx[s] # "live"

\* incoming <- val, unless the sink is abandoned.
SendIncoming ==
    /\ xcur # NoSend /\ xcur' = NoSend
    /\ \/ /\ Len(incoming[xcur.s]) < IncomingCap
          /\ incoming' = [incoming EXCEPT ![xcur.s] = Append(@, xcur.v)]
       \/ Abandoned(xcur.s) /\ UNCHANGED incoming
    /\ UNCHANGED <<serverVars, netVars, rx, frameQ, inflight, handlers, lpc,
                   closing, incClosed, buf, worker, cctx, watch, given>>

\* handleChanClose
HandleClose ==
    /\ NextFrame("close") /\ Consumed
    /\ LET s == Head(frameQ).s
       IN  /\ handlers' = handlers \ {s}
           /\ incClosed' = IF s \in handlers THEN [incClosed EXCEPT ![s] = TRUE]
                           ELSE incClosed
    /\ UNCHANGED <<serverVars, netVars, rx, xcur, inflight, lpc, closing,
                   incoming, buf, worker, cctx, watch, given>>

-----------------------------------------------------------------------------
(* The goroutines of a sink, and the program.                              *)

\* Variant: the worker holds one value at a time.
RoomForOne(s) == buf[s] = <<>>

\* The list of the worker has no limit.
Room(s) == TRUE

WorkerTake(s) ==
    /\ worker[s] = "run" /\ incoming[s] # <<>> /\ Room(s)
    /\ buf' = [buf EXCEPT ![s] = Append(@, Head(incoming[s]))]
    /\ incoming' = [incoming EXCEPT ![s] = Tail(@)]
    /\ UNCHANGED <<serverVars, netVars, connVars, incClosed, worker, cctx,
                   watch, given>>

\* A receive from the closed and empty channel: incomingCh = nil.
WorkerNoMore(s) ==
    /\ worker[s] = "run" /\ incClosed[s] /\ incoming[s] = <<>>
    /\ worker' = [worker EXCEPT ![s] = "nil"]
    /\ UNCHANGED <<serverVars, netVars, connVars, incoming, incClosed, buf,
                   cctx, watch, given>>

\* The program receives the first value of the list.
WorkerGive(s) ==
    /\ worker[s] \in {"run", "nil"} /\ buf[s] # <<>>
    /\ given' = [given EXCEPT ![s] = Append(@, Head(buf[s]))]
    /\ buf' = [buf EXCEPT ![s] = Tail(@)]
    /\ UNCHANGED <<serverVars, netVars, connVars, incoming, incClosed, worker,
                   cctx, watch>>

\* Variant: the end of `incoming' ends the worker, whatever it still holds.
DrainedAtOnce(s) == worker[s] = "nil"

\* incomingCh == nil && buf.Len() == 0
Drained(s) == worker[s] = "nil" /\ buf[s] = <<>>

\* The worker returns: the channel of the program is closed, and chanCtx
\* cancelled with errChannelClosed unless it already has a cause.
WorkerReturn(s) ==
    /\ Drained(s) \/ (worker[s] \in {"run", "nil"} /\ cctx[s] # "live")
    /\ worker' = [worker EXCEPT ![s] = "done"]
    /\ cctx' = [cctx EXCEPT ![s] = IF @ = "live" THEN "chan" ELSE @]
    /\ UNCHANGED <<serverVars, netVars, connVars, incoming, incClosed, buf,
                   watch, given>>

\* The program cancels the context of the call.
UserCancel(s) ==
    /\ s \in Cancels /\ worker[s] # "none" /\ cctx[s] = "live"
    /\ cctx' = [cctx EXCEPT ![s] = "user"]
    /\ UNCHANGED <<serverVars, netVars, connVars, incoming, incClosed, buf,
                   worker, watch, given>>

\* Variant: nothing is sent.
KeptQuiet(s) == c2s

\* xrpc.cancel is sent when the program cancelled, not when the stream ended.
Cancelled(s) == IF cctx[s] = "user" /\ netUp THEN c2s \cup {s} ELSE c2s

\* handleCtxAsync
WatchCancel(s) ==
    /\ s \in watch /\ cctx[s] # "live"
    /\ watch' = watch \ {s}
    /\ c2s' = Cancelled(s)
    /\ UNCHANGED <<serverVars, netUp, wire, connVars, incoming, incClosed, buf,
                   worker, cctx, given>>

-----------------------------------------------------------------------------
Server == \E s \in Streams : Register(s) \/ Take(s) \/ OutClosed(s) \/ CancelArrives(s)

Executor == HandleResponse \/ HandleValue \/ SendIncoming \/ HandleClose

Loop == CloseInFlight \/ SwapHandlers \/ (\E s \in Streams : CloseChan(s))

WorkerMoves(s) == WorkerTake(s) \/ WorkerNoMore(s) \/ WorkerReturn(s)

Next ==
    \/ Server \/ Break
    \/ Read \/ ReadFails \/ Loop \/ Executor
    \/ \E s \in Streams :
         \/ ProducerCloses(s) \/ UserCancel(s)
         \/ WorkerMoves(s) \/ WorkerGive(s) \/ WatchCancel(s)

Spec == Init /\ [][Next]_vars

\* Goroutines that can run do; the select of handleOutChans starves no
\* channel; the network moves frames while it is up and its end is noticed; a
\* method whose context is done closes its channel; the program reads the
\* channels of Readers.
Fairness ==
    /\ WF_vars(Read) /\ WF_vars(ReadFails)
    /\ WF_vars(Loop) /\ WF_vars(Executor)
    /\ \A s \in Streams :
         /\ SF_vars(OutClosed(s)) /\ WF_vars(CancelArrives(s))
         /\ WF_vars(s \in ctxd /\ ProducerCloses(s))
         /\ WF_vars(WorkerMoves(s)) /\ WF_vars(WatchCancel(s))
         /\ s \in Readers => WF_vars(WorkerGive(s))

FairSpec == Spec /\ Fairness

-----------------------------------------------------------------------------
(* Properties.                                                             *)

\* The type invariant of the module, with the limits of its queues.
TypeOK ==
    /\ prod \in [Streams -> {"none", "open", "closed"}]
    /\ made \in [Streams -> 0..MaxVals] /\ sent \in [Streams -> Seq(Good)]
    /\ ctxd \subseteq Streams /\ regs \subseteq Streams
    /\ netUp \in BOOLEAN /\ c2s \subseteq Streams
    /\ wire \in Seq(Frames) /\ Len(wire) <= MaxWire
    /\ rx \in BOOLEAN
    /\ frameQ \in Seq(Frames) /\ Len(frameQ) <= FrameQ
    /\ xcur \in [s : Streams, v : Values] \cup {NoSend}
    /\ inflight \subseteq Streams /\ handlers \subseteq Streams
    /\ lpc \in {"serve", "inflight", "swap", "chans"}
    /\ closing \subseteq Streams
    /\ incoming \in [Streams -> Seq(Values)]
    /\ \A s \in Streams : Len(incoming[s]) <= IncomingCap
    /\ buf \in [Streams -> Seq(Values)] /\ given \in [Streams -> Seq(Values)]
    /\ incClosed \in [Streams -> BOOLEAN]
    /\ worker \in [Streams -> {"none", "run", "nil", "done"}]
    /\ cctx \in [Streams -> {"live", "user", "chan"}]
    /\ watch \subseteq Streams

\* What has reached the sink of s or the program, oldest first.
Arrived(s) ==
    given[s] \o buf[s] \o incoming[s]
    \o (IF xcur.s = s THEN <<xcur.v>> ELSE <<>>)

\* The frames between handleOutChans and the executor, oldest first.
Way == frameQ \o wire

Carries(f, s) == f.t = "val" /\ f.s = s /\ f.v \in Good

\* The frames of q that carry a value of s carry the values of rest, in order.
Carried(q, s, rest) ==
    \E at \in [DOMAIN rest -> {i \in DOMAIN q : Carries(q[i], s)}] :
        /\ \A j, k \in DOMAIN rest : j < k => at[j] < at[k]
        /\ \A i \in DOMAIN q : Carries(q[i], s) => \E k \in DOMAIN rest : at[k] = i
        /\ \A k \in DOMAIN rest : q[at[k]].v = rest[k]

\* While the stream lives, every value taken from the channel is in exactly
\* one place, in order: the first ones have arrived, the rest is on the way.
\* None is lost, repeated or overtaken at any of the hand-overs
\* (handleOutChans, frameExecQueue, handleChanMessage, worker).
NothingLost ==
    \A s \in Streams : netUp /\ cctx[s] # "user" =>
        LET rest == SubSeq(sent[s], Len(Arrived(s)) + 1, Len(sent[s]))
        IN  sent[s] = Arrived(s) \o rest /\ Carried(Way, s, rest)

\* A value on its way to a sink finds it open: closeChans, which closes sinks
\* from the loop while the executor handles a value, never closes one under
\* it, which would panic (chanHandler.lk).
NoSendOnClosed == xcur # NoSend => ~incClosed[xcur.s]

\* The promise of the library about one stream, next to which others live.
Promise == INSTANCE Stream WITH
    Vals <- Good,
    sent <- sent[Observed],
    closed <- prod[Observed] = "closed",
    given <- given[Observed],
    cancelled <- cctx[Observed] = "user",
    lost <- ~netUp,
    ended <- worker[Observed] = "done"

\* The path implements the promise: the program reads what the method wrote,
\* in order and without gaps, and all of it unless it cancels or the
\* connection is lost (makeOutChan, handleOutChans).
KeepsPromise == Promise!Spec

\* A stream whose channel the method closed ends for a program that reads
\* it, whether or not the program reads the other streams of the connection:
\* the executor never waits for a program (client.go: the worker's list).
ReadersSeeTheEnd ==
    \A s \in Readers :
        (worker[s] # "none" /\ (prod[s] = "closed" \/ ~netUp)) ~> worker[s] = "done"

\* When the program cancels a call and the connection holds, the method is
\* told, and the registration of its channel goes away.
CancelReachesMethod ==
    \A s \in Streams : cctx[s] = "user" ~> s \notin regs \/ ~netUp
=============================================================================
