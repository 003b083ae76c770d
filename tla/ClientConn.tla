----------------------------- MODULE ClientConn -----------------------------
(***************************************************************************)
(* The client side of a websocket connection of go-jsonrpc: the callers of *)
(* the generated functions (client.go: handleRpcCall, doRequest), the main *)
(* loop of the connection (websocket.go: handleWsConn), the reader chain   *)
(* (nextMessage, readFrame), the frame executor (frameExecutor,            *)
(* handleResponse, handleChanMessage, handleChanClose), the reconnect      *)
(* goroutine of tryReconnect, and the goroutines of a stream: the buffer   *)
(* worker of makeOutChan and handleCtxAsync.                               *)
(*                                                                         *)
(* The network and the server are the environment: the wire towards the    *)
(* client loses its tail when the connection breaks, and the server        *)
(* answers the requests of the current connection in any order.            *)
(*                                                                         *)
(* A call has one JSON-RPC id for its whole life, so the call is its id;   *)
(* a call with the retry tag sends the same id again in a new attempt,     *)
(* with a new `ready' channel.  inflight[c] = a says that the map          *)
(* wsConn.inflight holds, under the id of c, the request of attempt a; 0   *)
(* says that the id is absent.                                             *)
(***************************************************************************)
EXTENDS Naturals, Sequences, FiniteSets

CONSTANTS
    Calls,          \* the calls made by the program, one id each
    ChanCalls,      \* those whose function returns a channel
    NotifyCalls,    \* those tagged notify: no id, no answer
    RetryCalls,     \* those tagged retry
    CtxCalls,       \* those whose function takes a context
    Reconnects,     \* connFactory # nil: WithNoReconnect was not used
    TimesOut,       \* pingInterval and timeout are not zero
    Endings,        \* what may end the connection: see Stop, CancelParent
                    \* and ChanMessagePanics
    MaxAttempts,    \* bound: sends of one call
    MaxGen,         \* bound: transports dialled, the first one included
    MaxChan,        \* bound: channel ids a server connection gives out
    MaxVals,        \* bound: stream values sent by the servers
    FrameQ,         \* maxQueuedFrames, the capacity of frameExecQueue
    NoSink          \* no handler under this channel id

ASSUME ClientConnAssumption ==
    /\ ChanCalls \subseteq Calls /\ NotifyCalls \subseteq Calls
    /\ RetryCalls \subseteq Calls /\ CtxCalls \subseteq Calls
    /\ ChanCalls \cap NotifyCalls = {}
    /\ Reconnects \in BOOLEAN /\ TimesOut \in BOOLEAN
    /\ Endings \subseteq {"stop", "parent", "panic"}
    /\ MaxAttempts \in Nat \ {0} /\ MaxGen \in Nat \ {0}
    /\ MaxChan \in Nat /\ MaxVals \in Nat /\ FrameQ \in Nat \ {0}
    /\ NoSink \notin Calls \X (1..MaxAttempts)

VARIABLES
    \* callers
    cpc,         \* where each call is
    att,         \* its current attempt
    ready,       \* what the `ready' channel of that attempt received
    ctxDone,     \* the calls whose context the program cancelled
    cancelSeen,  \* the calls whose doRequest saw that (its ctxDone is nil)
    \* main loop
    mpc, mreq,   \* where it is, and the request it is about to write
    inflight,    \* wsConn.inflight
    incomingErr, \* wsConn.incomingErr # nil
    stopReq,     \* the closer was called: wsConn.stop is closed
    ctxDead,     \* the context of the connection is done
    failed,      \* wsConn.failed is closed
    failing,     \* fail() has closed `failed' and not yet the transport
    \* transport, wire and server
    conn,        \* wsConn.conn, as the number of its dial
    open,        \* the transports this side has not closed
    netUp,       \* the current transport is connected to its server
    s2c,         \* frames sent by the server of the current transport
    srv,         \* requests that server is executing
    nchan,       \* channel ids that server gave out
    streams,     \* its open streams
    nvals,       \* values sent so far
    \* reader and frame executor
    rpc, rbuf,   \* where the reader chain is, and the frame it has read
    frameQ,      \* wsConn.frameExecQueue
    xpc, xreq,   \* where handleResponse is, and what it looked up
    \* streams on the client
    handlers,    \* wsConn.chanHandlers
    sink,        \* the `incoming' channel of each sink
    cause,       \* why the context of the sink is done
    workers,     \* sinks whose buffer worker runs
    watch,       \* sinks whose handleCtxAsync runs
    \* reconnect goroutine
    gpc, gens,   \* where it is, and how many transports were dialled
    \* history
    got,         \* <<sink, stream>>: a value of stream reached sink
    cancelled    \* calls for which a server received xrpc.cancel

callerVars == <<cpc, att, ready, ctxDone, cancelSeen>>
mainVars   == <<mpc, mreq, inflight, incomingErr>>
downVars   == <<stopReq, ctxDead, failed, failing>>
serverVars == <<srv, nchan, streams, nvals>>
netVars    == <<conn, open, netUp, s2c, serverVars>>
readVars   == <<rpc, rbuf, frameQ>>
execVars   == <<xpc, xreq>>
sinkVars   == <<handlers, sink, cause, workers, watch>>
dialVars   == <<gpc, gens>>
histVars   == <<got, cancelled>>

\* The goroutines that callers and the loop share state with, and the rest.
frontVars  == <<callerVars, mainVars, downVars>>
backVars   == <<readVars, execVars, sinkVars, dialVars, histVars>>

vars == <<frontVars, netVars, backVars>>

-----------------------------------------------------------------------------
Attempts == 1..MaxAttempts
Chids    == 1..MaxChan

\* A sink is what retCh() builds for one attempt of a call; a stream is what
\* the server opened for one attempt.
Sinks == Calls \X Attempts

\* c and a name the request the frame is about.  On the wire a response
\* carries only the id (c) and a stream frame only the channel id (ch): a is
\* there to state properties, and so is c in a stream frame.
Frames == [t : {"resp"}, c : Calls, a : Attempts, ch : 0..MaxChan]
          \cup [t : {"val", "close"}, c : Calls, a : Attempts, ch : Chids]

\* What a `ready' channel holds: nothing, an answer made by this side with
\* code eTempWSError, the empty answer to a notification, or an answer of a
\* server to attempt src.
Replies == [from : {"none", "local", "sent", "server"}, src : 0..MaxAttempts]
NoReply == [from |-> "none", src |-> 0]
LocalReply == [from |-> "local", src |-> 0]
SentReply == [from |-> "sent", src |-> 0]
ServerReplyTo(a) == [from |-> "server", src |-> a]

NoReq == [kind |-> "none"]
MainReqs == [kind : {"call", "cancel"}, c : Calls, a : Attempts]
ExecReqs == [kind : {"resp"}, c : Calls, a : Attempts, src : Attempts,
             ch : 0..MaxChan]

CallerStates == {"submit", "wait", "cancel", "sleep", "done"}
MainStates == {"select", "write", "rcInflight", "rcChans", "fail",
               "failTransport", "closeChans", "closeInFlight", "exit", "dead"}

exited == mpc = "dead"      \* wsConn.exiting is closed
ShuttingDown == failed \/ ctxDead

\* A write to the current transport reaches the server; one to a broken
\* transport may be accepted and lost; one to a closed transport fails.
WriteReaches == conn \in open /\ netUp
WriteMayBeLost == conn \in open /\ ~netUp
WriteMayFail == conn \notin open \/ ~netUp

Init ==
    /\ cpc = [c \in Calls |-> "submit"]
    /\ att = [c \in Calls |-> 1]
    /\ ready = [c \in Calls |-> NoReply]
    /\ ctxDone = {} /\ cancelSeen = {}
    /\ mpc = "select" /\ mreq = NoReq
    /\ inflight = [c \in Calls |-> 0]
    /\ incomingErr = FALSE
    /\ stopReq = FALSE /\ ctxDead = FALSE /\ failed = FALSE /\ failing = FALSE
    /\ conn = 1 /\ open = {1} /\ netUp = TRUE /\ s2c = <<>>
    /\ srv = {} /\ nchan = 0 /\ streams = {} /\ nvals = 0
    /\ rpc = "next" /\ rbuf = <<>> /\ frameQ = <<>>
    /\ xpc = "idle" /\ xreq = NoReq
    /\ handlers = [ch \in Chids |-> NoSink]
    /\ sink = [s \in Sinks |-> "none"]
    /\ cause = [s \in Sinks |-> "live"]
    /\ workers = {} /\ watch = {}
    /\ gpc = "none" /\ gens = 1
    /\ got = {} /\ cancelled = {}

\* clientRequest.respond: a send that is dropped when the buffer of the
\* `ready' channel of that attempt is full.
Responded(rdy, c, a, r) ==
    IF att[c] = a /\ rdy[c] = NoReply THEN [rdy EXCEPT ![c] = r] ELSE rdy

\* Variant: the id stays registered.
StaysRegistered(c) == inflight

\* delete(c.inflight, id)
Unregistered(c) == [inflight EXCEPT ![c] = 0]

\* Variant: the transport is left open.
TransportLeftOpen == open

\* closeTransport: the current transport is closed on this side.
TransportClosed == open \ {conn}

-----------------------------------------------------------------------------
(* The callers: handleRpcCall and doRequest.  A caller in state "submit"   *)
(* offers its request to the loop, now or whenever the program makes the   *)
(* call.                                                                   *)

\* The main loop receives the request from `requests'; under writeLk it
\* either answers at once, because no connection is there, or registers the
\* request.  Both happen before anybody else can see the request.
AcceptRequest(c) ==
    /\ mpc = "select" /\ cpc[c] = "submit"
    /\ cpc' = [cpc EXCEPT ![c] = "wait"]
    /\ IF incomingErr /\ c \notin NotifyCalls
       THEN /\ ready' = Responded(ready, c, att[c], LocalReply)
            /\ UNCHANGED <<mpc, mreq, inflight>>
       ELSE /\ mpc' = "write"
            /\ mreq' = [kind |-> "call", c |-> c, a |-> att[c]]
            /\ inflight' = IF c \in NotifyCalls THEN inflight
                           ELSE [inflight EXCEPT ![c] = att[c]]
            /\ UNCHANGED ready
    /\ UNCHANGED <<att, ctxDone, cancelSeen, incomingErr, downVars, netVars,
                   backVars>>

\* Variant: doRequest offers its request without watching `exiting'.
NeverLeaveSubmit(c) == FALSE

\* doRequest gives up before the request is accepted: "websocket routine
\* exiting".  Its `ready' channel stays empty.
LeaveSubmit(c) ==
    /\ cpc[c] = "submit" /\ exited
    /\ cpc' = [cpc EXCEPT ![c] = "done"]
    /\ UNCHANGED <<att, ready, ctxDone, cancelSeen, mainVars, downVars,
                   netVars, backVars>>

\* doRequest returns: with the queued answer, which it also prefers when the
\* connection has exited, or with an error when there is none.  A retry
\* method goes to sleep after a connection error.
LeaveWait(c) ==
    /\ cpc[c] = "wait"
    /\ ready[c] # NoReply \/ exited
    /\ cpc' = [cpc EXCEPT ![c] = IF c \in RetryCalls /\ ready[c] = LocalReply
                                 THEN "sleep" ELSE "done"]
    /\ UNCHANGED <<att, ready, ctxDone, cancelSeen, mainVars, downVars,
                   netVars, backVars>>

\* doRequest sees that the context of the call is done, once per attempt,
\* and from then on does nothing but submit the cancel request.
SeeCtxDone(c) ==
    /\ cpc[c] = "wait" /\ c \in ctxDone \ cancelSeen
    /\ cpc' = [cpc EXCEPT ![c] = "cancel"]
    /\ cancelSeen' = cancelSeen \cup {c}
    /\ UNCHANGED <<att, ready, ctxDone, mainVars, downVars, netVars,
                   backVars>>

\* The main loop receives the cancel request.  It has no id: it is neither
\* refused while the connection is down nor registered.
AcceptCancel(c) ==
    /\ mpc = "select" /\ cpc[c] = "cancel"
    /\ cpc' = [cpc EXCEPT ![c] = "wait"]
    /\ mpc' = "write"
    /\ mreq' = [kind |-> "cancel", c |-> c, a |-> att[c]]
    /\ UNCHANGED <<att, ready, ctxDone, cancelSeen, inflight, incomingErr,
                   downVars, netVars, backVars>>

\* The cancel request is given up because the connection exited.
GiveUpCancel(c) ==
    /\ cpc[c] = "cancel" /\ exited
    /\ cpc' = [cpc EXCEPT ![c] = "wait"]
    /\ UNCHANGED <<att, ready, ctxDone, cancelSeen, mainVars, downVars,
                   netVars, backVars>>

\* handleRpcCall sends the same request again, with a new `ready' channel.
Retry(c) ==
    /\ cpc[c] = "sleep" /\ att[c] < MaxAttempts
    /\ cpc' = [cpc EXCEPT ![c] = "submit"]
    /\ att' = [att EXCEPT ![c] = att[c] + 1]
    /\ ready' = [ready EXCEPT ![c] = NoReply]
    /\ cancelSeen' = cancelSeen \ {c}
    /\ UNCHANGED <<ctxDone, mainVars, downVars, netVars, backVars>>

-----------------------------------------------------------------------------
(* The program: it may cancel the context of a call, which is the parent   *)
(* of the context of its streams, call the closer, or cancel the context   *)
(* it gave to NewMergeClient.                                              *)

CancelCtx(c) ==
    /\ c \in CtxCalls \ ctxDone
    /\ ctxDone' = ctxDone \cup {c}
    /\ cause' = [s \in Sinks |-> IF s[1] = c /\ cause[s] = "live"
                                 THEN "user" ELSE cause[s]]
    /\ UNCHANGED <<cpc, att, ready, cancelSeen, mainVars, downVars, netVars,
                   readVars, execVars, handlers, sink, workers, watch,
                   dialVars, histVars>>

Stop ==
    /\ "stop" \in Endings /\ ~stopReq
    /\ stopReq' = TRUE
    /\ UNCHANGED <<callerVars, mainVars, ctxDead, failed, failing, netVars,
                   backVars>>

CancelParent ==
    /\ "parent" \in Endings /\ ~ctxDead
    /\ ctxDead' = TRUE
    /\ UNCHANGED <<callerVars, mainVars, stopReq, failed, failing, netVars,
                   backVars>>

-----------------------------------------------------------------------------
(* The main loop: handleWsConn, outside of teardown and reconnect.         *)

\* sendRequest of the accepted request succeeds: the server gets it, or a
\* broken transport swallows it.  A notification is answered now.
WriteOk ==
    /\ mpc = "write" /\ mpc' = "select" /\ mreq' = NoReq
    /\ \/ /\ WriteReaches
          /\ srv' = IF mreq.kind = "call" /\ mreq.c \notin NotifyCalls
                    THEN srv \cup {<<mreq.c, mreq.a>>} ELSE srv
          /\ cancelled' = IF mreq.kind = "cancel"
                          THEN cancelled \cup {mreq.c} ELSE cancelled
       \/ WriteMayBeLost /\ UNCHANGED <<srv, cancelled>>
    /\ ready' = IF mreq.kind = "call" /\ mreq.c \in NotifyCalls
                THEN Responded(ready, mreq.c, mreq.a, SentReply) ELSE ready
    /\ UNCHANGED <<cpc, att, ctxDone, cancelSeen, inflight, incomingErr,
                   downVars, conn, open, netUp, s2c, nchan, streams, nvals,
                   readVars, execVars, sinkVars, dialVars, got>>

\* sendRequest fails: the id is unregistered and the caller told.  Nobody
\* waits for the answer to a cancel request.
WriteError ==
    /\ mpc = "write" /\ mpc' = "select" /\ mreq' = NoReq
    /\ WriteMayFail
    /\ IF mreq.kind = "call"
       THEN /\ inflight' = Unregistered(mreq.c)
            /\ ready' = Responded(ready, mreq.c, mreq.a, LocalReply)
       ELSE UNCHANGED <<ready, inflight>>
    /\ UNCHANGED <<cpc, att, ctxDone, cancelSeen, incomingErr, downVars,
                   netVars, backVars>>

\* Variant: the closer is not heard while a reconnect is on its way.
ReturnDueWhenConnected == ShuttingDown \/ (stopReq /\ gpc = "none")

ReturnDue == ShuttingDown \/ stopReq

\* The loop returns: `failed' is closed, the context is done, or the closer
\* was called (a close message is tried first).  Its defers follow.
MainReturn ==
    /\ mpc = "select" /\ ReturnDue
    /\ mpc' = "fail"
    /\ UNCHANGED <<callerVars, mreq, inflight, incomingErr, downVars, netVars,
                   backVars>>

\* A frame begins: readFrame is started for it.
MainIncoming ==
    /\ mpc = "select" /\ rpc = "hand"
    /\ rpc' = "read"
    /\ UNCHANGED <<frontVars, netVars, rbuf, frameQ, execVars, sinkVars,
                   dialVars, histVars>>

\* The transport broke: `incoming' was closed, or readFrame failed.  The
\* first part of tryReconnect decides whether to reconnect and closes the
\* transport; otherwise the loop returns.
BeginReconnect ==
    /\ mpc = "select" /\ rpc \in {"closed", "readerr"}
    /\ rpc' = "none"
    /\ IF ShuttingDown \/ ~Reconnects
       THEN mpc' = "fail" /\ UNCHANGED open
       ELSE mpc' = "rcInflight" /\ open' = TransportClosed
    /\ UNCHANGED <<callerVars, mreq, inflight, incomingErr, downVars, conn,
                   netUp, s2c, serverVars, rbuf, frameQ, execVars, sinkVars,
                   dialVars, histVars>>

\* Variant: the map is emptied without answering.
DroppedInFlight(rdy) == rdy

\* closeInFlight: swap the map, then answer every request that was in it.
ClosedInFlight(rdy) ==
    [c \in Calls |-> IF inflight[c] # 0
                     THEN Responded(rdy, c, inflight[c], LocalReply)[c]
                     ELSE rdy[c]]

CloseInFlight ==
    /\ mpc \in {"rcInflight", "closeInFlight"}
    /\ mpc' = IF mpc = "rcInflight" THEN "rcChans" ELSE "exit"
    /\ inflight' = [c \in Calls |-> 0]
    /\ ready' = ClosedInFlight(ready)
    /\ UNCHANGED <<cpc, att, ctxDone, cancelSeen, mreq, incomingErr, downVars,
                   netVars, backVars>>

\* Variant: the map is emptied without closing the sinks.
DroppedSinks == sink

\* closeChans: swap the map, then close every sink that was in it.
ClosedSinks ==
    [s \in Sinks |-> IF \E ch \in Chids : handlers[ch] = s
                     THEN "closed" ELSE sink[s]]

\* At the end of a reconnect `failed' is checked again and the goroutine
\* that dials is started; at the end of the connection closeInFlight is next.
CloseChans ==
    /\ mpc \in {"rcChans", "closeChans"}
    /\ handlers' = [ch \in Chids |-> NoSink]
    /\ sink' = ClosedSinks
    /\ IF mpc = "closeChans" THEN mpc' = "closeInFlight" /\ UNCHANGED gpc
       ELSE IF failed THEN mpc' = "fail" /\ UNCHANGED gpc
       ELSE mpc' = "select" /\ gpc' = "dial"
    /\ UNCHANGED <<callerVars, mreq, inflight, incomingErr, downVars, netVars,
                   readVars, execVars, cause, workers, watch, gens, histVars>>

\* No traffic for the timeout: the transport is closed; only a connection
\* that cannot reconnect ends.
MainTimeout ==
    /\ TimesOut /\ mpc = "select" /\ conn \in open
    /\ open' = TransportClosed
    /\ mpc' = IF Reconnects THEN "select" ELSE "fail"
    /\ UNCHANGED <<callerVars, mreq, inflight, incomingErr, downVars, conn,
                   netUp, s2c, serverVars, backVars>>

-----------------------------------------------------------------------------
(* Teardown: the defers of handleWsConn, and fail(), which also ends the   *)
(* connection when a goroutine of it panicked.                             *)

\* cancel() and the first half of fail(): whoever is first closes `failed'.
Fail ==
    /\ mpc = "fail" /\ mpc' = "failTransport"
    /\ ctxDead' = TRUE /\ failed' = TRUE
    /\ failing' = (failing \/ ~failed)
    /\ UNCHANGED <<callerVars, mreq, inflight, incomingErr, stopReq, netVars,
                   backVars>>

\* The second half of fail(): closeTransport.
FailTransport ==
    /\ failing /\ failing' = FALSE
    /\ open' = TransportClosed
    /\ UNCHANGED <<callerVars, mainVars, stopReq, ctxDead, failed, conn,
                   netUp, s2c, serverVars, backVars>>

\* failOnce.Do returns when fail() is complete, whoever ran it.
FailReturns ==
    /\ mpc = "failTransport" /\ ~failing
    /\ mpc' = "closeChans"
    /\ UNCHANGED <<callerVars, mreq, inflight, incomingErr, downVars, netVars,
                   backVars>>

Exit ==
    /\ mpc = "exit" /\ mpc' = "dead"
    /\ UNCHANGED <<callerVars, mreq, inflight, incomingErr, downVars, netVars,
                   backVars>>

-----------------------------------------------------------------------------
(* The reader chain: nextMessage, the rendezvous on `incoming', readFrame. *)

\* A read of the transport fails once it is closed on this side, or broken
\* with nothing left to read.
ReadMayFail == conn \notin open \/ (~netUp /\ s2c = <<>>)

NextMessageOk ==
    /\ rpc = "next" /\ s2c # <<>>
    /\ rpc' = "hand"
    /\ UNCHANGED <<frontVars, netVars, rbuf, frameQ, execVars, sinkVars,
                   dialVars, histVars>>

NextMessageError ==
    /\ rpc = "next" /\ ReadMayFail
    /\ incomingErr' = TRUE
    /\ rpc' = "closed"
    /\ UNCHANGED <<callerVars, mpc, mreq, inflight, downVars, netVars, rbuf,
                   frameQ, execVars, sinkVars, dialVars, histVars>>

\* io.ReadAll returns the frame, or fails: the rest of it was lost.  The
\* error leaves incomingErr alone.
ReadBody ==
    /\ rpc = "read" /\ s2c # <<>>
    /\ rbuf' = <<Head(s2c)>> /\ s2c' = Tail(s2c)
    /\ rpc' = "put"
    /\ UNCHANGED <<frontVars, conn, open, netUp, serverVars, frameQ, execVars,
                   sinkVars, dialVars, histVars>>

ReadBodyError ==
    /\ rpc = "read" /\ ReadMayFail
    /\ rpc' = "readerr"
    /\ UNCHANGED <<frontVars, netVars, rbuf, frameQ, execVars, sinkVars,
                   dialVars, histVars>>

\* Variant: the newest frame is executed first.
QueuedFirst(q, f) == <<f>> \o q

\* The channel frameExecQueue is a FIFO.
Queued(q, f) == Append(q, f)

\* The frame is queued for the executor, when there is room, and the next
\* one is read.
Enqueue ==
    /\ rpc = "put" /\ Len(frameQ) < FrameQ
    /\ frameQ' = Queued(frameQ, rbuf[1])
    /\ rbuf' = <<>>
    /\ rpc' = "next"
    /\ UNCHANGED <<frontVars, netVars, execVars, sinkVars, dialVars,
                   histVars>>

\* The goroutine that holds a message or a frame ends with the connection.
\* (nextMessage does not look at the context, but `failed' follows it.)
ReaderQuit ==
    /\ \/ rpc = "hand" /\ (failed \/ exited)
       \/ rpc = "put" /\ ShuttingDown
       \/ rpc = "readerr" /\ ShuttingDown
    /\ rpc' = "none" /\ rbuf' = <<>>
    /\ UNCHANGED <<frontVars, netVars, frameQ, execVars, sinkVars, dialVars,
                   histVars>>

-----------------------------------------------------------------------------
(* The frame executor.                                                     *)

NextFrame(t) == xpc = "idle" /\ frameQ # <<>> /\ Head(frameQ).t = t

\* Variant: the id is not looked for.
LookupUnchecked ==
    /\ NextFrame("resp") /\ frameQ' = Tail(frameQ)
    /\ xpc' = "publish"
    /\ xreq' = [kind |-> "resp", c |-> Head(frameQ).c,
                a |-> inflight[Head(frameQ).c], src |-> Head(frameQ).a,
                ch |-> 0]
    /\ UNCHANGED <<frontVars, netVars, rpc, rbuf, sinkVars, dialVars,
                   histVars>>

\* handleResponse, first half: look the id up; when the answer carries a
\* channel id for a method that returns a channel, build the sink: its
\* channel, its context under the context of the call, and its worker.
LookupResponse ==
    /\ NextFrame("resp") /\ frameQ' = Tail(frameQ)
    /\ LET f == Head(frameQ)
           s == <<f.c, inflight[f.c]>>
       IN  IF inflight[f.c] = 0
           THEN UNCHANGED <<xpc, xreq, sink, cause, workers>>
           ELSE /\ xpc' = "publish"
                /\ xreq' = [kind |-> "resp", c |-> f.c, a |-> inflight[f.c],
                            src |-> f.a, ch |-> f.ch]
                /\ IF f.ch = 0 THEN UNCHANGED <<sink, cause, workers>>
                   ELSE /\ sink' = [sink EXCEPT ![s] = "open"]
                        /\ cause' = [cause EXCEPT ![s] =
                                       IF f.c \in ctxDone THEN "user" ELSE "live"]
                        /\ workers' = workers \cup {s}
    /\ UNCHANGED <<frontVars, netVars, rpc, rbuf, handlers, watch, dialVars,
                   histVars>>

\* Variant: any request under the id will do.
SameId(c, a) == inflight[c] # 0

\* current.ready = req.ready: the id still belongs to the request found.
SameRequest(c, a) == inflight[c] = a

\* Variant: `failed' is not checked.
PublishRefusedIfReplaced == ~SameRequest(xreq.c, xreq.a)

PublishRefused ==
    ~SameRequest(xreq.c, xreq.a) \/ (xreq.ch # 0 /\ failed)

\* handleResponse, second half, under inflightLk (and chanHandlersLk): the
\* request must still be the one looked up, and the connection must not have
\* failed, or the sink is closed again.
PublishResponse ==
    /\ xpc = "publish" /\ xpc' = "idle" /\ xreq' = NoReq
    /\ LET s == <<xreq.c, xreq.a>>
           chan == xreq.ch # 0
       IN  IF PublishRefused
           THEN /\ sink' = IF chan THEN [sink EXCEPT ![s] = "closed"] ELSE sink
                /\ UNCHANGED <<ready, inflight, handlers, watch>>
           ELSE /\ handlers' = IF chan THEN [handlers EXCEPT ![xreq.ch] = s]
                               ELSE handlers
                /\ watch' = IF chan THEN watch \cup {s} ELSE watch
                /\ ready' = Responded(ready, xreq.c, xreq.a,
                                      ServerReplyTo(xreq.src))
                /\ inflight' = Unregistered(xreq.c)
                /\ UNCHANGED sink
    /\ UNCHANGED <<cpc, att, ctxDone, cancelSeen, mpc, mreq, incomingErr,
                   downVars, netVars, readVars, cause, workers, dialVars,
                   histVars>>

\* handleChanMessage: the value goes to the sink registered under the
\* channel id, unless there is none or its context is done.
ChanMessage ==
    /\ NextFrame("val") /\ frameQ' = Tail(frameQ)
    /\ LET f == Head(frameQ)
           s == handlers[f.ch]
       IN  got' = IF s # NoSink /\ cause[s] = "live"
                  THEN got \cup {<<s, <<f.c, f.a>>>>} ELSE got
    /\ UNCHANGED <<frontVars, netVars, rpc, rbuf, execVars, sinkVars,
                   dialVars, cancelled>>

\* The decoder of the value panics: recoverPanic calls fail() and the
\* executor is gone.
ChanMessagePanics ==
    /\ "panic" \in Endings
    /\ NextFrame("val") /\ frameQ' = Tail(frameQ)
    /\ handlers[Head(frameQ).ch] # NoSink
    /\ xpc' = "done"
    /\ failed' = TRUE /\ failing' = (failing \/ ~failed)
    /\ UNCHANGED <<callerVars, mainVars, stopReq, ctxDead, netVars, rpc, rbuf,
                   xreq, sinkVars, dialVars, histVars>>

\* Variant: the handler stays registered.
StaysHandled(ch) == handlers

\* delete(c.chanHandlers, chid)
Unhandled(ch) == [handlers EXCEPT ![ch] = NoSink]

\* handleChanClose: unregister the sink and close it.
ChanClose ==
    /\ NextFrame("close") /\ frameQ' = Tail(frameQ)
    /\ LET s == handlers[Head(frameQ).ch]
       IN  IF s = NoSink THEN UNCHANGED <<handlers, sink>>
           ELSE /\ handlers' = Unhandled(Head(frameQ).ch)
                /\ sink' = [sink EXCEPT ![s] = "closed"]
    /\ UNCHANGED <<frontVars, netVars, rpc, rbuf, execVars, cause, workers,
                   watch, dialVars, histVars>>

ExecQuit ==
    /\ xpc = "idle" /\ ShuttingDown
    /\ xpc' = "done"
    /\ UNCHANGED <<frontVars, netVars, readVars, xreq, sinkVars, dialVars,
                   histVars>>

-----------------------------------------------------------------------------
(* The goroutines of a stream.                                             *)

\* The worker of makeOutChan ends: the sink was closed and the program read
\* what was buffered, or the context is done.  It closes the channel of the
\* program and cancels its context with errChannelClosed; the first cause
\* stays.
WorkerEnd(s) ==
    /\ s \in workers
    /\ sink[s] = "closed" \/ cause[s] # "live"
    /\ workers' = workers \ {s}
    /\ cause' = [cause EXCEPT ![s] = IF @ = "live" THEN "chan" ELSE @]
    /\ UNCHANGED <<frontVars, netVars, readVars, execVars, handlers, sink,
                   watch, dialVars, histVars>>

\* handleCtxAsync ends with the connection.
WatchEnd(s) ==
    /\ s \in watch
    /\ failed \/ exited
    /\ watch' = watch \ {s}
    /\ UNCHANGED <<frontVars, netVars, readVars, execVars, handlers, sink,
                   cause, workers, dialVars, histVars>>

\* Variant: the end of a stream is cancelled too.
CancelAlways(s) == TRUE

\* A stream whose channel was closed is not cancelled at the server.
CancelWanted(s) == cause[s] # "chan"

\* handleCtxAsync after the context of the sink is done: the cancel request
\* goes directly to the current transport; its failure is logged.
WatchCancel(s) ==
    /\ s \in watch /\ cause[s] # "live"
    /\ watch' = watch \ {s}
    /\ \/ /\ CancelWanted(s) /\ WriteReaches
          /\ cancelled' = cancelled \cup {s[1]}
       \/ /\ ~CancelWanted(s) \/ WriteMayFail
          /\ UNCHANGED cancelled
    /\ UNCHANGED <<frontVars, netVars, readVars, execVars, handlers, sink,
                   cause, workers, dialVars, got>>

-----------------------------------------------------------------------------
(* The goroutine of tryReconnect.                                          *)

\* A dial succeeds.  (One that fails is followed by the next after a
\* backoff: nothing changes.)
DialOk ==
    /\ gpc = "dial" /\ gens < MaxGen
    /\ gens' = gens + 1
    /\ open' = open \cup {gens + 1}
    /\ gpc' = "check"
    /\ UNCHANGED <<frontVars, conn, netUp, s2c, serverVars, readVars,
                   execVars, sinkVars, histVars>>

\* Variant: the goroutine gives up after a failed dial.
DialGivesUp ==
    /\ gpc = "dial"
    /\ gpc' = "none"
    /\ UNCHANGED <<frontVars, netVars, readVars, execVars, sinkVars, gens,
                   histVars>>

\* Between dials the goroutine ends with the connection.
DialQuit ==
    /\ gpc = "dial" /\ ShuttingDown
    /\ gpc' = "none"
    /\ UNCHANGED <<frontVars, netVars, readVars, execVars, sinkVars, gens,
                   histVars>>

\* The check after the dial.
CheckDialled ==
    /\ gpc = "check"
    /\ IF ShuttingDown
       THEN gpc' = "none" /\ open' = open \ {gens}
       ELSE gpc' = "install" /\ UNCHANGED open
    /\ UNCHANGED <<frontVars, conn, netUp, s2c, serverVars, readVars,
                   execVars, sinkVars, gens, histVars>>

\* Variant: no check under the locks.
InstallAlways == TRUE

InstallAllowed == ~ShuttingDown

\* Under writeLk and connMu: check once more, then make the new transport
\* the current one, clear incomingErr and start to read.  Its server knows
\* nothing of the old requests and numbers its channels from 1 again.
Install ==
    /\ gpc = "install" /\ gpc' = "none"
    /\ IF InstallAllowed
       THEN /\ conn' = gens /\ netUp' = TRUE /\ s2c' = <<>>
            /\ srv' = {} /\ nchan' = 0 /\ streams' = {}
            /\ incomingErr' = FALSE
            /\ rpc' = "next"
            /\ UNCHANGED open
       ELSE /\ open' = open \ {gens}
            /\ UNCHANGED <<incomingErr, conn, netUp, s2c, srv, nchan, streams,
                           rpc>>
    /\ UNCHANGED <<callerVars, mpc, mreq, inflight, downVars, nvals, rbuf,
                   frameQ, execVars, sinkVars, gens, histVars>>

-----------------------------------------------------------------------------
(* The environment: network and server.                                    *)

\* The network breaks: the server is gone, and so may be the last frames it
\* sent.
Break ==
    /\ netUp /\ netUp' = FALSE
    /\ \E k \in 0..Len(s2c) : s2c' = SubSeq(s2c, 1, k)
    /\ srv' = {} /\ streams' = {}
    /\ UNCHANGED <<frontVars, conn, open, nchan, nvals, backVars>>

ServerAlive == netUp /\ conn \in open

\* The server answers a request: with a value or an error, or with the id of
\* a new channel.
ServerReply(s) ==
    /\ ServerAlive /\ s \in srv
    /\ srv' = srv \ {s}
    /\ \/ /\ s2c' = Append(s2c, [t |-> "resp", c |-> s[1], a |-> s[2], ch |-> 0])
          /\ UNCHANGED <<nchan, streams>>
       \/ /\ s[1] \in ChanCalls /\ nchan < MaxChan
          /\ nchan' = nchan + 1
          /\ streams' = streams \cup {<<nchan + 1, s>>}
          /\ s2c' = Append(s2c, [t |-> "resp", c |-> s[1], a |-> s[2],
                                 ch |-> nchan + 1])
    /\ UNCHANGED <<frontVars, conn, open, netUp, nvals, backVars>>

ServerValue ==
    /\ ServerAlive /\ nvals < MaxVals /\ nvals' = nvals + 1
    /\ \E st \in streams :
         s2c' = Append(s2c, [t |-> "val", c |-> st[2][1], a |-> st[2][2],
                             ch |-> st[1]])
    /\ UNCHANGED <<frontVars, conn, open, netUp, srv, nchan, streams,
                   backVars>>

ServerClose ==
    /\ ServerAlive
    /\ \E st \in streams :
         /\ streams' = streams \ {st}
         /\ s2c' = Append(s2c, [t |-> "close", c |-> st[2][1], a |-> st[2][2],
                                ch |-> st[1]])
    /\ UNCHANGED <<frontVars, conn, open, netUp, srv, nchan, nvals, backVars>>

-----------------------------------------------------------------------------
Caller(c) ==
    \/ AcceptRequest(c) \/ LeaveSubmit(c) \/ LeaveWait(c)
    \/ SeeCtxDone(c) \/ AcceptCancel(c) \/ GiveUpCancel(c) \/ Retry(c)

Program == (\E c \in Calls : CancelCtx(c)) \/ Stop \/ CancelParent

Main ==
    \/ WriteOk \/ WriteError \/ MainReturn \/ MainIncoming \/ BeginReconnect
    \/ CloseInFlight \/ CloseChans \/ Fail \/ FailReturns \/ Exit

Reader == NextMessageOk \/ NextMessageError \/ ReadBody \/ ReadBodyError
          \/ Enqueue \/ ReaderQuit

Executor == LookupResponse \/ PublishResponse \/ ChanMessage \/ ChanClose
            \/ ExecQuit

Stream(s) == WorkerEnd(s) \/ WatchEnd(s) \/ WatchCancel(s)

Dialer == DialOk \/ DialQuit \/ CheckDialled \/ Install

Environment == Break \/ (\E s \in Sinks : ServerReply(s)) \/ ServerValue
               \/ ServerClose

Next ==
    \/ \E c \in Calls : Caller(c)
    \/ Program
    \/ Main \/ MainTimeout \/ FailTransport
    \/ Reader
    \/ Executor \/ ChanMessagePanics
    \/ \E s \in Sinks : Stream(s)
    \/ Dialer
    \/ Environment

Spec == Init /\ [][Next]_vars
\* Fairness.  Goroutines that can run do run.  The loop is one goroutine; a
\* caller waits for its turn in the loop's select, whose random choice starves
\* nobody.  A server that is up answers its requests.  Nothing is assumed of
\* the program, of the network or of dialling.
Fairness ==
    /\ \A c \in Calls :
         /\ WF_vars(AcceptRequest(c)) /\ WF_vars(AcceptCancel(c))
         /\ WF_vars(LeaveSubmit(c) \/ LeaveWait(c) \/ GiveUpCancel(c))
    /\ WF_vars(Main) /\ WF_vars(FailTransport)
    /\ WF_vars(Reader) /\ WF_vars(Executor)
    /\ \A s \in Sinks : WF_vars(WorkerEnd(s)) /\ WF_vars(ServerReply(s))

FairSpec == Spec /\ Fairness

-----------------------------------------------------------------------------
(* Properties.                                                             *)

\* The type invariant of the module: the states of the callers and of every
\* goroutine, the in-flight map, the wire and the handler table.
TypeOK ==
    /\ cpc \in [Calls -> CallerStates]
    /\ att \in [Calls -> Attempts]
    /\ ready \in [Calls -> Replies]
    /\ ctxDone \subseteq Calls /\ cancelSeen \subseteq Calls
    /\ mpc \in MainStates
    /\ mreq \in MainReqs \cup {NoReq}
    /\ inflight \in [Calls -> 0..MaxAttempts]
    /\ incomingErr \in BOOLEAN
    /\ stopReq \in BOOLEAN /\ ctxDead \in BOOLEAN
    /\ failed \in BOOLEAN /\ failing \in BOOLEAN
    /\ conn \in Nat /\ open \subseteq Nat /\ netUp \in BOOLEAN
    /\ s2c \in Seq(Frames)
    /\ srv \subseteq Sinks
    /\ nchan \in 0..MaxChan /\ streams \subseteq (Chids \X Sinks)
    /\ nvals \in 0..MaxVals
    /\ rpc \in {"next", "hand", "closed", "read", "readerr", "put", "none"}
    /\ rbuf \in Seq(Frames) /\ frameQ \in Seq(Frames)
    /\ xpc \in {"idle", "publish", "done"}
    /\ xreq \in ExecReqs \cup {NoReq}
    /\ handlers \in [Chids -> Sinks \cup {NoSink}]
    /\ sink \in [Sinks -> {"none", "open", "closed"}]
    /\ cause \in [Sinks -> {"live", "user", "chan"}]
    /\ workers \subseteq Sinks /\ watch \subseteq Sinks
    /\ gpc \in {"none", "dial", "check", "install"}
    /\ gens \in Nat
    /\ got \subseteq (Sinks \X Sinks) /\ cancelled \subseteq Calls

Writing(c) == mpc = "write" /\ mreq.kind = "call" /\ mreq.c = c
Waiting(c) == cpc[c] \in {"wait", "cancel"}

\* A caller that waits without an answer is still owed one: its current
\* request is registered in wsConn.inflight, or it is a notification that
\* the loop is about to write, whatever reconnects, answers to earlier
\* attempts and write errors did (handleWsConn, handleResponse,
\* closeInFlight).
NoCallForgotten ==
    \A c \in Calls :
        Waiting(c) /\ ready[c] = NoReply =>
            IF c \in NotifyCalls THEN Writing(c) /\ mreq.a = att[c]
                                ELSE inflight[c] = att[c]

\* A registered request is the current attempt of a caller that waits, and
\* its `ready' buffer is empty: the send in respond() that drops the answer
\* when the buffer is full never drops the answer of a registered request.
InflightUnanswered ==
    \A c \in Calls :
        inflight[c] # 0 =>
            /\ inflight[c] = att[c] /\ c \notin NotifyCalls
            /\ Waiting(c) /\ ready[c] = NoReply

\* When `exiting' is closed every accepted request has been answered: the
\* branch of doRequest that returns "websocket routine exiting" to a caller
\* whose request was accepted is never taken.
AnsweredBeforeExit ==
    exited => \A c \in Calls : Waiting(c) => ready[c] # NoReply

\* A handler in chanHandlers has an open sink, and no sink is registered
\* under two channel ids: the callback never closes a closed channel and
\* never sends on one, which would panic.
HandlersOpen ==
    \A i \in Chids : handlers[i] # NoSink =>
        /\ sink[handlers[i]] = "open"
        /\ \A j \in Chids : handlers[j] = handlers[i] => j = i

\* An open sink is registered, or is in the hands of handleResponse, and at
\* the end of the connection none is left in the table: no channel of the
\* program is left open with nobody to close it.
SinkOwned ==
    /\ \A s \in Sinks : sink[s] = "open" =>
         \/ \E ch \in Chids : handlers[ch] = s
         \/ xpc = "publish" /\ xreq.ch # 0 /\ s = <<xreq.c, xreq.a>>
    /\ mpc \in {"closeInFlight", "exit", "dead"} =>
         \A ch \in Chids : handlers[ch] = NoSink

\* A value of a stream reaches only the channel of the call that opened the
\* stream, although channel ids start from 1 on every connection and frames
\* of an earlier connection may still be queued.
FramesReachOwnSink == \A p \in got : p[1] = p[2]

\* The transport of an earlier connection is closed before the next one is
\* dialled, and a dialled transport that is not current is in the hands of
\* the goroutine that dialled it.
OneTransport ==
    /\ open \subseteq {conn, gens}
    /\ gpc # "none" => conn \notin open
    /\ gens # conn /\ gens \in open => gpc \in {"check", "install"}

\* After fail() has returned the current transport is closed and stays so:
\* no reconnect puts a new one in its place.
ClosedAfterFail == failed /\ ~failing => conn \notin open

\* While the loop serves a connection that is not shutting down, somebody
\* reads the transport, or a reconnect is on its way; and incomingErr, which
\* refuses every call, is set only then.
NotDeaf ==
    mpc = "select" /\ ~ShuttingDown =>
        /\ rpc = "none" <=> gpc # "none"
        /\ incomingErr => rpc = "closed" \/ gpc # "none"

\* xrpc.cancel is sent only for calls whose context the program cancelled,
\* never because a stream ended by itself (handleCtxAsync).
CancelOnlyIfUserCancelled == cancelled \subseteq ctxDone

\* Every call without the retry tag returns, whatever breaks.
EveryCallReturns ==
    \A c \in Calls \ RetryCalls : cpc[c] = "submit" ~> cpc[c] = "done"

\* The closer, the end of the context and a panic all end the loop, in the
\* middle of a reconnect too: the closer, which waits for `exiting', returns.
ShutdownCompletes == (stopReq \/ ctxDead \/ failed) ~> exited

\* When the connection is lost the channel of every stream the program holds
\* is closed.
StreamsEnd ==
    \A s \in Sinks : (s \in workers /\ ~netUp) ~> s \notin workers
=============================================================================
