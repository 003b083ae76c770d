------------------------------- MODULE Duplex -------------------------------
(***************************************************************************)
(* The two sides of a websocket connection that are both clients and       *)
(* servers: the generated functions of a client call methods of a server   *)
(* (websocket.go), whose methods call methods of that client through a     *)
(* reverse client (options_server.go: WithReverseClient).  Each side has   *)
(* one loop, handlers of the calls it received, and pings, all of which    *)
(* write to the transport under writeLk.                                   *)
(*                                                                         *)
(* Messages are larger than what the sockets buffer: a write lasts until   *)
(* the loop of the other side takes the message, or the transport fails.   *)
(* The client reconnects; each new transport has a new wsConn at the       *)
(* server, with a reverse client of its own, whose ids start from 1.       *)
(* ClientConn and ServerConn have the finer steps of each side; here the   *)
(* executor runs in the step that takes a message, and the teardown and    *)
(* the first half of a reconnect are a step each.                          *)
(***************************************************************************)
EXTENDS Naturals, FiniteSets

CONSTANTS
    Calls,          \* the calls of the client
    Reverses,       \* those whose methods call back, once
    MaxGen,         \* bound: transports
    PanicGens,      \* bound: transports on which the client's executor may panic
    Nobody          \* no call, no holder of a lock

ASSUME DuplexAssumption ==
    /\ Reverses \subseteq Calls /\ IsFiniteSet(Reverses)
    /\ MaxGen \in Nat \ {0} /\ PanicGens \subseteq 1..MaxGen
    /\ Nobody \notin Calls
    /\ (Calls \cup {Nobody}) \cap {"main", "ping", "error"} = {}

VARIABLES
    \* the client
    call,           \* each call, at its caller, who offers it now or later
    cmain, csend,   \* the loop, and the call it sends
    clk,            \* writeLk: "main", "ping", the reverse call answered, Nobody
    rh,             \* the handler of the reverse call of each call
    rerr,           \* incomingErr is set
    dialing,        \* the goroutine of tryReconnect
    stopped,        \* the closer was called
    failed,         \* the channel `failed' is closed
    failing,        \* by a fail() that is going to close the transport
    \* the transport
    gen,            \* transports so far; the last is c.conn
    copen,          \* the client did not close it
    net,            \* "up", "silent" (the peer is unreachable) or "reset"
    \* the server, for each transport
    smain, ssend,   \* the loop, and the call back it sends
    slk,            \* writeLk
    nextId,         \* the idCtr of the reverse client
    \* the server, for each call
    sh, sg,         \* its handler, and the transport it came from
    rid,            \* the id of its call back
    rres            \* how that ended: whose answer it got, or an error

cvars == <<call, cmain, csend, clk, rh, rerr, dialing, stopped, failed, failing>>
nvars == <<gen, copen, net>>
svars == <<smain, ssend, slk, nextId, sh, sg, rid, rres>>
vars  == <<cvars, nvars, svars>>

Gens == 1..MaxGen

Init ==
    /\ call = [f \in Calls |-> "offer"]
    /\ cmain = "select" /\ csend = Nobody /\ clk = Nobody
    /\ rh = [f \in Calls |-> "none"]
    /\ rerr = FALSE /\ dialing = FALSE /\ stopped = FALSE /\ failed = FALSE
    /\ failing = FALSE
    /\ gen = 1 /\ copen = TRUE /\ net = "up"
    /\ smain = [g \in Gens |-> "select"] /\ ssend = [g \in Gens |-> Nobody]
    /\ slk = [g \in Gens |-> Nobody] /\ nextId = [g \in Gens |-> 1]
    /\ sh = [f \in Calls |-> "none"] /\ sg = [f \in Calls |-> 0]
    /\ rid = [f \in Calls |-> 0] /\ rres = [f \in Calls |-> Nobody]

-----------------------------------------------------------------------------
(* The transport.                                                          *)

\* Both sides use the transport g, and what is written arrives.
Connected(g) == g = gen /\ copen /\ net = "up"

\* What is written on it fails, or is lost.
CBroken == ~copen \/ net = "reset"
SBroken(g) == g # gen \/ ~copen \/ net = "reset"

\* The network fails, at once or first without a sign.
Break ==
    /\ net = "up" /\ copen
    /\ net' \in {"silent", "reset"}
    /\ UNCHANGED <<cvars, gen, copen, svars>>

\* TCP gives up.
GiveUp ==
    /\ net = "silent" /\ net' = "reset"
    /\ UNCHANGED <<cvars, gen, copen, svars>>

-----------------------------------------------------------------------------
(* The callers of the client.                                              *)

\* doRequest: the connection is gone.
Refused(f) ==
    /\ call[f] = "offer" /\ cmain = "exited"
    /\ call' = [call EXCEPT ![f] = "failed"]
    /\ UNCHANGED <<cmain, csend, clk, rh, rerr, dialing, stopped, failed,
                   failing, nvars, svars>>

\* The closer; it then waits for the loop to exit.
Stop ==
    /\ ~stopped /\ ~failed /\ stopped' = TRUE
    /\ UNCHANGED <<call, cmain, csend, clk, rh, rerr, dialing, failed,
                   failing, nvars, svars>>

-----------------------------------------------------------------------------
(* The loop of the client.                                                 *)

Accept(f) ==
    /\ cmain = "select" /\ call[f] = "offer"
    /\ cmain' = "send" /\ csend' = f
    /\ UNCHANGED <<call, clk, rh, rerr, dialing, stopped, failed, failing,
                   nvars, svars>>

\* Under writeLk: no connection is known to be there, or the call is
\* registered.
Registers ==
    /\ cmain = "send" /\ clk = Nobody
    /\ IF rerr
       THEN /\ call' = [call EXCEPT ![csend] = "failed"]
            /\ cmain' = "select" /\ csend' = Nobody
       ELSE /\ call' = [call EXCEPT ![csend] = "wait"]
            /\ cmain' = "registered" /\ UNCHANGED csend
    /\ UNCHANGED <<clk, rh, rerr, dialing, stopped, failed, failing, nvars,
                   svars>>

\* sendRequest takes writeLk again, and the write begins.
LockForSend ==
    /\ cmain = "registered" /\ clk = Nobody
    /\ cmain' = "write" /\ clk' = "main"
    /\ UNCHANGED <<call, csend, rh, rerr, dialing, stopped, failed, failing,
                   nvars, svars>>

\* The write of a request ends.
Written == cmain' = "select" /\ csend' = Nobody /\ clk' = Nobody

\* It is lost, or fails and is answered with an error.
SendBroken ==
    /\ cmain = "write" /\ CBroken
    /\ Written
    /\ \/ copen /\ UNCHANGED call
       \/ call' = [call EXCEPT ![csend] = "failed"]
    /\ UNCHANGED <<rh, rerr, dialing, stopped, failed, failing, nvars, svars>>

\* nextMessage, readFrame: reading fails, by the deadline if nothing else.
ReaderFails ==
    /\ ~rerr /\ cmain # "exited"
    /\ ~copen \/ net # "up"
    /\ rerr' = TRUE
    /\ UNCHANGED <<call, cmain, csend, clk, rh, dialing, stopped, failed,
                   failing, nvars, svars>>

\* closeInFlight: every call that waits is answered with an error.
InFlightFailed == [f \in Calls |-> IF call[f] = "wait" THEN "failed" ELSE call[f]]

\* tryReconnect.
BeginReconnect ==
    /\ cmain = "select" /\ rerr /\ ~dialing /\ ~failed
    /\ copen' = FALSE /\ call' = InFlightFailed /\ dialing' = TRUE
    /\ UNCHANGED <<cmain, csend, clk, rh, rerr, stopped, failed, failing, gen,
                   net, svars>>

\* A new transport is dialled and installed, under writeLk.
Install ==
    /\ dialing /\ ~failed /\ gen < MaxGen
    /\ clk = Nobody
    /\ gen' = gen + 1 /\ copen' = TRUE /\ net' = "up"
    /\ rerr' = FALSE /\ dialing' = FALSE
    /\ UNCHANGED <<call, cmain, csend, clk, rh, stopped, failed, failing,
                   svars>>

\* The loop returns because of the closer or of a failure, and tears down.
Exit ==
    /\ cmain = "select" /\ (stopped \/ failed)
    /\ cmain' = "exited" /\ failed' = TRUE /\ dialing' = FALSE
    /\ copen' = FALSE /\ call' = InFlightFailed
    /\ UNCHANGED <<csend, clk, rh, rerr, stopped, failing, gen, net, svars>>

-----------------------------------------------------------------------------
(* The handlers of the client.                                             *)

\* The executor panics, in a frame that it took before; recoverPanic makes
\* that the end of the connection.
Panic ==
    /\ gen \in PanicGens /\ ~failed /\ ~stopped
    /\ failed' = TRUE /\ failing' = TRUE
    /\ UNCHANGED <<call, cmain, csend, clk, rh, rerr, dialing, stopped, nvars,
                   svars>>

\* Variant: fail() takes writeLk.
LockFree == clk = Nobody

\* fail() waits for nobody.
MayClose == TRUE

FailCloses ==
    /\ failing /\ MayClose
    /\ failing' = FALSE /\ copen' = FALSE
    /\ UNCHANGED <<call, cmain, csend, clk, rh, rerr, dialing, stopped,
                   failed, gen, net, svars>>

\* Variant: the lock is not waited for.
LockIgnored == TRUE

\* nextWriter can have the lock.
WriterFree == clk = Nobody

\* The method has returned, and nextWriter has the lock: the transport is the
\* current one, whichever it is by now.
LockForAnswer(f) ==
    /\ rh[f] = "run" /\ WriterFree
    /\ clk' = f /\ rh' = [rh EXCEPT ![f] = "write"]
    /\ UNCHANGED <<call, cmain, csend, rerr, dialing, stopped, failed,
                   failing, nvars, svars>>

AnswerBroken(f) ==
    /\ rh[f] = "write" /\ CBroken
    /\ clk' = Nobody /\ rh' = [rh EXCEPT ![f] = "done"]
    /\ UNCHANGED <<call, cmain, csend, rerr, dialing, stopped, failed,
                   failing, nvars, svars>>

-----------------------------------------------------------------------------
(* Pings of the client.  One that is written at once is no step; one that  *)
(* is not holds the lock until the other side reads again or the transport *)
(* fails.                                                                  *)

PingBlocks ==
    /\ clk = Nobody /\ cmain # "exited" /\ ~CBroken
    /\ net = "silent" \/ smain[gen] # "select"
    /\ clk' = "ping"
    /\ UNCHANGED <<call, cmain, csend, rh, rerr, dialing, stopped, failed,
                   failing, nvars, svars>>

PingWritten ==
    /\ clk = "ping" /\ (CBroken \/ (net = "up" /\ smain[gen] = "select"))
    /\ clk' = Nobody
    /\ UNCHANGED <<call, cmain, csend, rh, rerr, dialing, stopped, failed,
                   failing, nvars, svars>>

-----------------------------------------------------------------------------
(* The server: methods, and the reverse client they use.                   *)

\* Variant: the id is read, but not counted.
IdKept(g) == UNCHANGED nextId

\* idCtr.Add
IdTaken(g) == nextId' = [nextId EXCEPT ![g] = @ + 1]

\* A method calls back: handleRpcCall takes the next id.
CallBack(f) ==
    /\ sh[f] = "run" /\ f \in Reverses /\ rres[f] = Nobody
    /\ sh' = [sh EXCEPT ![f] = "offer"]
    /\ rid' = [rid EXCEPT ![f] = nextId[sg[f]]]
    /\ IdTaken(sg[f])
    /\ UNCHANGED <<cvars, nvars, smain, ssend, slk, sg, rres>>

\* The call back has ended.
Ended(f, how) ==
    /\ sh' = [sh EXCEPT ![f] = "run"] /\ rres' = [rres EXCEPT ![f] = how]

\* Variant: the reverse client does not know of the exit of its connection.
ExitUnknown(g) == FALSE

\* cl.exiting = conn.exiting
ExitSeen(g) == smain[g] = "exited"

CallBackRefused(f) ==
    /\ sh[f] = "offer" /\ ExitSeen(sg[f])
    /\ Ended(f, "error")
    /\ UNCHANGED <<cvars, nvars, smain, ssend, slk, nextId, sg, rid>>

\* The loop takes the call back.
SAccept(f) ==
    LET g == sg[f]
    IN  /\ sh[f] = "offer" /\ smain[g] = "select"
        /\ smain' = [smain EXCEPT ![g] = "send"]
        /\ ssend' = [ssend EXCEPT ![g] = f]
        /\ sh' = [sh EXCEPT ![f] = "accepted"]
        /\ UNCHANGED <<cvars, nvars, slk, nextId, sg, rid, rres>>

\* Like Registers, where the reader may have failed on a broken transport.
SRegisters(g) ==
    /\ smain[g] = "send" /\ slk[g] = Nobody
    /\ \/ /\ SBroken(g)
          /\ smain' = [smain EXCEPT ![g] = "select"]
          /\ ssend' = [ssend EXCEPT ![g] = Nobody]
          /\ Ended(ssend[g], "error")
       \/ /\ smain' = [smain EXCEPT ![g] = "registered"]
          /\ sh' = [sh EXCEPT ![ssend[g]] = "wait"]
          /\ UNCHANGED <<ssend, rres>>
    /\ UNCHANGED <<cvars, nvars, slk, nextId, sg, rid>>

SLockForSend(g) ==
    /\ smain[g] = "registered" /\ slk[g] = Nobody
    /\ smain' = [smain EXCEPT ![g] = "write"]
    /\ slk' = [slk EXCEPT ![g] = "main"]
    /\ UNCHANGED <<cvars, nvars, ssend, nextId, sh, sg, rid, rres>>

SWritten(g) ==
    /\ smain' = [smain EXCEPT ![g] = "select"]
    /\ ssend' = [ssend EXCEPT ![g] = Nobody]
    /\ slk' = [slk EXCEPT ![g] = Nobody]

SSendBroken(g) ==
    /\ smain[g] = "write" /\ SBroken(g)
    /\ SWritten(g)
    /\ \/ UNCHANGED <<sh, rres>>
       \/ Ended(ssend[g], "error")
    /\ UNCHANGED <<cvars, nvars, nextId, sg, rid>>

\* Reading fails: the loop returns.  The calls back that wait are answered
\* with an error.
SExit(g) ==
    LET waiting == {f \in Calls : sg[f] = g /\ sh[f] = "wait"}
    IN  /\ smain[g] = "select" /\ g <= gen /\ SBroken(g)
        /\ smain' = [smain EXCEPT ![g] = "exited"]
        /\ sh' = [f \in Calls |-> IF f \in waiting THEN "run" ELSE sh[f]]
        /\ rres' = [f \in Calls |-> IF f \in waiting THEN "error" ELSE rres[f]]
        /\ UNCHANGED <<cvars, nvars, ssend, slk, nextId, sg, rid>>

\* The method has returned; its answer is written like one of the client.
SLockForAnswer(f) ==
    /\ sh[f] = "run" /\ (f \in Reverses => rres[f] # Nobody)
    /\ slk[sg[f]] = Nobody
    /\ slk' = [slk EXCEPT ![sg[f]] = f] /\ sh' = [sh EXCEPT ![f] = "write"]
    /\ UNCHANGED <<cvars, nvars, smain, ssend, nextId, sg, rid, rres>>

SAnswerBroken(f) ==
    /\ sh[f] = "write" /\ SBroken(sg[f])
    /\ slk' = [slk EXCEPT ![sg[f]] = Nobody] /\ sh' = [sh EXCEPT ![f] = "done"]
    /\ UNCHANGED <<cvars, nvars, smain, ssend, nextId, sg, rid, rres>>

-----------------------------------------------------------------------------
(* Messages: the loop of one side takes what the other side writes.        *)

\* The server takes a request, and starts its method.
DeliverRequest ==
    /\ cmain = "write" /\ Connected(gen) /\ smain[gen] = "select"
    /\ Written
    /\ sh' = [sh EXCEPT ![csend] = "run"] /\ sg' = [sg EXCEPT ![csend] = gen]
    /\ UNCHANGED <<call, rh, rerr, dialing, stopped, failed, failing, nvars,
                   smain, ssend, slk, nextId, rid, rres>>

\* The server takes an answer to a call back, which it knows by its id.
DeliverCallBackAnswer(f) ==
    LET asked == {h \in Calls : /\ sg[h] = gen /\ sh[h] = "wait"
                                /\ rid[h] = rid[f]}
    IN  /\ rh[f] = "write" /\ Connected(gen) /\ smain[gen] = "select"
        /\ clk' = Nobody /\ rh' = [rh EXCEPT ![f] = "done"]
        /\ \/ asked = {} /\ UNCHANGED <<sh, rres>>
           \/ \E h \in asked : Ended(h, f)
        /\ UNCHANGED <<call, cmain, csend, rerr, dialing, stopped, failed,
                       failing, nvars, smain, ssend, slk, nextId, sg, rid>>

\* The client takes a call back, and starts its method.
DeliverCallBack ==
    /\ smain[gen] = "write" /\ Connected(gen)
    /\ cmain = "select" /\ ~rerr
    /\ SWritten(gen)
    /\ rh' = [rh EXCEPT ![ssend[gen]] = IF failed THEN "done" ELSE "run"]
    /\ UNCHANGED <<call, cmain, csend, clk, rerr, dialing, stopped, failed,
                   failing, nvars, nextId, sh, sg, rid, rres>>

\* The client takes an answer.
DeliverAnswer(f) ==
    /\ sh[f] = "write" /\ Connected(sg[f])
    /\ cmain = "select" /\ ~rerr
    /\ slk' = [slk EXCEPT ![gen] = Nobody] /\ sh' = [sh EXCEPT ![f] = "done"]
    /\ call' = [call EXCEPT ![f] = IF @ = "wait" THEN "answered" ELSE @]
    /\ UNCHANGED <<cmain, csend, clk, rh, rerr, dialing, stopped, failed,
                   failing, nvars, smain, ssend, nextId, sg, rid, rres>>

-----------------------------------------------------------------------------
ClientLoop ==
    \/ Registers \/ LockForSend \/ SendBroken \/ BeginReconnect \/ Exit
    \/ \E f \in Calls : Accept(f)

ClientHandler(f) ==
    LockForAnswer(f) \/ AnswerBroken(f)

ServerLoop(g) ==
    SRegisters(g) \/ SLockForSend(g) \/ SSendBroken(g) \/ SExit(g)

ServerHandler(f) ==
    \/ CallBack(f) \/ CallBackRefused(f) \/ SAccept(f)
    \/ SLockForAnswer(f) \/ SAnswerBroken(f)

Deliver ==
    \/ DeliverRequest \/ DeliverCallBack
    \/ \E f \in Calls : DeliverCallBackAnswer(f) \/ DeliverAnswer(f)

Next ==
    \/ Break \/ GiveUp \/ Stop \/ Panic \/ FailCloses \/ ReaderFails \/ Install
    \/ PingBlocks \/ PingWritten
    \/ ClientLoop \/ Deliver
    \/ \E f \in Calls :
         Refused(f) \/ ClientHandler(f) \/ ServerHandler(f)
    \/ \E g \in Gens : ServerLoop(g)

Spec == Init /\ [][Next]_vars

\* Goroutines run, methods return, the side that reads takes what is
\* written, and TCP gives up on a silent peer.  Nothing is assumed of the
\* program, of dialling, or of the network.
FairSpec ==
    /\ Spec
    /\ WF_vars(ClientLoop) /\ WF_vars(Deliver) /\ WF_vars(ReaderFails)
    /\ WF_vars(FailCloses)
    /\ WF_vars(GiveUp) /\ WF_vars(PingWritten)
    /\ \A f \in Calls : WF_vars(ClientHandler(f)) /\ WF_vars(ServerHandler(f))
    /\ \A g \in Gens : WF_vars(ServerLoop(g))

-----------------------------------------------------------------------------
(* Properties.                                                             *)

ClientTypeOK ==
    /\ call \in [Calls -> {"offer", "wait", "answered", "failed"}]
    /\ cmain \in {"select", "send", "registered", "write", "exited"}
    /\ csend \in Calls \cup {Nobody}
    /\ clk \in {"main", "ping", Nobody} \cup Calls
    /\ rh \in [Calls -> {"none", "run", "write", "done"}]
    /\ rerr \in BOOLEAN /\ dialing \in BOOLEAN /\ stopped \in BOOLEAN
    /\ failed \in BOOLEAN /\ failing \in BOOLEAN
    /\ gen \in Gens /\ copen \in BOOLEAN /\ net \in {"up", "silent", "reset"}

ServerTypeOK ==
    /\ smain \in [Gens -> {"select", "send", "registered", "write", "exited"}]
    /\ ssend \in [Gens -> Calls \cup {Nobody}]
    /\ slk \in [Gens -> {"main", Nobody} \cup Calls]
    /\ nextId \in [Gens -> 1..(Cardinality(Reverses) + 1)]
    /\ sh \in [Calls -> {"none", "run", "offer", "accepted", "wait", "write",
                         "done"}]
    /\ sg \in [Calls -> 0..MaxGen]
    /\ rid \in [Calls -> 0..Cardinality(Reverses)]
    /\ rres \in [Calls -> Calls \cup {"error", Nobody}]

OneWriter ==
    /\ (clk = "main") <=> (cmain = "write")
    /\ \A f \in Calls : (clk = f) <=> (rh[f] = "write")
    /\ \A g \in Gens :
         /\ (slk[g] = "main") <=> (smain[g] = "write")
         /\ \A f \in Calls : (slk[g] = f) <=> (sg[f] = g /\ sh[f] = "write")

\* The variables stay in their ranges, and writeLk is held by the one that
\* writes, so that no two write to a transport at once and none of them has
\* it replaced under its hands (gorilla/websocket allows one writer).
TypeOK == ClientTypeOK /\ ServerTypeOK /\ OneWriter

\* Both loops have something to send, so that neither reads.
Gridlock ==
    /\ cmain \notin {"select", "exited"} /\ smain[gen] \notin {"select", "exited"}
    /\ Connected(gen)

\* A failed connection ends, whoever is blocked in a write (fail: "must not
\* wait for writeLk").  One that the closer stops ends too, unless both loops
\* wait for each other to read.
ConnectionEnds ==
    /\ failed ~> cmain = "exited"
    /\ [](stopped => <>(cmain = "exited") \/ <>[]Gridlock)

\* A call back returns to the method that made it, whatever happens to the
\* connection it was made on, with the same exception
\* (TestReverseCallDroppedConn).
CallBacksReturn ==
    \A f \in Reverses :
      [](sh[f] = "offer" => <>(rres[f] # Nobody) \/ <>[]Gridlock)

\* A method gets the answer of its own call back, or an error.
OwnCallBackAnswered ==
    \A f \in Reverses : rres[f] \in {f, "error", Nobody}

\* What the answer to a call back can be: one that the client has given, that
\* no other call back got, and that is its own unless it was asked for on an
\* earlier connection.  On one connection no two call backs are mixed up,
\* whatever is refused, lost or answered late in between (idCtr, inflight).
StaleOrOwn ==
    \A f \in Reverses :
      LET h == rres[f]
      IN  h \in Calls =>
            /\ rh[h] = "done"
            /\ h # f => sg[h] < sg[f]
            /\ \A other \in Reverses : rres[other] = h => other = f
=============================================================================
