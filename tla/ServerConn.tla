----------------------------- MODULE ServerConn -----------------------------
(***************************************************************************)
(* The server side of a websocket connection of go-jsonrpc: the calls it   *)
(* receives (websocket.go: handleCall, cancelCtx), the goroutine that runs *)
(* each (handler.go: handle), the reservation of subscription slots        *)
(* (reserveSubscription), the hand-over of a returned channel              *)
(* (handleChanOut) to the goroutine that forwards the values of all        *)
(* channels (handleOutChans), and the teardown of handleWsConn.            *)
(*                                                                         *)
(* The methods and the goroutines that write to the channels they return   *)
(* are the program.  The frame executor is one goroutine, so that the      *)
(* frames it handles are steps here; the reader chain that feeds it is     *)
(* that of ClientConn, and here only tells that the network broke.  What   *)
(* reaches the client is recorded per request, in log.                     *)
(***************************************************************************)
EXTENDS Naturals, Sequences, FiniteSets

CONSTANTS
    Reqs,           \* the requests the client sends
    Ids,            \* JSON-RPC ids
    NoId,           \* the id of a notification
    id,             \* the id of each request; ids may repeat
    ChanReqs,       \* requests for a method that returns a channel
    Heedless,       \* those whose goroutine ignores its context
    Unencodable,    \* those whose result cannot be encoded
    Limit,          \* maxSubscriptions
    MaxVals,        \* bound: values written to one channel
    Endings,        \* bound: what may end the connection, next to the network
    NoReq           \* no request

ASSUME ServerConnAssumption ==
    /\ IsFiniteSet(Reqs)
    /\ NoId \notin Ids /\ NoReq \notin Reqs
    /\ id \in [Reqs -> Ids \cup {NoId}]
    /\ ChanReqs \subseteq Reqs /\ Heedless \subseteq Reqs
    /\ Unencodable \subseteq Reqs \ ChanReqs
    /\ Limit \in Nat \ {0} /\ MaxVals \in Nat
    /\ Endings \subseteq {"parent", "panic"}

VARIABLES
    \* calls
    hpc,        \* where the goroutine of each request is
    loaded,     \* the counter as reserveSubscription loaded it
    ctxd,       \* requests whose context is done
    finished,   \* requests whose finish() ran (finishOnce)
    handling,   \* wsConn.handling
    \* subscription slots
    subs,       \* wsConn.subscriptions
    holders,    \* requests whose `release' is set and was not called
    \* output channels
    prod,       \* the returned channel: its writer idle, writing, or closed
    nvals,      \* values written to it
    accepted,   \* the `accepted' channel of the registration
    opc,        \* where handleOutChans is
    regs,       \* registrations
    cases,      \* the channels of cases[2:]
    cur,        \* what it is about to write: chid of one, value of another
    outDone,    \* outChansDone is closed
    \* connection
    mpc,        \* where handleWsConn is
    xpc,        \* where the frame executor is
    ctxDead, failed, failing,   \* as in ClientConn
    tOpen,      \* the transport is open on this side
    netUp,      \* the client is connected
    log         \* what reached the client about each request

callVars == <<hpc, loaded, ctxd, finished, handling>>
slotVars == <<subs, holders>>
prodVars == <<prod, nvals>>
outVars  == <<accepted, opc, regs, cases, cur, outDone>>
connVars == <<mpc, xpc, ctxDead, failed, failing, tOpen, netUp>>

vars == <<callVars, slotVars, prodVars, outVars, connVars, log>>

-----------------------------------------------------------------------------
exited == mpc = "dead"
ShuttingDown == failed \/ ctxDead

\* Ended: the goroutine of r is gone; "dropped" is a call refused by
\* handleCall.
HandlerStates == {"unseen", "start", "check", "load", "cas", "run", "register",
                  "await", "error", "respond", "finish", "panicked", "end",
                  "dropped"}
Ended(r) == hpc[r] \in {"end", "dropped"}

\* The calls whose channel is registered.
Registered == {regs[i] : i \in DOMAIN regs}

\* A frame about r: its result, the id of its channel, a value of the channel
\* of src, or the close of the channel.
Frames == [t : {"result", "chan", "val", "close"}, src : Reqs]

NoCur == [chid |-> NoReq, src |-> NoReq]

Init ==
    /\ hpc = [r \in Reqs |-> "unseen"]
    /\ loaded = [r \in Reqs |-> 0]
    /\ ctxd = {} /\ finished = {}
    /\ handling = [i \in Ids |-> NoReq]
    /\ subs = 0 /\ holders = {}
    /\ prod = [r \in Reqs |-> "none"] /\ nvals = [r \in Reqs |-> 0]
    /\ accepted = [r \in Reqs |-> "none"]
    /\ opc = "none" /\ regs = <<>> /\ cases = <<>> /\ cur = NoCur
    /\ outDone = FALSE
    /\ mpc = "select" /\ xpc = "idle"
    /\ ctxDead = FALSE /\ failed = FALSE /\ failing = FALSE
    /\ tOpen = TRUE /\ netUp = TRUE
    /\ log = [r \in Reqs |-> <<>>]

\* A write of a frame about r: it reaches the client, or is lost in a broken
\* transport, or fails because the transport is closed or broken.
WriteReaches(r, t, src) ==
    /\ tOpen /\ netUp
    /\ log' = [log EXCEPT ![r] = Append(@, [t |-> t, src |-> src])]
WriteLost == tOpen /\ ~netUp /\ UNCHANGED log
WriteFails == ~(tOpen /\ netUp) /\ UNCHANGED log

\* Variant: whatever is registered under the id is removed.
HandlingWithoutIds(F) ==
    [i \in Ids |-> IF \E r \in F : id[r] = i THEN NoReq ELSE handling[i]]

\* c.handling[id] == call: only the own entry is removed.
HandlingWithout(F) ==
    [i \in Ids |-> IF handling[i] \in F THEN NoReq ELSE handling[i]]

\* finish() of the requests F: what finishOnce lets run.
Finish(F) ==
    LET new == F \ finished
    IN  /\ finished' = finished \cup new
        /\ ctxd' = ctxd \cup new
        /\ subs' = subs - Cardinality(new \cap holders)
        /\ holders' = holders \ new
        /\ handling' = HandlingWithout(new)

\* The first half of fail(): whoever is first closes `failed'.
Failing == failed' = TRUE /\ failing' = (failing \/ ~failed)

-----------------------------------------------------------------------------
(* The frame executor.                                                     *)

\* Variant: a call is accepted whatever happened to the connection.
NeverRefused(r) == FALSE

\* handleCall checks `failed' under handlingLk.
CallRefused(r) == id[r] # NoId /\ failed

\* handleCall: the call is registered under its id, an earlier call with the
\* same id is cancelled, and the goroutine of the call starts.  Its context
\* is a child of that of the connection.
HandleCall(r) ==
    /\ xpc = "idle" /\ hpc[r] = "unseen"
    /\ IF CallRefused(r)
       THEN /\ hpc' = [hpc EXCEPT ![r] = "dropped"]
            /\ ctxd' = ctxd \cup {r}
            /\ UNCHANGED handling
       ELSE /\ hpc' = [hpc EXCEPT ![r] = "start"]
            /\ ctxd' = ctxd \cup (IF ctxDead THEN {r} ELSE {})
                            \cup {p \in Reqs : id[r] # NoId /\ handling[id[r]] = p}
            /\ handling' = IF id[r] = NoId THEN handling
                           ELSE [handling EXCEPT ![id[r]] = r]
    /\ UNCHANGED <<loaded, finished, slotVars, prodVars, outVars, connVars, log>>

\* cancelCtx: xrpc.cancel for an id.
HandleCancel(i) ==
    /\ xpc = "idle" /\ handling[i] # NoReq
    /\ ctxd' = ctxd \cup {handling[i]}
    /\ UNCHANGED <<hpc, loaded, finished, handling, slotVars, prodVars, outVars,
                   connVars, log>>

ExecQuit ==
    /\ xpc = "idle" /\ ShuttingDown
    /\ xpc' = "done"
    /\ UNCHANGED <<callVars, slotVars, prodVars, outVars, mpc, ctxDead, failed,
                   failing, tOpen, netUp, log>>

-----------------------------------------------------------------------------
(* The goroutine of a call: handler.handle.                                *)

Goto(r, from, to) == hpc[r] = from /\ hpc' = [hpc EXCEPT ![r] = to]

\* The method is looked up; for one that returns a channel a slot is
\* reserved before it runs.
StartHandler(r) ==
    /\ \/ Goto(r, "start", "error")
       \/ r \in ChanReqs /\ Goto(r, "start", "check")
       \/ r \notin ChanReqs /\ Goto(r, "start", "run")
    /\ UNCHANGED <<loaded, ctxd, finished, handling, slotVars, prodVars, outVars,
                   connVars, log>>

\* reserveSubscription, its first select.
ReserveCheck(r) ==
    /\ \/ (r \in ctxd \/ failed \/ exited) /\ Goto(r, "check", "error")
       \/ ~(r \in ctxd \/ failed \/ exited) /\ Goto(r, "check", "load")
    /\ UNCHANGED <<loaded, ctxd, finished, handling, slotVars, prodVars, outVars,
                   connVars, log>>

\* Variant: one slot too many.
AboveLimit(count) == count > Limit

AtLimit(count) == count >= Limit

\* Its loop: the counter is loaded and compared with the limit, and
\* incremented if nobody changed it meanwhile.
ReserveLoad(r) ==
    /\ \/ AtLimit(subs) /\ Goto(r, "load", "error") /\ UNCHANGED loaded
       \/ /\ ~AtLimit(subs) /\ Goto(r, "load", "cas")
          /\ loaded' = [loaded EXCEPT ![r] = subs]
    /\ UNCHANGED <<ctxd, finished, handling, slotVars, prodVars, outVars,
                   connVars, log>>

\* Variant: the counter is incremented, not compared and swapped.
SwapAlways(r) == TRUE

SwapSucceeds(r) == subs = loaded[r]

ReserveCas(r) ==
    /\ \/ /\ SwapSucceeds(r) /\ Goto(r, "cas", "run")
          /\ subs' = subs + 1 /\ holders' = holders \cup {r}
       \/ ~SwapSucceeds(r) /\ Goto(r, "cas", "load") /\ UNCHANGED slotVars
    /\ UNCHANGED <<loaded, ctxd, finished, handling, prodVars, outVars, connVars,
                   log>>

\* The parameters are decoded and the method returns an error (or doCall
\* caught a panic of it, or the parameters are bad), or a result.  Nothing is
\* answered to a notification.
MethodReturns(r) ==
    /\ \/ Goto(r, "run", "error")
       \/ /\ r \notin ChanReqs
          /\ Goto(r, "run", IF id[r] = NoId THEN "finish" ELSE "respond")
    /\ UNCHANGED <<loaded, ctxd, finished, handling, slotVars, prodVars, outVars,
                   connVars, log>>

\* The method returns a channel, which somebody writes to from now on;
\* handleChanOut starts handleOutChans when it is not running yet.
MethodReturnsChan(r) ==
    /\ r \in ChanReqs
    /\ Goto(r, "run", IF id[r] = NoId THEN "finish" ELSE "register")
    /\ prod' = [prod EXCEPT ![r] = "open"]
    /\ opc' = IF opc = "none" /\ id[r] # NoId THEN "select" ELSE opc
    /\ UNCHANGED <<loaded, ctxd, finished, handling, slotVars, nvals, accepted,
                   regs, cases, cur, outDone, connVars, log>>

\* Variant: the shutdown of the connection ends the wait.
RefusedOrFailed(r) == outDone \/ accepted[r] = "no" \/ failed

\* After the hand-over only the decision, or the completed cleanup, counts.
Refused(r) == outDone \/ accepted[r] = "no"

\* handleChanOut gives up while it offers the registration, or while it
\* waits for the decision of handleOutChans.
RegisterFails(r) ==
    /\ \/ Goto(r, "register", "error") /\ (outDone \/ failed \/ exited)
       \/ Goto(r, "await", "error") /\ Refused(r)
    /\ UNCHANGED <<loaded, ctxd, finished, handling, slotVars, prodVars, outVars,
                   connVars, log>>

\* The registration was accepted: keepCtx, the goroutine ends and leaves
\* finish() to handleOutChans.
RegisterAccepted(r) ==
    /\ Goto(r, "await", "end") /\ accepted[r] = "yes"
    /\ UNCHANGED <<loaded, ctxd, finished, handling, slotVars, prodVars, outVars,
                   connVars, log>>

\* Variant: an error is not answered.
AnswersResults(r) == id[r] # NoId /\ hpc[r] = "respond" /\ r \notin Unencodable

\* Nothing is written for a notification, nor for a result that the encoder
\* refuses: the encoder writes all or nothing, and its error is only logged.
Answers(r) == id[r] # NoId /\ (hpc[r] = "respond" => r \notin Unencodable)

\* The result or the error is written.
Respond(r) ==
    /\ Goto(r, "respond", "finish") \/ Goto(r, "error", "finish")
    /\ IF Answers(r) THEN WriteReaches(r, "result", r) \/ WriteFails
       ELSE UNCHANGED log
    /\ UNCHANGED <<loaded, ctxd, finished, handling, slotVars, prodVars, outVars,
                   connVars>>

\* done(false): finish().
FinishCall(r) ==
    /\ Goto(r, "finish", "end")
    /\ Finish({r})
    /\ UNCHANGED <<loaded, prodVars, outVars, connVars, log>>

\* A panic that doCall does not catch, as in a decoder or the tracer: done()
\* runs first, then recoverPanic calls fail().
HandlerPanics(r) ==
    /\ "panic" \in Endings
    /\ Goto(r, "run", "panicked")
    /\ Finish({r})
    /\ UNCHANGED <<loaded, prodVars, outVars, connVars, log>>

HandlerFails(r) ==
    /\ Goto(r, "panicked", "end")
    /\ Failing
    /\ UNCHANGED <<loaded, ctxd, finished, handling, slotVars, prodVars, outVars,
                   mpc, xpc, ctxDead, tOpen, netUp, log>>

-----------------------------------------------------------------------------
(* The goroutine that writes to a returned channel: the program.           *)

\* It blocks in a send until somebody receives.
ProducerWrites(r) ==
    /\ prod[r] = "open" /\ nvals[r] < MaxVals
    /\ prod' = [prod EXCEPT ![r] = "writing"]
    /\ nvals' = [nvals EXCEPT ![r] = @ + 1]
    /\ UNCHANGED <<callVars, slotVars, outVars, connVars, log>>

\* It closes the channel when it is done, or, unless it is heedless, when it
\* sees that its context is, even while it waits to send.
ProducerCloses(r) ==
    /\ \/ prod[r] = "open"
       \/ prod[r] = "writing" /\ r \in ctxd \ Heedless
    /\ prod' = [prod EXCEPT ![r] = "closed"]
    /\ UNCHANGED <<callVars, slotVars, nvals, outVars, connVars, log>>

-----------------------------------------------------------------------------
(* handleOutChans.                                                         *)

\* A registration arrives: it is accepted, within the limit, and its answer,
\* the channel id, is written next.
OutRegister(r) ==
    /\ opc = "select"
    /\ Goto(r, "register", "await")
    /\ IF Len(regs) >= Limit
       THEN /\ accepted' = [accepted EXCEPT ![r] = "no"]
            /\ UNCHANGED <<opc, regs, cases, cur>>
       ELSE /\ accepted' = [accepted EXCEPT ![r] = "yes"]
            /\ regs' = Append(regs, r) /\ cases' = Append(cases, r)
            /\ opc' = "reply" /\ cur' = [chid |-> r, src |-> r]
    /\ UNCHANGED <<loaded, ctxd, finished, handling, slotVars, prodVars, outDone,
                   connVars, log>>

\* nextWriter: a transport that refuses the write is not noticed.
OutReply ==
    /\ opc = "reply" /\ opc' = "select" /\ cur' = NoCur
    /\ WriteReaches(cur.chid, "chan", cur.src) \/ WriteFails
    /\ UNCHANGED <<callVars, slotVars, prodVars, accepted, regs, cases, outDone,
                   connVars>>

\* A value is received from the channel of a case; it goes out under the
\* channel id of the registration in the same place.
OutReceive(i) ==
    /\ opc = "select" /\ i \in DOMAIN cases
    /\ prod[cases[i]] = "writing"
    /\ prod' = [prod EXCEPT ![cases[i]] = "open"]
    /\ opc' = "value" /\ cur' = [chid |-> regs[i], src |-> cases[i]]
    /\ UNCHANGED <<callVars, slotVars, nvals, accepted, regs, cases, outDone,
                   connVars, log>>

\* The value is written; one that cannot be encoded is dropped; an error of
\* the transport ends the loop, since a server does not reconnect.
OutValue ==
    /\ opc = "value" /\ cur' = NoCur
    /\ \/ WriteReaches(cur.chid, "val", cur.src) /\ opc' = "select"
       \/ WriteLost /\ opc' = "select"
       \/ UNCHANGED log /\ opc' = "select"
       \/ WriteFails /\ opc' = "cleanup"
    /\ UNCHANGED <<callVars, slotVars, prodVars, accepted, regs, cases, outDone,
                   connVars>>

\* The last element takes the place of the i-th.
SwapRemove(q, i) ==
    [j \in 1..Len(q) - 1 |-> IF j = i THEN q[Len(q)] ELSE q[j]]

\* Variant: the last registration is dropped, whichever channel closed.
RegsDropLast(i) == SubSeq(regs, 1, Len(regs) - 1)

\* registrations, next to cases.
RegsWithout(i) == SwapRemove(regs, i)

\* Variant: the client is not told.
ReportNothing(i) == opc' = "select" /\ cur' = NoCur

\* xrpc.ch.close is written next.
ReportClosed(i) == opc' = "close" /\ cur' = [chid |-> regs[i], src |-> cases[i]]

\* A channel was closed: its case and registration are removed, the call is
\* finished, and the client told.
OutClosed(i) ==
    /\ opc = "select" /\ i \in DOMAIN cases
    /\ prod[cases[i]] = "closed"
    /\ cases' = SwapRemove(cases, i) /\ regs' = RegsWithout(i)
    /\ Finish({regs[i]})
    /\ ReportClosed(i)
    /\ UNCHANGED <<hpc, loaded, prodVars, accepted, outDone, connVars, log>>

OutClose ==
    /\ opc = "close" /\ opc' = "select" /\ cur' = NoCur
    /\ WriteReaches(cur.chid, "close", cur.src) \/ WriteFails
    /\ UNCHANGED <<callVars, slotVars, prodVars, accepted, regs, cases, outDone,
                   connVars>>

OutExit ==
    /\ opc = "select" /\ failed
    /\ opc' = "cleanup"
    /\ UNCHANGED <<callVars, slotVars, prodVars, accepted, regs, cases, cur,
                   outDone, connVars, log>>

\* Variant: the registrations that are left are not finished.
LeftUnfinished == {}

LeftRegistered == Registered

\* The defers: finish what is left, fail(), close outChansDone.
OutCleanup ==
    /\ opc = "cleanup" /\ opc' = "fail"
    /\ Finish(LeftRegistered)
    /\ UNCHANGED <<hpc, loaded, prodVars, accepted, regs, cases, cur, outDone,
                   connVars, log>>

OutFail ==
    /\ opc = "fail" /\ opc' = "failTransport"
    /\ Failing
    /\ UNCHANGED <<callVars, slotVars, prodVars, accepted, regs, cases, cur,
                   outDone, mpc, xpc, ctxDead, tOpen, netUp, log>>

OutDone ==
    /\ opc = "failTransport" /\ ~failing
    /\ opc' = "dead" /\ outDone' = TRUE
    /\ UNCHANGED <<callVars, slotVars, prodVars, accepted, regs, cases, cur,
                   connVars, log>>

-----------------------------------------------------------------------------
(* The main loop, its defers, fail() and the network.                      *)

\* The loop returns when `failed' is closed, the context of the server is
\* done, or the transport is broken.
MainReturn ==
    /\ mpc = "select"
    /\ ShuttingDown \/ ~netUp \/ ~tOpen
    /\ mpc' = "cancel"
    /\ UNCHANGED <<callVars, slotVars, prodVars, outVars, xpc, ctxDead, failed,
                   failing, tOpen, netUp, log>>

\* The context of the connection is done, and with it that of its calls.
CancelAll ==
    /\ ctxDead' = TRUE
    /\ ctxd' = ctxd \cup {r \in Reqs : hpc[r] # "unseen"}

MainCancel ==
    /\ mpc = "cancel" /\ mpc' = "fail"
    /\ CancelAll
    /\ UNCHANGED <<hpc, loaded, finished, handling, slotVars, prodVars, outVars,
                   xpc, failed, failing, tOpen, netUp, log>>

MainFail ==
    /\ mpc = "fail" /\ mpc' = "failTransport"
    /\ Failing
    /\ UNCHANGED <<callVars, slotVars, prodVars, outVars, xpc, ctxDead, tOpen,
                   netUp, log>>

FailReturns ==
    /\ mpc = "failTransport" /\ ~failing
    /\ mpc' = "closeInFlight"
    /\ UNCHANGED <<callVars, slotVars, prodVars, outVars, xpc, ctxDead, failed,
                   failing, tOpen, netUp, log>>

\* The second half of closeInFlight: the calls in handling are cancelled.
CloseInFlight ==
    /\ mpc = "closeInFlight" /\ mpc' = "exit"
    /\ handling' = [i \in Ids |-> NoReq]
    /\ ctxd' = ctxd \cup {r \in Reqs : \E i \in Ids : handling[i] = r}
    /\ UNCHANGED <<hpc, loaded, finished, slotVars, prodVars, outVars, xpc,
                   ctxDead, failed, failing, tOpen, netUp, log>>

Exit ==
    /\ mpc = "exit" /\ mpc' = "dead"
    /\ UNCHANGED <<callVars, slotVars, prodVars, outVars, xpc, ctxDead, failed,
                   failing, tOpen, netUp, log>>

\* The second half of fail(): closeTransport.
FailTransport ==
    /\ failing /\ failing' = FALSE
    /\ tOpen' = FALSE
    /\ UNCHANGED <<callVars, slotVars, prodVars, outVars, mpc, xpc, ctxDead,
                   failed, netUp, log>>

\* The context of the server ends.
CancelParent ==
    /\ "parent" \in Endings
    /\ ~ctxDead /\ CancelAll
    /\ UNCHANGED <<hpc, loaded, finished, handling, slotVars, prodVars, outVars,
                   mpc, xpc, failed, failing, tOpen, netUp, log>>

Break ==
    /\ netUp /\ netUp' = FALSE
    /\ UNCHANGED <<callVars, slotVars, prodVars, outVars, mpc, xpc, ctxDead,
                   failed, failing, tOpen, log>>

-----------------------------------------------------------------------------
Handler(r) ==
    \/ StartHandler(r) \/ ReserveCheck(r) \/ ReserveLoad(r) \/ ReserveCas(r)
    \/ MethodReturns(r) \/ MethodReturnsChan(r) \/ RegisterFails(r)
    \/ RegisterAccepted(r) \/ Respond(r) \/ FinishCall(r) \/ HandlerFails(r)

OutChans ==
    \/ OutReply \/ OutValue \/ OutClose \/ OutExit \/ OutCleanup \/ OutFail
    \/ OutDone
    \/ \E r \in Reqs : OutRegister(r)
    \/ \E i \in 1..Cardinality(Reqs) : OutReceive(i) \/ OutClosed(i)

Main == MainReturn \/ MainCancel \/ MainFail \/ FailReturns \/ CloseInFlight
        \/ Exit

Next ==
    \/ \E r \in Reqs : HandleCall(r) \/ Handler(r) \/ HandlerPanics(r)
                       \/ ProducerWrites(r) \/ ProducerCloses(r)
    \/ \E i \in Ids : HandleCancel(i)
    \/ ExecQuit
    \/ OutChans \/ Main \/ FailTransport
    \/ CancelParent \/ Break

Spec == Init /\ [][Next]_vars

\* Fairness.  Goroutines that can run do run, methods return, and whoever
\* writes to a returned channel closes it once its context is done.
Fairness ==
    /\ \A r \in Reqs : /\ WF_vars(Handler(r))
                       /\ WF_vars(r \in ctxd /\ ProducerCloses(r))
                       /\ SF_vars(OutRegister(r))
    /\ WF_vars(OutChans) /\ WF_vars(Main) /\ WF_vars(FailTransport)

FairSpec == Spec /\ Fairness

-----------------------------------------------------------------------------
(* Properties.                                                             *)

\* The type invariant of the module: the places of the goroutines, and the
\* bounds of the counter of reserveSubscription and of what it loaded.
TypeOK ==
    /\ hpc \in [Reqs -> HandlerStates]
    /\ loaded \in [Reqs -> 0..Limit]
    /\ ctxd \subseteq Reqs /\ finished \subseteq Reqs
    /\ handling \in [Ids -> Reqs \cup {NoReq}]
    /\ subs \in 0..Limit /\ holders \subseteq Reqs
    /\ prod \in [Reqs -> {"none", "open", "writing", "closed"}]
    /\ nvals \in [Reqs -> 0..MaxVals]
    /\ accepted \in [Reqs -> {"none", "yes", "no"}]
    /\ opc \in {"none", "select", "reply", "value", "close", "cleanup", "fail",
                "failTransport", "dead"}
    /\ regs \in Seq(Reqs) /\ cases \in Seq(Reqs)
    /\ cur \in [chid : Reqs, src : Reqs] \cup {NoCur}
    /\ outDone \in BOOLEAN
    /\ mpc \in {"select", "cancel", "fail", "failTransport", "closeInFlight",
                "exit", "dead"}
    /\ xpc \in {"idle", "done"}
    /\ ctxDead \in BOOLEAN /\ failed \in BOOLEAN /\ failing \in BOOLEAN
    /\ tOpen \in BOOLEAN /\ netUp \in BOOLEAN
    /\ log \in [Reqs -> Seq(Frames)]

\* The counter of subscriptions is the number of calls that hold a slot, and
\* never exceeds the limit, however reservations, failed registrations,
\* closed channels and teardown interleave.
SlotsExact == subs = Cardinality(holders) /\ subs <= Limit

\* Every slot has an owner who will release it: a call whose goroutine has
\* not ended, or one whose channel is registered.
NoSlotLeak ==
    \A r \in holders :
        ~Ended(r) \/ (accepted[r] = "yes" /\ r \in Registered /\ ~outDone)

\* Registrations and select cases stay in step under swap-removal, and a
\* registered call holds a slot: the second limit check, in handleOutChans,
\* never refuses anybody.
RegistrationsAligned ==
    /\ regs = cases
    /\ opc \notin {"fail", "failTransport", "dead"} => Registered \subseteq holders
    /\ \A r \in Reqs : accepted[r] # "no"

NoCallAfterShutdown ==
    mpc \in {"exit", "dead"} => \A i \in Ids : handling[i] = NoReq

\* As long as the context of a call is live, the call is the one registered
\* under its id, so that xrpc.cancel and closeInFlight reach it, ids that
\* the client uses twice included; a refused call has no live context.  And
\* once closeInFlight ran no call with an id is registered any more, hence
\* none is live, whatever the executor still does.
StaysCancellable ==
    /\ \A r \in Reqs : hpc[r] # "unseen" /\ id[r] # NoId /\ r \notin ctxd =>
                       handling[id[r]] = r
    /\ \A i \in Ids : handling[i] # NoReq => handling[i] \notin finished
    /\ NoCallAfterShutdown

Kinds(q) == [i \in DOMAIN q |-> q[i].t]

\* What a client sees of a call: nothing, one result, or the channel id, then
\* values of that channel, then possibly its close.  Never a value before the
\* answer or after the close, never a second answer (not even when the
\* registration was accepted and handleChanOut reports the connection closed),
\* never a value of another channel.
WireGrammar ==
    \A r \in Reqs :
        LET q == Kinds(log[r])
        IN  /\ \A i \in DOMAIN q :
                 /\ q[i] \in {"result", "chan"} <=> i = 1
                 /\ q[i] = "result" => Len(q) = 1
                 /\ q[i] = "close" => i = Len(q)
            /\ \A i \in DOMAIN q : log[r][i].src = r

\* Every call with an id that a live connection received is answered, by its
\* goroutine or by handleOutChans, or the connection ends; except a call whose
\* result cannot be encoded, whose client waits for as long as both live.
CallsAnswered ==
    \A r \in Reqs \ Unencodable : (hpc[r] = "start" /\ id[r] # NoId)
                    ~> (log[r] # <<>> \/ failed \/ ~netUp)

\* When the connection ends every slot is given back, provided that the
\* methods return.
SlotsReturned == failed ~> (exited /\ holders = {})

\* A channel that its writer closed is reported to the client as closed.
CloseReported ==
    \A r \in Reqs :
        (prod[r] = "closed" /\ r \in Registered)
            ~> (failed \/ ~netUp \/ (log[r] # <<>> /\ log[r][Len(log[r])].t = "close"))
=============================================================================
