-------------------------- MODULE ClientSinkProofs --------------------------
(* Theorems about xrpc.cancel and about the handler table of ClientConn,   *)
(* for every value of its constants.                                       *)
EXTENDS ClientConnProofs

-----------------------------------------------------------------------------
(* xrpc.cancel.                                                            *)

\* Whatever is about to send xrpc.cancel for a call, or has recorded that
\* its context is done, does so after the program cancelled that context.
CancelCore ==
    /\ CancelOnlyIfUserCancelled
    /\ cancelSeen \subseteq ctxDone
    /\ \A c \in Calls : cpc[c] = "cancel" => c \in ctxDone
    /\ mpc = "write" /\ mreq.kind = "cancel" => mreq.c \in ctxDone
    /\ \A s \in Sinks : cause[s] = "user" => s[1] \in ctxDone

CancelInv == TypeInv /\ CancelCore

\* Every step keeps it: the only cause that handleCtxAsync reports is that
\* of the context of the call.
LEMMA CancelStep == CancelInv /\ [Next]_vars => CancelInv'
<1> SUFFICES ASSUME CancelInv, [Next]_vars PROVE CancelInv'
  OBVIOUS
<1>1. TypeInv'
  BY TypeStep DEF CancelInv
<1>2. CancelCore
  BY DEF CancelInv
<1>3. /\ cpc \in [Calls -> CallerStates]
      /\ cause \in [Sinks -> {"live", "user", "chan"}]
      /\ cancelled \subseteq Calls
      /\ mpc = "write" => mreq \in MainReqs
  BY DEF CancelInv, TypeInv, TypeOK, HeldOK
<1> USE <1>2 DEF CancelCore, CancelOnlyIfUserCancelled
<1>4. ASSUME UNCHANGED <<cancelled, cancelSeen, ctxDone, cause>>,
             \A c \in Calls : cpc'[c] = "cancel" => cpc[c] = "cancel",
             mpc' # "write" \/ UNCHANGED <<mpc, mreq>>
      PROVE  CancelCore'
  BY <1>4
<1>5. ASSUME NEW c \in Calls, AcceptRequest(c) PROVE CancelCore'
  <2>1. /\ UNCHANGED <<cancelled, cancelSeen, ctxDone, cause>>
        /\ \A d \in Calls : cpc'[d] = "cancel" => cpc[d] = "cancel"
        /\ mpc' = "write" => mreq'.kind = "call"
    BY <1>3, <1>5 DEF AcceptRequest, backVars, sinkVars, histVars
  <2> QED
    BY <2>1
<1>6. ASSUME NEW c \in Calls,
             LeaveSubmit(c) \/ LeaveWait(c) \/ GiveUpCancel(c) \/ Retry(c)
      PROVE  CancelCore'
  <2>1. /\ UNCHANGED <<cancelled, ctxDone, cause, mpc, mreq>>
        /\ cancelSeen' \subseteq cancelSeen
        /\ \A d \in Calls : cpc'[d] = "cancel" => cpc[d] = "cancel"
    BY <1>3, <1>6 DEF LeaveSubmit, LeaveWait, GiveUpCancel, Retry, mainVars,
       backVars, sinkVars, histVars
  <2> QED
    BY <2>1
<1>7. ASSUME NEW c \in Calls, SeeCtxDone(c) PROVE CancelCore'
  <2>1. /\ UNCHANGED <<cancelled, ctxDone, cause, mpc, mreq>>
        /\ c \in ctxDone /\ cancelSeen' = cancelSeen \cup {c}
        /\ \A d \in Calls : cpc'[d] = "cancel" => cpc[d] = "cancel" \/ d = c
    BY <1>3, <1>7 DEF SeeCtxDone, mainVars, backVars, sinkVars, histVars
  <2> QED
    BY <2>1
<1>8. ASSUME NEW c \in Calls, AcceptCancel(c) PROVE CancelCore'
  <2>1. /\ UNCHANGED <<cancelled, cancelSeen, ctxDone, cause>>
        /\ cpc[c] = "cancel" /\ mreq' = [kind |-> "cancel", c |-> c, a |-> att[c]]
        /\ \A d \in Calls : cpc'[d] = "cancel" => cpc[d] = "cancel"
    BY <1>3, <1>8 DEF AcceptCancel, backVars, sinkVars, histVars
  <2> QED
    BY <2>1
<1>9. ASSUME NEW c \in Calls, CancelCtx(c) PROVE CancelCore'
  <2>1. /\ UNCHANGED <<cancelled, cancelSeen, cpc, mpc, mreq>>
        /\ ctxDone' = ctxDone \cup {c}
        /\ \A s \in Sinks : cause'[s] = "user" => s[1] = c \/ cause[s] = "user"
    BY <1>3, <1>9 DEF CancelCtx, mainVars, histVars
  <2> QED
    BY <2>1
<1>10. ASSUME WriteOk PROVE CancelCore'
  <2>1. /\ UNCHANGED <<cancelSeen, ctxDone, cause, cpc>> /\ mpc' = "select"
        /\ \/ cancelled' = cancelled
           \/ mreq.kind = "cancel" /\ cancelled' = cancelled \cup {mreq.c}
    BY <1>10 DEF WriteOk, sinkVars
  <2>2. mreq.kind = "cancel" => mreq.c \in ctxDone
    BY <1>10 DEF WriteOk
  <2>3. cancelled' \subseteq ctxDone
    BY <2>1, <2>2
  <2> QED
    BY <2>1, <2>3
<1>11. ASSUME LookupResponse PROVE CancelCore'
  <2>1. UNCHANGED <<cancelled, cancelSeen, ctxDone, cpc, mpc, mreq>>
    BY <1>11 DEF LookupResponse, frontVars, callerVars, mainVars, histVars
  <2>2. ASSUME NEW s \in Sinks, cause'[s] = "user" PROVE s[1] \in ctxDone
    <3> DEFINE f == Head(frameQ)
               t == <<f.c, inflight[f.c]>>
    <3>1. \/ cause' = cause
          \/ cause' = [cause EXCEPT ![t] = IF f.c \in ctxDone THEN "user" ELSE "live"]
      BY <1>11 DEF LookupResponse
    <3>2. CASE cause' = cause
      BY <2>2, <3>2
    <3>3. CASE cause' = [cause EXCEPT ![t] = IF f.c \in ctxDone THEN "user" ELSE "live"]
      <4>1. CASE s = t
        <5>1. s[1] = f.c
          BY <4>1
        <5>2. cause'[s] = IF f.c \in ctxDone THEN "user" ELSE "live"
          BY <1>3, <3>3, <4>1
        <5> QED
          BY <2>2, <5>1, <5>2
      <4>2. CASE s # t
        BY <1>3, <2>2, <3>3, <4>2
      <4> QED
        BY <4>1, <4>2
    <3> QED
      BY <3>1, <3>2, <3>3
  <2> QED
    BY <2>1, <2>2
<1>12. ASSUME NEW s \in Sinks, WorkerEnd(s) PROVE CancelCore'
  <2>1. /\ UNCHANGED <<cancelled, cancelSeen, ctxDone, cpc, mpc, mreq>>
        /\ \A t \in Sinks : cause'[t] = "user" => cause[t] = "user"
    BY <1>3, <1>12 DEF WorkerEnd, frontVars, callerVars, mainVars, histVars
  <2> QED
    BY <2>1
<1>13. ASSUME NEW s \in Sinks, WatchCancel(s) PROVE CancelCore'
  <2>1. /\ UNCHANGED <<cancelSeen, ctxDone, cpc, mpc, mreq, cause>>
        /\ \/ cancelled' = cancelled
           \/ /\ cause[s] \notin {"live", "chan"}
              /\ cancelled' = cancelled \cup {s[1]}
    BY <1>13 DEF WatchCancel, CancelWanted, frontVars, callerVars, mainVars
  <2>2. cause[s] \notin {"live", "chan"} => s[1] \in ctxDone
    BY <1>3
  <2>3. cancelled' \subseteq ctxDone
    BY <2>1, <2>2
  <2> QED
    BY <2>1, <2>3
<1>14. ASSUME \/ WriteError \/ MainReturn \/ BeginReconnect \/ CloseInFlight
              \/ CloseChans \/ Fail \/ FailReturns \/ Exit \/ MainTimeout
      PROVE  CancelCore'
  <2>1. /\ UNCHANGED <<cancelled, cancelSeen, ctxDone, cpc, cause>>
        /\ mpc' # "write"
    BY <1>14 DEF WriteError, MainReturn, BeginReconnect, CloseInFlight,
       CloseChans, Fail, FailReturns, Exit, MainTimeout, callerVars, backVars,
       sinkVars, histVars
  <2> QED
    BY <1>4, <2>1
<1>15. ASSUME \/ Stop \/ CancelParent \/ MainIncoming \/ FailTransport
              \/ Reader \/ PublishResponse \/ ChanMessage \/ ChanClose
              \/ ExecQuit \/ ChanMessagePanics
              \/ (\E s \in Sinks : WatchEnd(s))
              \/ Dialer \/ Environment \/ UNCHANGED vars
      PROVE  CancelCore'
  <2>1. UNCHANGED <<cancelled, cancelSeen, ctxDone, cpc, mpc, mreq, cause>>
    BY <1>15
    DEF Stop, CancelParent, MainIncoming, FailTransport, Reader,
        NextMessageOk, NextMessageError, ReadBody, ReadBodyError, Enqueue,
        ReaderQuit, PublishResponse, ChanMessage, ChanClose, ExecQuit,
        ChanMessagePanics, WatchEnd, Dialer, DialOk, DialQuit, CheckDialled,
        Install, Environment, Break, ServerReply, ServerValue, ServerClose,
        vars, frontVars, backVars, callerVars, mainVars, sinkVars, histVars
  <2> QED
    BY <1>4, <2>1
<1>16. CancelCore'
  BY <1>5, <1>6, <1>7, <1>8, <1>9, <1>10, <1>11, <1>12, <1>13, <1>14, <1>15
     DEF Next, Caller, Program, Main, Executor, Stream
<1> QED
  BY <1>1, <1>16 DEF CancelInv

\* The server is told to cancel a call only when the program cancelled its
\* context: never by the end of a stream, of the connection, or of another
\* call (doRequest, handleCtxAsync).
THEOREM CancelsAreWanted == Spec => []CancelOnlyIfUserCancelled
<1>1. Init => CancelInv
  BY TypeInit DEF Init, CancelInv, CancelCore, CancelOnlyIfUserCancelled
<1>2. CancelInv => CancelOnlyIfUserCancelled
  BY DEF CancelInv, CancelCore
<1> QED
  BY <1>1, <1>2, CancelStep, PTL DEF Spec

-----------------------------------------------------------------------------
(* The handler table.                                                      *)

\* The sink that handleResponse has built and not yet registered.
InHand(s) == xpc = "publish" /\ xreq.ch # 0 /\ s = <<xreq.c, xreq.a>>

Handled(s) == \E ch \in Chids : handlers[ch] = s

\* An attempt whose request was not accepted yet.
Future(c, a) == a > att[c] \/ (a = att[c] /\ cpc[c] = "submit")

FutureWithoutSink ==
    \A c \in Calls, a \in Attempts : Future(c, a) => sink[<<c, a>>] = "none"

\* The sink of a registered request is not in the table.
UnansweredUnhandled ==
    \A c \in Calls : inflight[c] # 0 => ~Handled(<<c, inflight[c]>>)

InHandFresh ==
    xpc = "publish" /\ xreq.ch # 0 =>
        /\ sink[<<xreq.c, xreq.a>>] = "open"
        /\ ~Handled(<<xreq.c, xreq.a>>)
        /\ ~Future(xreq.c, xreq.a)

\* Once the loop runs its defers `failed' is closed, and after closeChans
\* nothing is registered any more.
EndedWithoutHandlers ==
    /\ mpc \in {"failTransport", "closeChans", "closeInFlight", "exit", "dead"}
         => failed
    /\ mpc \in {"closeInFlight", "exit", "dead"} =>
         \A ch \in Chids : handlers[ch] = NoSink

HandlerCore == HandlersOpen /\ FutureWithoutSink /\ UnansweredUnhandled
               /\ InHandFresh /\ EndedWithoutHandlers

HandlerInv == CallsInv /\ HandlerCore

\* A step that leaves the in-flight map, the answer that handleResponse holds,
\* the table and the sinks alone keeps the invariant, if it makes no attempt
\* new and does not go back from the teardown.
LEMMA HandlerFrame ==
    ASSUME HandlerCore, TypeInv,
           UNCHANGED <<inflight, xpc, xreq, handlers, sink>>,
           \A c \in Calls : att'[c] = att[c] /\ (cpc'[c] = "submit" => cpc[c] = "submit"),
           mpc' = mpc \/ mpc' \in {"select", "write", "rcInflight", "rcChans", "fail"},
           failed' = failed \/ failed'
    PROVE  HandlerCore'
<1>1. xpc = "publish" => xreq.c \in Calls /\ xreq.a \in Attempts
  BY DEF TypeInv, HeldOK, ExecReqs
<1>2. HandlersOpen' /\ EndedWithoutHandlers'
  BY DEF HandlerCore, HandlersOpen, EndedWithoutHandlers
<1>3. \A c \in Calls : \A a \in Attempts : Future(c, a)' => Future(c, a)
  BY DEF Future
<1>4. FutureWithoutSink' /\ UnansweredUnhandled' /\ InHandFresh'
  BY <1>1, <1>3 DEF HandlerCore, FutureWithoutSink, UnansweredUnhandled,
     InHandFresh, Handled
<1> QED
  BY <1>2, <1>4 DEF HandlerCore

\* It holds when the connection starts: no sink and no handler.
LEMMA HandlerInit == Init => HandlerInv
<1> SUFFICES ASSUME Init PROVE HandlerInv
  OBVIOUS
<1>1. CallsInv
  BY CallsInit
<1>2. HandlerCore
  <2>1. \A s : s \in Sinks => s # NoSink
    BY ClientConnAssumption DEF ClientConnAssumption, Sinks, Attempts
  <2>2. FutureWithoutSink
    BY DEF Init, FutureWithoutSink, Sinks
  <2> QED
    BY <2>1, <2>2 DEF Init, HandlerCore, HandlersOpen, UnansweredUnhandled,
       InHandFresh, EndedWithoutHandlers
<1> QED
  BY <1>1, <1>2 DEF HandlerInv

\* Every step keeps it.
LEMMA HandlerStep == HandlerInv /\ [Next]_vars => HandlerInv'
<1> SUFFICES ASSUME HandlerInv, [Next]_vars PROVE HandlerInv'
  OBVIOUS
<1>1. CallsInv' /\ TypeInv /\ CallsInv
  BY CallsStep DEF HandlerInv, CallsInv
<1>2. HandlerCore
  BY DEF HandlerInv
<1>3. /\ cpc \in [Calls -> CallerStates] /\ att \in [Calls -> Attempts]
      /\ inflight \in [Calls -> 0..MaxAttempts]
      /\ handlers \in [Chids -> Sinks \cup {NoSink}]
      /\ sink \in [Sinks -> {"none", "open", "closed"}]
      /\ xpc = "publish" => xreq \in ExecReqs
      /\ NoSink \notin Sinks
      /\ Attempts \subseteq Nat
      /\ \A c \in Calls : inflight[c] # 0 => inflight[c] \in Attempts
  BY <1>1, ClientConnAssumption
  DEF TypeInv, TypeOK, HeldOK, ClientConnAssumption, Sinks, Attempts
<1>4. \A c \in Calls : inflight[c] # 0 => inflight[c] = att[c] /\ cpc[c] # "submit"
  BY <1>1 DEF CallsInv, CallsCore, InflightUnanswered, Waiting
<1>5. xpc = "publish" => /\ xreq.c \in Calls /\ xreq.a \in Attempts
                         /\ xreq.ch \in 0..MaxChan
                         /\ <<xreq.c, xreq.a>> \in Sinks
  BY <1>3 DEF ExecReqs, Sinks
<1> USE <1>2 DEF HandlerCore
<1>6. ASSUME NEW c \in Calls, AcceptRequest(c) PROVE HandlerCore'
  <2>1. /\ cpc[c] = "submit" /\ cpc' = [cpc EXCEPT ![c] = "wait"]
        /\ inflight' = inflight \/ inflight' = [inflight EXCEPT ![c] = att[c]]
        /\ mpc = "select" /\ mpc' \in {"select", "write"}
        /\ UNCHANGED <<att, handlers, sink, xpc, xreq, failed>>
    BY <1>6 DEF AcceptRequest, downVars, backVars, execVars, sinkVars
  <2>2. ~Handled(<<c, att[c]>>)
    <3>1. <<c, att[c]>> \in Sinks /\ sink[<<c, att[c]>>] = "none"
      BY <1>3, <2>1 DEF FutureWithoutSink, Future, Sinks
    <3> QED
      BY <1>3, <3>1 DEF HandlersOpen, Handled
  <2>3. HandlersOpen' /\ EndedWithoutHandlers'
    BY <2>1 DEF HandlersOpen, EndedWithoutHandlers
  <2>4. UnansweredUnhandled'
    BY <1>3, <2>1, <2>2 DEF UnansweredUnhandled, Handled
  <2>5. \A d \in Calls : \A a \in Attempts : Future(d, a)' => Future(d, a)
    BY <1>3, <2>1 DEF Future
  <2>6. FutureWithoutSink' /\ InHandFresh'
    BY <1>5, <2>1, <2>5 DEF FutureWithoutSink, InHandFresh, Handled
  <2> QED
    BY <2>3, <2>4, <2>6
<1>7. ASSUME NEW c \in Calls, Retry(c) PROVE HandlerCore'
  <2>1. /\ cpc' = [cpc EXCEPT ![c] = "submit"]
        /\ att' = [att EXCEPT ![c] = att[c] + 1]
        /\ UNCHANGED <<inflight, mpc, handlers, sink, xpc, xreq, failed>>
    BY <1>7 DEF Retry, mainVars, downVars, backVars, execVars, sinkVars
  <2>2. HandlersOpen' /\ EndedWithoutHandlers' /\ UnansweredUnhandled'
    BY <2>1 DEF HandlersOpen, EndedWithoutHandlers, UnansweredUnhandled, Handled
  <2>3. /\ \A d \in Calls : att[d] \in Nat
        /\ \A d \in Calls : IF d = c THEN att'[d] = att[d] + 1
                           ELSE att'[d] = att[d] /\ cpc'[d] = cpc[d]
    BY <1>3, <2>1
  <2>4. ASSUME NEW d \in Calls, NEW a \in Attempts, Future(d, a)'
        PROVE  Future(d, a)
    <3>1. a \in Nat
      BY <1>3
    <3> QED
      BY <2>3, <2>4, <3>1 DEF Future
  <2>5. FutureWithoutSink' /\ InHandFresh'
    BY <1>5, <2>1, <2>4 DEF FutureWithoutSink, InHandFresh, Handled
  <2> QED
    BY <2>2, <2>5
<1>8. ASSUME WriteError \/ CloseInFlight PROVE HandlerCore'
  <2>1. \A d \in Calls : inflight'[d] # 0 => inflight'[d] = inflight[d]
    <3>1. CASE WriteError
      BY <1>1, <1>3, <3>1 DEF WriteError, Unregistered, TypeInv, TypeOK, HeldOK, MainReqs
    <3>2. CASE CloseInFlight
      BY <3>2 DEF CloseInFlight
    <3> QED
      BY <1>8, <3>1, <3>2
  <2>2. /\ UNCHANGED <<cpc, att, xpc, xreq, handlers, sink, failed>>
        /\ \/ mpc' \in {"select", "rcChans"}
           \/ mpc = "closeInFlight" /\ mpc' = "exit"
    BY <1>8 DEF WriteError, CloseInFlight, downVars, backVars, execVars, sinkVars
  <2>3. HandlersOpen' /\ EndedWithoutHandlers' /\ FutureWithoutSink' /\ InHandFresh'
    BY <2>2 DEF HandlersOpen, EndedWithoutHandlers, FutureWithoutSink,
       InHandFresh, Handled, Future
  <2>4. UnansweredUnhandled'
    BY <2>1, <2>2 DEF UnansweredUnhandled, Handled
  <2> QED
    BY <2>3, <2>4
<1>9. ASSUME CloseChans PROVE HandlerCore'
  <2>1. /\ handlers' = [ch \in Chids |-> NoSink] /\ sink' = ClosedSinks
        /\ UNCHANGED <<cpc, att, inflight, xpc, xreq, failed>>
        /\ \/ mpc' \in {"select", "fail"}
           \/ mpc = "closeChans" /\ mpc' = "closeInFlight"
    BY <1>9 DEF CloseChans, callerVars, downVars, execVars
  <2>2. HandlersOpen' /\ EndedWithoutHandlers'
    BY <2>1 DEF HandlersOpen, EndedWithoutHandlers
  <2>3. \A s : ~Handled(s)' \/ s = NoSink
    BY <2>1 DEF Handled
  <2>4. \A s \in Sinks : ~Handled(s) => sink'[s] = sink[s]
    BY <2>1 DEF ClosedSinks, Handled
  <2>5. \A c \in Calls : inflight[c] # 0 => <<c, inflight[c]>> \in Sinks
    BY <1>3 DEF Sinks
  <2>6. UnansweredUnhandled'
    BY <1>3, <2>1, <2>3, <2>5 DEF UnansweredUnhandled
  <2>7. InHandFresh'
    BY <1>3, <1>5, <2>1, <2>3, <2>4 DEF InHandFresh, Future
  <2>8. FutureWithoutSink'
    <3> SUFFICES ASSUME NEW c \in Calls, NEW a \in Attempts, Future(c, a)'
                 PROVE  sink'[<<c, a>>] = "none"
      BY DEF FutureWithoutSink
    <3>1. sink[<<c, a>>] = "none" /\ <<c, a>> \in Sinks
      BY <2>1 DEF FutureWithoutSink, Future, Sinks
    <3>2. ~Handled(<<c, a>>)
      BY <1>3, <3>1 DEF HandlersOpen, Handled
    <3> QED
      BY <2>4, <3>1, <3>2
  <2> QED
    BY <2>2, <2>6, <2>7, <2>8
<1>10. ASSUME LookupResponse PROVE HandlerCore'
  <2> DEFINE f == Head(frameQ)
             s == <<f.c, inflight[f.c]>>
  <2>1. /\ xpc = "idle" /\ f \in Frames
        /\ UNCHANGED <<cpc, att, inflight, mpc, handlers, failed>>
    BY <1>1, <1>10 DEF LookupResponse, NextFrame, TypeInv, TypeOK, frontVars,
       callerVars, mainVars, downVars
  <2>2. \/ UNCHANGED <<xpc, xreq, sink>>
        \/ /\ inflight[f.c] # 0 /\ xpc' = "publish"
           /\ xreq' = [kind |-> "resp", c |-> f.c, a |-> inflight[f.c],
                       src |-> f.a, ch |-> f.ch]
           /\ sink' = IF f.ch = 0 THEN sink ELSE [sink EXCEPT ![s] = "open"]
    BY <1>10 DEF LookupResponse
  <2>3. CASE UNCHANGED <<xpc, xreq, sink>>
    BY <1>1, <2>1, <2>3, HandlerFrame
  <2>4. CASE inflight[f.c] # 0 /\ ~UNCHANGED <<xpc, xreq, sink>>
    <3>1. /\ f.c \in Calls /\ s \in Sinks
          /\ ~Handled(s) /\ inflight[f.c] = att[f.c] /\ cpc[f.c] # "submit"
      BY <1>3, <1>4, <2>1, <2>4 DEF Frames, UnansweredUnhandled, Sinks
    <3>2. \A t \in Sinks : t # s => sink'[t] = sink[t]
      BY <1>3, <2>2, <2>4
    <3>3. HandlersOpen'
      BY <1>3, <2>1, <3>1, <3>2 DEF HandlersOpen, Handled
    <3>4. FutureWithoutSink'
      BY <1>3, <2>1, <3>1, <3>2 DEF FutureWithoutSink, Future, Sinks
    <3>5. UnansweredUnhandled' /\ EndedWithoutHandlers'
      BY <2>1 DEF UnansweredUnhandled, EndedWithoutHandlers, Handled
    <3>6. /\ xreq'.c = f.c /\ xreq'.a = inflight[f.c] /\ xreq'.ch = f.ch
          /\ f.ch # 0 => sink'[s] = "open"
      BY <1>3, <2>2, <2>4, <3>1
    <3>7. InHandFresh'
      <4>1. /\ \A ch \in Chids : handlers'[ch] # s
            /\ ~(inflight[f.c] > att'[f.c]) /\ cpc'[f.c] # "submit"
        BY <1>3, <2>1, <3>1 DEF Handled
      <4>2. xreq'.ch # 0 => sink'[<<xreq'.c, xreq'.a>>] = "open"
        BY <3>6
      <4> QED
        BY <3>6, <4>1, <4>2 DEF InHandFresh, Handled, Future
    <3> QED
      BY <3>3, <3>4, <3>5, <3>7
  <2> QED
    BY <2>2, <2>3, <2>4
<1>11. ASSUME PublishResponse PROVE HandlerCore'
  <2> DEFINE s == <<xreq.c, xreq.a>>
  <2>1. /\ xpc = "publish" /\ xpc' = "idle"
        /\ UNCHANGED <<cpc, att, mpc, failed>>
    BY <1>11 DEF PublishResponse, downVars
  <2>2. /\ s \in Sinks /\ xreq.c \in Calls /\ xreq.ch \in 0..MaxChan
        /\ xreq.ch # 0 => ~Handled(s) /\ sink[s] = "open"
                          /\ ~Future(xreq.c, xreq.a)
    BY <1>5, <2>1 DEF InHandFresh
  <2>3. InHandFresh'
    BY <2>1 DEF InHandFresh
  <2>4. CASE PublishRefused
    <3>1. /\ UNCHANGED <<inflight, handlers>>
          /\ sink' = IF xreq.ch # 0 THEN [sink EXCEPT ![s] = "closed"] ELSE sink
      BY <1>11, <2>4 DEF PublishResponse
    <3>2. HandlersOpen'
      BY <1>3, <2>2, <3>1 DEF HandlersOpen, Handled
    <3>3. FutureWithoutSink'
      BY <1>3, <2>1, <2>2, <3>1 DEF FutureWithoutSink, Future, Sinks
    <3>4. UnansweredUnhandled' /\ EndedWithoutHandlers'
      BY <2>1, <3>1 DEF UnansweredUnhandled, EndedWithoutHandlers, Handled
    <3> QED
      BY <2>3, <3>2, <3>3, <3>4
  <2>5. CASE ~PublishRefused
    <3>1. /\ inflight[xreq.c] = xreq.a /\ inflight' = [inflight EXCEPT ![xreq.c] = 0]
          /\ handlers' = IF xreq.ch # 0 THEN [handlers EXCEPT ![xreq.ch] = s]
                         ELSE handlers
          /\ xreq.ch # 0 => ~failed
          /\ UNCHANGED sink
      BY <1>11, <2>5 DEF PublishResponse, PublishRefused, SameRequest, Unregistered
    <3>2. \A ch \in Chids : handlers'[ch] = handlers[ch]
                            \/ (handlers'[ch] = s /\ ch = xreq.ch)
      BY <1>3, <3>1
    <3>3. HandlersOpen'
      BY <1>3, <2>2, <3>1, <3>2 DEF HandlersOpen, Handled, Chids
    <3>4. FutureWithoutSink'
      BY <2>1, <3>1 DEF FutureWithoutSink, Future
    <3>5. UnansweredUnhandled'
      <4> SUFFICES ASSUME NEW c \in Calls, inflight'[c] # 0, NEW ch \in Chids,
                          handlers'[ch] = <<c, inflight'[c]>>
                   PROVE  FALSE
        BY DEF UnansweredUnhandled, Handled
      <4>1. c # xreq.c /\ inflight'[c] = inflight[c]
        BY <1>3, <3>1
      <4>2. handlers'[ch] = handlers[ch]
        BY <3>2, <4>1
      <4> QED
        BY <4>1, <4>2 DEF UnansweredUnhandled, Handled
    <3>6. EndedWithoutHandlers'
      BY <2>1, <3>1 DEF EndedWithoutHandlers
    <3> QED
      BY <2>3, <3>3, <3>4, <3>5, <3>6
  <2> QED
    BY <2>4, <2>5
<1>12. ASSUME ChanClose PROVE HandlerCore'
  <2> DEFINE k == Head(frameQ).ch
             s == handlers[k]
  <2>1. /\ xpc = "idle" /\ xpc' = "idle"
        /\ UNCHANGED <<cpc, att, inflight, mpc, xreq, failed>>
    BY <1>12 DEF ChanClose, NextFrame, frontVars, callerVars, mainVars,
       downVars, execVars
  <2>2. k \in Chids
    BY <1>1, <1>12 DEF ChanClose, NextFrame, TypeInv, TypeOK, Frames
  <2>3. CASE UNCHANGED <<handlers, sink>>
    BY <1>1, <2>1, <2>3, HandlerFrame
  <2>4. CASE s # NoSink
    <3>1. /\ handlers' = [handlers EXCEPT ![k] = NoSink]
          /\ sink' = [sink EXCEPT ![s] = "closed"] /\ s \in Sinks
      BY <1>3, <1>12, <2>2, <2>4 DEF ChanClose, Unhandled
    <3>2. \A ch \in Chids : handlers'[ch] = IF ch = k THEN NoSink ELSE handlers[ch]
      BY <1>3, <3>1
    <3>3. \A t \in Sinks : t # s => sink'[t] = sink[t]
      BY <1>3, <3>1
    <3>4. HandlersOpen'
      BY <1>3, <2>2, <2>4, <3>2, <3>3 DEF HandlersOpen
    <3>5. FutureWithoutSink'
      <4> SUFFICES ASSUME NEW c \in Calls, NEW a \in Attempts, Future(c, a)'
                   PROVE  sink'[<<c, a>>] = "none"
        BY DEF FutureWithoutSink
      <4>1. sink[<<c, a>>] = "none" /\ <<c, a>> \in Sinks
        BY <2>1 DEF FutureWithoutSink, Future, Sinks
      <4>2. sink[s] = "open"
        BY <2>2, <2>4 DEF HandlersOpen
      <4> QED
        BY <3>3, <4>1, <4>2
    <3>6. UnansweredUnhandled'
      BY <1>3, <2>1, <3>2 DEF UnansweredUnhandled, Handled, Sinks
    <3>7. EndedWithoutHandlers' /\ InHandFresh'
      BY <2>1, <3>2 DEF EndedWithoutHandlers, InHandFresh
    <3> QED
      BY <3>4, <3>5, <3>6, <3>7
  <2> QED
    BY <1>12, <2>3, <2>4 DEF ChanClose
<1>13. ASSUME Fail \/ FailReturns \/ Exit PROVE HandlerCore'
  <2>1. /\ UNCHANGED <<cpc, att, inflight, xpc, xreq, handlers, sink>>
        /\ \/ mpc' = "failTransport" /\ failed'
           \/ mpc = "failTransport" /\ mpc' = "closeChans" /\ UNCHANGED failed
           \/ mpc = "exit" /\ mpc' = "dead" /\ UNCHANGED failed
    BY <1>13 DEF Fail, FailReturns, Exit, callerVars, downVars, backVars,
       execVars, sinkVars
  <2> QED
    BY <2>1 DEF HandlersOpen, FutureWithoutSink, UnansweredUnhandled, InHandFresh,
       EndedWithoutHandlers, Handled, Future
<1>14. ASSUME NEW c \in Calls,
              LeaveSubmit(c) \/ LeaveWait(c) \/ SeeCtxDone(c)
              \/ AcceptCancel(c) \/ GiveUpCancel(c)
       PROVE  HandlerCore'
  <2>1. /\ UNCHANGED <<inflight, xpc, xreq, handlers, sink, att, failed>>
        /\ \A d \in Calls : cpc'[d] = "submit" => cpc[d] = "submit"
        /\ mpc' = mpc \/ mpc' = "write"
    BY <1>3, <1>14 DEF LeaveSubmit, LeaveWait, SeeCtxDone, AcceptCancel,
       GiveUpCancel, mainVars, downVars, backVars, execVars, sinkVars
  <2> QED
    BY <1>1, <2>1, HandlerFrame
<1>15. ASSUME WriteOk \/ MainReturn \/ BeginReconnect \/ MainTimeout
       PROVE  HandlerCore'
  <2>1. /\ UNCHANGED <<inflight, xpc, xreq, handlers, sink, cpc, att, failed>>
        /\ mpc' \in {"select", "rcInflight", "fail"}
    BY <1>15 DEF WriteOk, MainReturn, BeginReconnect, MainTimeout, callerVars,
       downVars, backVars, execVars, sinkVars
  <2> QED
    BY <1>1, <2>1, HandlerFrame
<1>16. ASSUME ChanMessagePanics \/ ExecQuit PROVE HandlerCore'
  <2>1. /\ UNCHANGED <<inflight, handlers, sink, cpc, att, mpc>>
        /\ failed' = failed \/ failed'
        /\ xpc = "idle" /\ xpc' = "done"
    BY <1>16, Zenon DEF ChanMessagePanics, ExecQuit, NextFrame, frontVars,
       callerVars, mainVars, downVars, sinkVars
  <2> QED
    BY <2>1 DEF HandlersOpen, FutureWithoutSink, UnansweredUnhandled, InHandFresh,
       EndedWithoutHandlers, Handled, Future
<1>17. ASSUME \/ Program \/ MainIncoming \/ FailTransport \/ Reader
              \/ ChanMessage \/ (\E s \in Sinks : Stream(s))
              \/ Dialer \/ Environment \/ UNCHANGED vars
       PROVE  HandlerCore'
  <2>1. UNCHANGED <<inflight, xpc, xreq, handlers, sink, cpc, att, failed, mpc>>
    BY <1>17
    DEF Program, CancelCtx, Stop, CancelParent, MainIncoming, FailTransport,
        Reader, NextMessageOk, NextMessageError, ReadBody, ReadBodyError,
        Enqueue, ReaderQuit, ChanMessage, Stream, WorkerEnd, WatchEnd,
        WatchCancel, Dialer, DialOk, DialQuit, CheckDialled, Install,
        Environment, Break, ServerReply, ServerValue, ServerClose, vars,
        frontVars, backVars, callerVars, mainVars, downVars, execVars, sinkVars
  <2> QED
    BY <1>1, <2>1, HandlerFrame
<1>18. HandlerCore'
  BY <1>6, <1>7, <1>8, <1>9, <1>10, <1>11, <1>12, <1>13, <1>14, <1>15, <1>16,
     <1>17 DEF Next, Caller, Main, Executor
<1> QED
  BY <1>1, <1>18 DEF HandlerInv

LEMMA HandlerInvariant == Spec => []HandlerInv
  BY HandlerInit, HandlerStep, PTL DEF Spec

\* The callbacks that handleChanMessage and handleChanClose find in the
\* table never send on a closed channel and never close one twice, which
\* would panic: whatever the order of answers, stream frames, reconnects and
\* teardown, also when a channel id is given out again.
THEOREM HandlersStayOpen == Spec => []HandlersOpen
<1>1. HandlerInv => HandlersOpen
  BY DEF HandlerInv, HandlerCore
<1> QED
  BY <1>1, HandlerInvariant, PTL
=============================================================================
