-------------------------- MODULE ClientConnProofs --------------------------
(* Theorems about ClientConn, for every value of its constants.            *)
EXTENDS ClientConn, TLAPS

-----------------------------------------------------------------------------
(* Type correctness.                                                       *)

\* What each program counter says of the variable it guards.
HeldOK ==
    /\ mpc = "write" => mreq \in MainReqs
    /\ xpc = "publish" => xreq \in ExecReqs
    /\ rpc = "put" => rbuf # <<>>

TypeInv == TypeOK /\ HeldOK

\* Every answer is a well-formed one.
LEMMA RepliesTyped ==
    /\ NoReply \in Replies /\ LocalReply \in Replies /\ SentReply \in Replies
    /\ \A a \in Attempts : ServerReplyTo(a) \in Replies
  BY ClientConnAssumption DEF ClientConnAssumption, Replies, NoReply, LocalReply,
     SentReply, ServerReplyTo, Attempts

\* `respond' keeps the type of the `ready' channels.
LEMMA RespondedType ==
    ASSUME NEW rdy \in [Calls -> Replies], NEW c \in Calls, NEW a, NEW r \in Replies
    PROVE  Responded(rdy, c, a, r) \in [Calls -> Replies]
  BY DEF Responded

\* delete(c.inflight, id) keeps the type of the in-flight map.
LEMMA UnregisteredType ==
    ASSUME inflight \in [Calls -> 0..MaxAttempts], NEW c \in Calls
    PROVE  Unregistered(c) \in [Calls -> 0..MaxAttempts]
  BY ClientConnAssumption DEF ClientConnAssumption, Unregistered

\* The types hold when handleWsConn starts.
LEMMA TypeInit == Init => TypeInv
<1> SUFFICES ASSUME Init PROVE TypeInv
  OBVIOUS
<1> USE ClientConnAssumption DEF ClientConnAssumption, Init
<1>1. /\ incomingErr \in BOOLEAN /\ stopReq \in BOOLEAN /\ ctxDead \in BOOLEAN
      /\ failed \in BOOLEAN /\ failing \in BOOLEAN /\ netUp \in BOOLEAN
  BY Zenon
<1>2. /\ cpc \in [Calls -> CallerStates] /\ att \in [Calls -> Attempts]
      /\ ready \in [Calls -> Replies] /\ inflight \in [Calls -> 0..MaxAttempts]
  BY RepliesTyped DEF CallerStates, Attempts
<1> QED
  BY <1>1, <1>2 DEF TypeInv, TypeOK, HeldOK, MainStates

\* Every step keeps the types.
LEMMA TypeStep == TypeInv /\ [Next]_vars => TypeInv'
<1> SUFFICES ASSUME TypeInv, [Next]_vars PROVE TypeInv'
  OBVIOUS
<1> USE ClientConnAssumption DEF TypeInv, TypeOK, HeldOK, ClientConnAssumption,
     CallerStates, MainStates, vars, frontVars, backVars, netVars, serverVars,
     callerVars, mainVars, downVars, readVars, execVars, sinkVars, dialVars,
     histVars
<1>1. ASSUME NEW c \in Calls, AcceptRequest(c) PROVE TypeInv'
  <2>1. ready' \in [Calls -> Replies]
    <3>1. ready' = ready \/ ready' = Responded(ready, c, att[c], LocalReply)
      BY <1>1 DEF AcceptRequest
    <3>2. ready \in [Calls -> Replies]
      OBVIOUS
    <3>3. Responded(ready, c, att[c], LocalReply) \in [Calls -> Replies]
      BY ONLY <1>1, <3>2, RepliesTyped, RespondedType, Zenon
    <3> QED
      BY <3>1, <3>2, <3>3, Zenon
  <2>2. inflight' \in [Calls -> 0..MaxAttempts]
    <3>1. inflight \in [Calls -> 0..MaxAttempts] /\ att[c] \in 1..MaxAttempts
      BY DEF Attempts
    <3>2. inflight' = inflight \/ inflight' = [inflight EXCEPT ![c] = att[c]]
      BY <1>1 DEF AcceptRequest
    <3> QED
      BY ONLY <3>1, <3>2
  <2>3. /\ mreq' \in MainReqs \cup {NoReq}
        /\ mpc' = "write" => mreq' \in MainReqs
    BY <1>1 DEF AcceptRequest, MainReqs, NoReq
  <2>4. cpc' \in [Calls -> CallerStates] /\ mpc' \in MainStates
    BY <1>1 DEF AcceptRequest
  <2> QED
    BY <1>1, <2>1, <2>2, <2>3, <2>4 DEF AcceptRequest
<1>2. ASSUME NEW c \in Calls, LeaveSubmit(c) PROVE TypeInv'
  BY <1>2 DEF LeaveSubmit
<1>3. ASSUME NEW c \in Calls, LeaveWait(c) PROVE TypeInv'
  BY <1>3 DEF LeaveWait
<1>4. ASSUME NEW c \in Calls, SeeCtxDone(c) PROVE TypeInv'
  BY <1>4 DEF SeeCtxDone
<1>5. ASSUME NEW c \in Calls, AcceptCancel(c) PROVE TypeInv'
  BY <1>5 DEF AcceptCancel, MainReqs, NoReq
<1>6. ASSUME NEW c \in Calls, GiveUpCancel(c) PROVE TypeInv'
  BY <1>6 DEF GiveUpCancel
<1>7. ASSUME NEW c \in Calls, Retry(c) PROVE TypeInv'
  BY <1>7 DEF Retry, NoReply, Replies, Attempts
<1>8. ASSUME NEW c \in Calls, CancelCtx(c) PROVE TypeInv'
  BY <1>8 DEF CancelCtx
<1>9. CASE Stop
  BY <1>9 DEF Stop
<1>10. CASE CancelParent
  BY <1>10 DEF CancelParent
<1>11. CASE WriteOk
  <2>1. mreq \in MainReqs
    BY <1>11 DEF WriteOk
  <2>2. mreq.c \in Calls /\ mreq.a \in Attempts
    BY <2>1 DEF MainReqs
  <2>3. ready' \in [Calls -> Replies]
    <3>1. ready' = ready \/ ready' = Responded(ready, mreq.c, mreq.a, SentReply)
      BY <1>11 DEF WriteOk
    <3>2. ready \in [Calls -> Replies]
      OBVIOUS
    <3>3. Responded(ready, mreq.c, mreq.a, SentReply) \in [Calls -> Replies]
      BY ONLY <2>2, <3>2, RepliesTyped, RespondedType
    <3> QED
      BY ONLY <3>1, <3>2, <3>3
  <2>4. srv' \subseteq Sinks /\ cancelled' \subseteq Calls
    BY <1>11, <2>2 DEF WriteOk, Sinks
  <2>5. mpc' = "select" /\ mreq' = NoReq
    BY <1>11 DEF WriteOk
  <2> QED
    BY <1>11, <2>3, <2>4, <2>5 DEF WriteOk
<1>12. CASE WriteError
  <2>1. mreq \in MainReqs
    BY <1>12 DEF WriteError
  <2>2. mreq.c \in Calls
    BY <2>1 DEF MainReqs
  <2>3. ready' \in [Calls -> Replies]
    <3>1. ready' = ready \/ ready' = Responded(ready, mreq.c, mreq.a, LocalReply)
      BY <1>12 DEF WriteError
    <3>2. ready \in [Calls -> Replies]
      OBVIOUS
    <3>3. Responded(ready, mreq.c, mreq.a, LocalReply) \in [Calls -> Replies]
      BY ONLY <2>2, <3>2, RepliesTyped, RespondedType
    <3> QED
      BY <3>1, <3>2, <3>3, Zenon
  <2>4. inflight' \in [Calls -> 0..MaxAttempts]
    <3>1. inflight' = inflight \/ inflight' = Unregistered(mreq.c)
      BY <1>12 DEF WriteError
    <3> QED
      BY <2>2, <3>1, UnregisteredType
  <2> QED
    BY <1>12, <2>1, <2>2, <2>3, <2>4 DEF WriteError
<1>13. CASE MainReturn
  BY <1>13 DEF MainReturn
<1>14. CASE MainIncoming
  BY <1>14 DEF MainIncoming
<1>15. CASE BeginReconnect
  <2>1. open' \subseteq Nat
    BY <1>15 DEF BeginReconnect, TransportClosed
  <2> QED
    BY <1>15, <2>1 DEF BeginReconnect
<1>16. CASE CloseInFlight
  BY <1>16 DEF CloseInFlight, ClosedInFlight, Responded, LocalReply, Replies
<1>17. CASE CloseChans
  BY <1>17 DEF CloseChans, ClosedSinks
<1>18. CASE Fail
  BY <1>18 DEF Fail
<1>19. CASE FailReturns
  BY <1>19 DEF FailReturns
<1>20. CASE Exit
  BY <1>20 DEF Exit
<1>21. CASE MainTimeout
  BY <1>21 DEF MainTimeout, TransportClosed
<1>22. CASE FailTransport
  <2>1. open' \subseteq Nat
    BY <1>22 DEF FailTransport, TransportClosed
  <2>2. failing' \in BOOLEAN
    BY <1>22, Zenon DEF FailTransport
  <2> QED
    BY <1>22, <2>1, <2>2 DEF FailTransport
<1>23. CASE NextMessageOk
  BY <1>23 DEF NextMessageOk
<1>24. CASE NextMessageError
  BY <1>24 DEF NextMessageError
<1>25. CASE ReadBody
  BY <1>25 DEF ReadBody
<1>26. CASE ReadBodyError
  BY <1>26 DEF ReadBodyError
<1>27. CASE Enqueue
  BY <1>27 DEF Enqueue, Queued
<1>28. CASE ReaderQuit
  BY <1>28 DEF ReaderQuit
<1>29. CASE LookupResponse
  <2>1. Head(frameQ) \in Frames /\ frameQ' \in Seq(Frames)
    BY <1>29 DEF LookupResponse, NextFrame
  <2>2. /\ Head(frameQ).c \in Calls /\ Head(frameQ).a \in Attempts
        /\ Head(frameQ).ch \in 0..MaxChan
    BY <2>1 DEF Frames, Chids
  <2>3. ASSUME inflight[Head(frameQ).c] # 0
       PROVE  inflight[Head(frameQ).c] \in Attempts
    BY <2>2, <2>3 DEF Attempts
  <2>4. /\ xpc' = "publish" => xreq' \in ExecReqs
        /\ xreq' \in ExecReqs \cup {NoReq}
    BY <1>29, <2>2, <2>3 DEF LookupResponse, ExecReqs
  <2>5. sink' \in [Sinks -> {"none", "open", "closed"}]
    BY <1>29 DEF LookupResponse
  <2>6. cause' \in [Sinks -> {"live", "user", "chan"}]
    BY <1>29 DEF LookupResponse
  <2>7. workers' \subseteq Sinks
    BY <1>29, <2>2, <2>3 DEF LookupResponse, Sinks
  <2> QED
    BY <1>29, <2>1, <2>2, <2>3, <2>4, <2>5, <2>6, <2>7 DEF LookupResponse
<1>30. CASE PublishResponse
  <2>1. xreq \in ExecReqs
    BY <1>30 DEF PublishResponse
  <2>2. /\ xreq.c \in Calls /\ xreq.a \in Attempts /\ xreq.src \in Attempts
        /\ xreq.ch \in 0..MaxChan /\ <<xreq.c, xreq.a>> \in Sinks
    BY <2>1 DEF ExecReqs, Sinks
  <2>3. xreq.ch # 0 => xreq.ch \in Chids
    BY <2>2 DEF Chids
  <2>4. ready' \in [Calls -> Replies]
    <3>1. \/ ready' = ready
          \/ ready' = Responded(ready, xreq.c, xreq.a, ServerReplyTo(xreq.src))
      BY <1>30 DEF PublishResponse
    <3>2. ready \in [Calls -> Replies]
      OBVIOUS
    <3>3. Responded(ready, xreq.c, xreq.a, ServerReplyTo(xreq.src)) \in [Calls -> Replies]
      BY ONLY <2>2, <3>2, RepliesTyped, RespondedType
    <3> QED
      BY <3>1, <3>2, <3>3, Zenon
  <2>5. inflight' \in [Calls -> 0..MaxAttempts]
    <3>1. inflight' = inflight \/ inflight' = Unregistered(xreq.c)
      BY <1>30 DEF PublishResponse
    <3> QED
      BY <2>2, <3>1, UnregisteredType
  <2>6. handlers' \in [Chids -> Sinks \cup {NoSink}]
    BY <1>30, <2>2, <2>3 DEF PublishResponse
  <2>7. sink' \in [Sinks -> {"none", "open", "closed"}]
    BY <1>30, <2>2 DEF PublishResponse
  <2>8. watch' \subseteq Sinks
    BY <1>30, <2>2 DEF PublishResponse
  <2> QED
    BY <1>30, <2>1, <2>2, <2>3, <2>4, <2>5, <2>6, <2>7, <2>8 DEF PublishResponse, NoReq
<1>31. CASE ChanMessage
  BY <1>31 DEF ChanMessage, NextFrame, Frames, Sinks
<1>32. CASE ChanMessagePanics
  BY <1>32 DEF ChanMessagePanics, NextFrame
<1>33. CASE ChanClose
  <2>1. Head(frameQ) \in Frames /\ frameQ' \in Seq(Frames)
    BY <1>33 DEF ChanClose, NextFrame
  <2>2. handlers' \in [Chids -> Sinks \cup {NoSink}]
    BY <1>33 DEF ChanClose, Unhandled
  <2>3. sink' \in [Sinks -> {"none", "open", "closed"}]
    BY <1>33 DEF ChanClose
  <2> QED
    BY <1>33, <2>1, <2>2, <2>3 DEF ChanClose
<1>34. CASE ExecQuit
  BY <1>34 DEF ExecQuit
<1>35. CASE DialOk
  BY <1>35 DEF DialOk
<1>36. CASE DialQuit
  BY <1>36 DEF DialQuit
<1>37. CASE CheckDialled
  <2>1. open' \subseteq Nat
    BY <1>37 DEF CheckDialled
  <2> QED
    BY <1>37, <2>1 DEF CheckDialled
<1>38. CASE Install
  <2>1. open' \subseteq Nat
    BY <1>38 DEF Install
  <2>2. netUp' \in BOOLEAN /\ incomingErr' \in BOOLEAN
    BY <1>38, Zenon DEF Install
  <2>3. s2c' \in Seq(Frames)
    <3>1. s2c' = s2c \/ s2c' = <<>>
      BY <1>38 DEF Install
    <3>2. <<>> \in Seq(Frames)
      OBVIOUS
    <3> QED
      BY <3>1, <3>2, Zenon
  <2>4. /\ nchan' \in 0..MaxChan /\ streams' \subseteq (Chids \X Sinks)
        /\ srv' \subseteq Sinks
    BY <1>38 DEF Install
  <2>5. conn' \in Nat
    BY <1>38 DEF Install
  <2> QED
    BY <1>38, <2>1, <2>2, <2>3, <2>4, <2>5 DEF Install
<1>39. CASE Break
  <2>1. s2c' \in Seq(Frames)
    BY <1>39 DEF Break
  <2>2. netUp' \in BOOLEAN
    BY <1>39, Zenon DEF Break
  <2> QED
    BY <1>39, <2>1, <2>2 DEF Break
<1>40. CASE ServerValue
  BY <1>40 DEF ServerValue, Frames, Sinks
<1>41. CASE ServerClose
  BY <1>41 DEF ServerClose, Frames, Sinks
<1>42. ASSUME NEW s \in Sinks, WorkerEnd(s) PROVE TypeInv'
  BY <1>42 DEF WorkerEnd
<1>43. ASSUME NEW s \in Sinks, WatchEnd(s) PROVE TypeInv'
  BY <1>43 DEF WatchEnd
<1>44. ASSUME NEW s \in Sinks, WatchCancel(s) PROVE TypeInv'
  <2>1. cancelled' \subseteq Calls
    BY <1>44 DEF WatchCancel, Sinks
  <2>2. watch' \subseteq Sinks
    BY <1>44 DEF WatchCancel, Sinks
  <2> QED
    BY <1>44, <2>1, <2>2 DEF WatchCancel
<1>45. ASSUME NEW s \in Sinks, ServerReply(s) PROVE TypeInv'
  <2>1. s[1] \in Calls /\ s[2] \in Attempts
    BY <1>45 DEF Sinks
  <2>2. [t |-> "resp", c |-> s[1], a |-> s[2], ch |-> 0] \in Frames
    BY <2>1 DEF Frames
  <2>3. nchan < MaxChan => nchan + 1 \in Chids
    BY DEF Chids
  <2>4. ASSUME nchan < MaxChan
       PROVE  [t |-> "resp", c |-> s[1], a |-> s[2], ch |-> nchan + 1] \in Frames
    BY <2>1, <2>3, <2>4 DEF Frames, Chids
  <2>5. s2c' \in Seq(Frames)
    <3>1. CASE nchan < MaxChan
      <4>1. \E f \in Frames : s2c' = Append(s2c, f)
        BY <1>45, <2>2, <2>4, <3>1 DEF ServerReply
      <4> QED
        BY <4>1
    <3>2. CASE ~(nchan < MaxChan)
      <4>1. s2c' = Append(s2c, [t |-> "resp", c |-> s[1], a |-> s[2], ch |-> 0])
        BY <1>45, <3>2 DEF ServerReply
      <4> QED
        BY <2>2, <4>1
    <3> QED
      BY <3>1, <3>2
  <2>6. nchan' \in 0..MaxChan
    BY <1>45 DEF ServerReply
  <2>7. streams' \subseteq (Chids \X Sinks)
    BY <1>45, <2>3 DEF ServerReply
  <2>8. srv' \subseteq Sinks
    BY <1>45 DEF ServerReply
  <2> QED
    BY <1>45, <2>1, <2>2, <2>3, <2>4, <2>5, <2>6, <2>7, <2>8 DEF ServerReply
<1>46. CASE UNCHANGED vars
  BY <1>46
<1> QED
  BY <1>1, <1>2, <1>3, <1>4, <1>5, <1>6, <1>7, <1>8, <1>9, <1>10, <1>11,
     <1>12, <1>13, <1>14, <1>15, <1>16, <1>17, <1>18, <1>19, <1>20, <1>21,
     <1>22, <1>23, <1>24, <1>25, <1>26, <1>27, <1>28, <1>29, <1>30, <1>31,
     <1>32, <1>33, <1>34, <1>35, <1>36, <1>37, <1>38, <1>39, <1>40, <1>41,
     <1>42, <1>43, <1>44, <1>45, <1>46
     DEF Next, Caller, Program, Main, Reader, Executor, Stream, Dialer, Environment

\* The types hold in every reachable state, for any number of calls and any
\* bounds: every goroutine is at a place the code has, every request in
\* flight or being published is one that some call made, and every frame on
\* the wire or in the queues is one of the protocol.
THEOREM TypeCorrect == Spec => []TypeOK
<1>1. Init => TypeInv
  BY TypeInit
<1>2. TypeInv /\ [Next]_vars => TypeInv'
  BY TypeStep
<1>3. TypeInv => TypeOK
  BY DEF TypeInv
<1> QED
  BY <1>1, <1>2, <1>3, PTL DEF Spec

-----------------------------------------------------------------------------
(* Every accepted call is answered once.                                   *)

\* A request not yet accepted has an empty `ready' buffer.
SubmitFresh == \A c \in Calls : cpc[c] = "submit" => ready[c] = NoReply

\* The request in the hands of the loop was accepted: it is an attempt the
\* caller already made, and if its id is still registered it is for that
\* attempt.
WriteOfAttempt ==
    mpc = "write" /\ mreq.kind = "call" =>
        /\ mreq.a <= att[mreq.c]
        /\ mreq.a = att[mreq.c] => cpc[mreq.c] # "submit"
        /\ inflight[mreq.c] # 0 => inflight[mreq.c] = mreq.a

\* After the last closeInFlight the map stays empty.
InflightEmptied == mpc \in {"exit", "dead"} => \A c \in Calls : inflight[c] = 0

CallsCore == NoCallForgotten /\ InflightUnanswered /\ SubmitFresh
             /\ WriteOfAttempt /\ InflightEmptied

CallsInv == TypeInv /\ CallsCore

\* It holds when handleWsConn starts: no call was accepted yet.
LEMMA CallsInit == Init => CallsInv
<1> SUFFICES ASSUME Init PROVE CallsInv
  OBVIOUS
<1>1. TypeInv
  BY TypeInit
<1>2. CallsCore
  BY DEF Init, CallsCore, NoCallForgotten, InflightUnanswered, SubmitFresh,
     WriteOfAttempt, InflightEmptied, Waiting
<1> QED
  BY <1>1, <1>2 DEF CallsInv

\* The steps of the other goroutines neither answer a call nor register,
\* write or forget a request.
LEMMA CallsFrame ==
    ASSUME CallsCore, UNCHANGED <<cpc, att, ready, inflight, mpc, mreq>>
    PROVE  CallsCore'
  BY DEF CallsCore, NoCallForgotten, InflightUnanswered, SubmitFresh,
     WriteOfAttempt, InflightEmptied, Waiting, Writing

\* Nor do the steps of the loop between its select and its defers.
LEMMA CallsMainFrame ==
    ASSUME CallsCore, UNCHANGED <<cpc, att, ready, inflight, mreq>>,
           mpc # "write", mpc' # "write",
           mpc' \in {"exit", "dead"} => mpc \in {"exit", "dead"}
    PROVE  CallsCore'
  BY DEF CallsCore, NoCallForgotten, InflightUnanswered, SubmitFresh,
     WriteOfAttempt, InflightEmptied, Waiting, Writing

\* Every step keeps it: what accepts, registers, writes or answers a request
\* is taken one action at a time, the other steps by the two lemmas above.
LEMMA CallsStep == CallsInv /\ [Next]_vars => CallsInv'
<1> SUFFICES ASSUME CallsInv, [Next]_vars PROVE CallsInv'
  OBVIOUS
<1>1. TypeInv /\ TypeInv' /\ CallsCore
  BY TypeStep DEF CallsInv
<1>2. /\ cpc \in [Calls -> CallerStates] /\ att \in [Calls -> Attempts]
      /\ ready \in [Calls -> Replies] /\ inflight \in [Calls -> 0..MaxAttempts]
      /\ mpc = "write" => mreq \in MainReqs
      /\ xpc = "publish" => xreq \in ExecReqs
  BY <1>1 DEF TypeInv, TypeOK, HeldOK
<1>3. MaxAttempts \in Nat /\ \A a \in Attempts : a \in Nat /\ a # 0
  BY ClientConnAssumption DEF ClientConnAssumption, Attempts
<1>a. mpc = "write" => mreq.c \in Calls /\ mreq.a \in Attempts
  BY <1>2 DEF MainReqs
<1>4. ASSUME NEW c \in Calls, AcceptRequest(c) PROVE CallsCore'
  BY <1>1, <1>2, <1>3, <1>a, <1>4
     DEF AcceptRequest, Responded, LocalReply, NoReply,
     CallsCore, NoCallForgotten, InflightUnanswered, SubmitFresh,
     WriteOfAttempt, InflightEmptied, Waiting, Writing
<1>5. ASSUME NEW c \in Calls, LeaveSubmit(c) PROVE CallsCore'
  <2>1. \A d \in Calls : cpc'[d] = IF d = c THEN "done" ELSE cpc[d]
    BY <1>2, <1>5 DEF LeaveSubmit
  <2>2. cpc[c] = "submit" /\ UNCHANGED <<att, ready, inflight, mpc, mreq>>
    BY <1>5 DEF LeaveSubmit, mainVars
  <2>3. NoCallForgotten'
    BY <1>1, <1>2, <1>3, <1>a, <2>1, <2>2
    DEF CallsCore, NoCallForgotten, InflightUnanswered, Waiting, Writing
  <2>4. InflightUnanswered'
    BY <1>1, <1>2, <1>3, <1>a, <2>1, <2>2
    DEF CallsCore, InflightUnanswered, Waiting, Writing
  <2>5. SubmitFresh'
    BY <1>1, <1>2, <1>3, <1>a, <2>1, <2>2
    DEF CallsCore, SubmitFresh, InflightUnanswered, Waiting, Writing
  <2>6. WriteOfAttempt'
    BY <1>1, <1>2, <1>3, <1>a, <2>1, <2>2
    DEF CallsCore, WriteOfAttempt, InflightUnanswered, Waiting, Writing
  <2>7. InflightEmptied'
    BY <1>1, <1>2, <1>3, <1>a, <2>1, <2>2
    DEF CallsCore, InflightEmptied, InflightUnanswered, Waiting, Writing
  <2> QED
    BY <2>3, <2>4, <2>5, <2>6, <2>7 DEF CallsCore
<1>6. ASSUME NEW c \in Calls, LeaveWait(c) PROVE CallsCore'
  <2>1. \/ \A d \in Calls : cpc'[d] = IF d = c THEN "done" ELSE cpc[d]
        \/ \A d \in Calls : cpc'[d] = IF d = c THEN "sleep" ELSE cpc[d]
    BY <1>2, <1>6 DEF LeaveWait
  <2>2. /\ cpc[c] = "wait" /\ (ready[c] # NoReply \/ mpc = "dead")
        /\ UNCHANGED <<att, ready, inflight, mpc, mreq>>
    BY <1>6 DEF LeaveWait, mainVars, exited
  <2>3. inflight[c] = 0
    BY <1>1, <1>2, <2>2 DEF CallsCore, InflightUnanswered, InflightEmptied
  <2>4. NoCallForgotten'
    BY <1>1, <1>2, <1>3, <1>a, <2>1, <2>2, <2>3
    DEF CallsCore, NoCallForgotten, InflightUnanswered, Waiting, Writing
  <2>5. InflightUnanswered'
    BY <1>1, <1>2, <1>3, <1>a, <2>1, <2>2, <2>3
    DEF CallsCore, InflightUnanswered, Waiting, Writing
  <2>6. SubmitFresh'
    BY <1>1, <1>2, <1>3, <1>a, <2>1, <2>2, <2>3
    DEF CallsCore, SubmitFresh, InflightUnanswered, Waiting, Writing
  <2>7. WriteOfAttempt'
    BY <1>1, <1>2, <1>3, <1>a, <2>1, <2>2, <2>3
    DEF CallsCore, WriteOfAttempt, InflightUnanswered, Waiting, Writing
  <2>8. InflightEmptied'
    BY <1>1, <1>2, <1>3, <1>a, <2>1, <2>2, <2>3
    DEF CallsCore, InflightEmptied, InflightUnanswered, Waiting, Writing
  <2> QED
    BY <2>4, <2>5, <2>6, <2>7, <2>8 DEF CallsCore
<1>7. ASSUME NEW c \in Calls, SeeCtxDone(c) PROVE CallsCore'
  <2>1. \A d \in Calls : cpc'[d] = IF d = c THEN "cancel" ELSE cpc[d]
    BY <1>2, <1>7 DEF SeeCtxDone
  <2>2. cpc[c] = "wait" /\ UNCHANGED <<att, ready, inflight, mpc, mreq>>
    BY <1>7 DEF SeeCtxDone, mainVars
  <2>3. NoCallForgotten'
    BY <1>1, <1>2, <1>3, <1>a, <2>1, <2>2
    DEF CallsCore, NoCallForgotten, InflightUnanswered, Waiting, Writing
  <2>4. InflightUnanswered'
    BY <1>1, <1>2, <1>3, <1>a, <2>1, <2>2
    DEF CallsCore, InflightUnanswered, Waiting, Writing
  <2>5. SubmitFresh'
    BY <1>1, <1>2, <1>3, <1>a, <2>1, <2>2
    DEF CallsCore, SubmitFresh, InflightUnanswered, Waiting, Writing
  <2>6. WriteOfAttempt'
    BY <1>1, <1>2, <1>3, <1>a, <2>1, <2>2
    DEF CallsCore, WriteOfAttempt, InflightUnanswered, Waiting, Writing
  <2>7. InflightEmptied'
    BY <1>1, <1>2, <1>3, <1>a, <2>1, <2>2
    DEF CallsCore, InflightEmptied, InflightUnanswered, Waiting, Writing
  <2> QED
    BY <2>3, <2>4, <2>5, <2>6, <2>7 DEF CallsCore
<1>8. ASSUME NEW c \in Calls, AcceptCancel(c) PROVE CallsCore'
  BY <1>1, <1>2, <1>3, <1>a, <1>8
     DEF AcceptCancel,
     CallsCore, NoCallForgotten, InflightUnanswered, SubmitFresh,
     WriteOfAttempt, InflightEmptied, Waiting, Writing
<1>9. ASSUME NEW c \in Calls, GiveUpCancel(c) PROVE CallsCore'
  <2>1. \A d \in Calls : cpc'[d] = IF d = c THEN "wait" ELSE cpc[d]
    BY <1>2, <1>9 DEF GiveUpCancel
  <2>2. cpc[c] = "cancel" /\ UNCHANGED <<att, ready, inflight, mpc, mreq>>
    BY <1>9 DEF GiveUpCancel, mainVars
  <2>3. NoCallForgotten'
    BY <1>1, <1>2, <1>3, <1>a, <2>1, <2>2
    DEF CallsCore, NoCallForgotten, InflightUnanswered, Waiting, Writing
  <2>4. InflightUnanswered'
    BY <1>1, <1>2, <1>3, <1>a, <2>1, <2>2
    DEF CallsCore, InflightUnanswered, Waiting, Writing
  <2>5. SubmitFresh'
    BY <1>1, <1>2, <1>3, <1>a, <2>1, <2>2
    DEF CallsCore, SubmitFresh, InflightUnanswered, Waiting, Writing
  <2>6. WriteOfAttempt'
    BY <1>1, <1>2, <1>3, <1>a, <2>1, <2>2
    DEF CallsCore, WriteOfAttempt, InflightUnanswered, Waiting, Writing
  <2>7. InflightEmptied'
    BY <1>1, <1>2, <1>3, <1>a, <2>1, <2>2
    DEF CallsCore, InflightEmptied, InflightUnanswered, Waiting, Writing
  <2> QED
    BY <2>3, <2>4, <2>5, <2>6, <2>7 DEF CallsCore
<1>10. ASSUME NEW c \in Calls, Retry(c) PROVE CallsCore'
  <2>1. \A d \in Calls : cpc'[d] = IF d = c THEN "submit" ELSE cpc[d]
    BY <1>2, <1>10 DEF Retry
  <2>2. /\ \A d \in Calls : att'[d] = IF d = c THEN att[c] + 1 ELSE att[d]
        /\ \A d \in Calls : ready'[d] = IF d = c THEN NoReply ELSE ready[d]
    BY <1>2, <1>10 DEF Retry
  <2>3. cpc[c] = "sleep" /\ UNCHANGED <<inflight, mpc, mreq>>
    BY <1>10 DEF Retry, mainVars
  <2>4. inflight[c] = 0
    BY <1>1, <2>3 DEF CallsCore, InflightUnanswered, Waiting
  <2>5. NoCallForgotten'
    BY <1>1, <1>2, <1>3, <1>a, <2>1, <2>2, <2>3, <2>4
    DEF CallsCore, NoCallForgotten, InflightUnanswered, Waiting, Writing
  <2>6. InflightUnanswered'
    BY <1>1, <1>2, <1>3, <1>a, <2>1, <2>2, <2>3, <2>4
    DEF CallsCore, InflightUnanswered, Waiting, Writing
  <2>7. SubmitFresh'
    BY <1>1, <1>2, <1>3, <1>a, <2>1, <2>2, <2>3, <2>4
    DEF CallsCore, SubmitFresh, InflightUnanswered, Waiting, Writing
  <2>8. WriteOfAttempt'
    BY <1>1, <1>2, <1>3, <1>a, <2>1, <2>2, <2>3, <2>4
    DEF CallsCore, WriteOfAttempt, InflightUnanswered, Waiting, Writing
  <2>9. InflightEmptied'
    BY <1>1, <1>2, <1>3, <1>a, <2>1, <2>2, <2>3, <2>4
    DEF CallsCore, InflightEmptied, InflightUnanswered, Waiting, Writing
  <2> QED
    BY <2>5, <2>6, <2>7, <2>8, <2>9 DEF CallsCore
<1>11. ASSUME WriteOk PROVE CallsCore'
  <2>1. /\ mpc = "write" /\ mpc' = "select" /\ mreq \in MainReqs
        /\ UNCHANGED <<cpc, att, inflight>>
    BY <1>2, <1>11 DEF WriteOk
  <2>2. mreq.kind = "call" => mreq.c \in Calls /\ mreq.a \in Attempts
    BY <2>1 DEF MainReqs
  <2>3. \A d \in Calls :
          \/ ready'[d] = ready[d]
          \/ mreq.kind = "call" /\ mreq.c = d /\ mreq.a = att[d]
             /\ d \in NotifyCalls /\ ready'[d] # NoReply
    BY <1>2, <1>11, <2>2 DEF WriteOk, Responded, SentReply, NoReply
  <2>4. \A d \in NotifyCalls : mreq.kind = "call" /\ mreq.c = d /\ mreq.a = att[d]
          => ready'[d] # NoReply
    BY <1>2, <1>11, <2>2 DEF WriteOk, Responded, SentReply, NoReply
  <2>5. NoCallForgotten'
    BY <1>1, <1>2, <1>3, <1>a, <2>1, <2>2, <2>3, <2>4
    DEF CallsCore, NoCallForgotten, InflightUnanswered, Waiting, Writing
  <2>6. InflightUnanswered'
    BY <1>1, <1>2, <1>3, <1>a, <2>1, <2>2, <2>3, <2>4
    DEF CallsCore, InflightUnanswered, Waiting, Writing
  <2>7. SubmitFresh'
    BY <1>1, <1>2, <1>3, <1>a, <2>1, <2>2, <2>3, <2>4
    DEF CallsCore, SubmitFresh, NoCallForgotten, WriteOfAttempt, Waiting
  <2>8. WriteOfAttempt'
    BY <1>1, <1>2, <1>3, <1>a, <2>1, <2>2, <2>3, <2>4
    DEF CallsCore, WriteOfAttempt, InflightUnanswered, Waiting, Writing
  <2>9. InflightEmptied'
    BY <1>1, <1>2, <1>3, <1>a, <2>1, <2>2, <2>3, <2>4
    DEF CallsCore, InflightEmptied, InflightUnanswered, Waiting, Writing
  <2> QED
    BY <2>5, <2>6, <2>7, <2>8, <2>9 DEF CallsCore
<1>12. ASSUME WriteError PROVE CallsCore'
  <2>1. /\ mpc = "write" /\ mpc' = "select" /\ mreq \in MainReqs
        /\ UNCHANGED <<cpc, att>>
    BY <1>2, <1>12 DEF WriteError
  <2>2. mreq.c \in Calls /\ mreq.a \in Attempts
    BY <2>1 DEF MainReqs
  <2>3. \A d \in Calls :
          IF mreq.kind = "call" /\ mreq.c = d
          THEN /\ inflight'[d] = 0
               /\ IF mreq.a = att[d] THEN ready'[d] # NoReply
                                   ELSE ready'[d] = ready[d]
          ELSE inflight'[d] = inflight[d] /\ ready'[d] = ready[d]
    BY <1>2, <1>12, <2>2 DEF WriteError, Responded, LocalReply, NoReply, Unregistered
  <2>4. NoCallForgotten'
    BY <1>1, <1>2, <1>3, <1>a, <2>1, <2>2, <2>3
    DEF CallsCore, NoCallForgotten, InflightUnanswered, WriteOfAttempt, Waiting, Writing
  <2>5. InflightUnanswered'
    BY <1>1, <1>2, <1>3, <1>a, <2>1, <2>2, <2>3
    DEF CallsCore, InflightUnanswered, Waiting, Writing
  <2>6. SubmitFresh'
    BY <1>1, <1>2, <1>3, <1>a, <2>1, <2>2, <2>3
    DEF CallsCore, SubmitFresh, WriteOfAttempt
  <2>7. WriteOfAttempt'
    BY <1>1, <1>2, <1>3, <1>a, <2>1, <2>2, <2>3
    DEF CallsCore, WriteOfAttempt, InflightUnanswered, Waiting, Writing
  <2>8. InflightEmptied'
    BY <1>1, <1>2, <1>3, <1>a, <2>1, <2>2, <2>3
    DEF CallsCore, InflightEmptied, InflightUnanswered, Waiting, Writing
  <2> QED
    BY <2>4, <2>5, <2>6, <2>7, <2>8 DEF CallsCore
<1>13. ASSUME CloseInFlight PROVE CallsCore'
  <2>1. /\ mpc # "write" /\ mpc' # "write" /\ UNCHANGED <<cpc, att>>
    BY <1>13 DEF CloseInFlight
  <2>2. \A d \in Calls :
          /\ inflight'[d] = 0
          /\ inflight[d] = 0 => ready'[d] = ready[d]
          /\ inflight[d] = att[d] => ready'[d] # NoReply
    BY <1>2, <1>3, <1>13 DEF CloseInFlight, ClosedInFlight, Responded, LocalReply, NoReply
  <2>3. NoCallForgotten'
    BY <1>1, <1>2, <1>3, <1>a, <2>1, <2>2
    DEF CallsCore, NoCallForgotten, InflightUnanswered, Waiting, Writing
  <2>4. InflightUnanswered'
    BY <1>1, <1>2, <1>3, <1>a, <2>1, <2>2
    DEF CallsCore, InflightUnanswered, Waiting, Writing
  <2>5. SubmitFresh'
    BY <1>1, <1>2, <1>3, <1>a, <2>1, <2>2
    DEF CallsCore, SubmitFresh, InflightUnanswered, Waiting
  <2>6. WriteOfAttempt'
    BY <1>1, <1>2, <1>3, <1>a, <2>1, <2>2
    DEF CallsCore, WriteOfAttempt, InflightUnanswered, Waiting, Writing
  <2>7. InflightEmptied'
    BY <1>1, <1>2, <1>3, <1>a, <2>1, <2>2
    DEF CallsCore, InflightEmptied, InflightUnanswered, Waiting, Writing
  <2> QED
    BY <2>3, <2>4, <2>5, <2>6, <2>7 DEF CallsCore
<1>14. ASSUME PublishResponse PROVE CallsCore'
  <2>1. xreq.c \in Calls /\ xreq.a \in Attempts
    BY <1>2, <1>14 DEF PublishResponse, ExecReqs
  <2>2. UNCHANGED <<cpc, att, mpc, mreq>>
    BY <1>14 DEF PublishResponse
  <2>3. \/ UNCHANGED <<ready, inflight>>
        \/ /\ inflight[xreq.c] = xreq.a
           /\ inflight' = [inflight EXCEPT ![xreq.c] = 0]
           /\ ready' = Responded(ready, xreq.c, xreq.a, ServerReplyTo(xreq.src))
    BY <1>14 DEF PublishResponse, PublishRefused, SameRequest, Unregistered
  <2>4. inflight[xreq.c] = xreq.a => /\ att[xreq.c] = xreq.a
                                      /\ ready[xreq.c] = NoReply /\ cpc[xreq.c] # "submit"
    BY <1>1, <1>3, <2>1 DEF CallsCore, InflightUnanswered, Waiting
  <2>5. \A d \in Calls :
          \/ inflight'[d] = inflight[d] /\ ready'[d] = ready[d]
          \/ inflight'[d] = 0 /\ ready'[d] # NoReply /\ cpc[d] # "submit"
    BY <1>2, <2>1, <2>3, <2>4 DEF Responded, ServerReplyTo, NoReply
  <2>6. NoCallForgotten'
    BY <1>1, <1>2, <1>3, <1>a, <2>1, <2>2, <2>3, <2>4, <2>5
    DEF CallsCore, NoCallForgotten, InflightUnanswered, Waiting, Writing
  <2>7. InflightUnanswered'
    BY <1>1, <1>2, <1>3, <1>a, <2>1, <2>2, <2>3, <2>4, <2>5
    DEF CallsCore, InflightUnanswered, Waiting, Writing
  <2>8. SubmitFresh'
    BY <1>1, <1>2, <1>3, <1>a, <2>1, <2>2, <2>3, <2>4, <2>5
    DEF CallsCore, SubmitFresh, InflightUnanswered, Waiting, Writing
  <2>9. WriteOfAttempt'
    BY <1>1, <1>2, <1>3, <1>a, <2>1, <2>2, <2>3, <2>4, <2>5
    DEF CallsCore, WriteOfAttempt, InflightUnanswered, Waiting, Writing
  <2>10. InflightEmptied'
    BY <1>1, <1>2, <1>3, <1>a, <2>1, <2>2, <2>3, <2>4, <2>5
    DEF CallsCore, InflightEmptied, InflightUnanswered, Waiting, Writing
  <2> QED
    BY <2>6, <2>7, <2>8, <2>9, <2>10 DEF CallsCore
<1>15. ASSUME MainReturn \/ BeginReconnect \/ CloseChans \/ Fail \/ FailReturns
            \/ Exit \/ MainTimeout
      PROVE  CallsCore'
  <2>1. /\ UNCHANGED <<cpc, att, ready, inflight, mreq>>
        /\ mpc # "write" /\ mpc' # "write"
        /\ mpc' \in {"exit", "dead"} => mpc \in {"exit", "dead"}
    BY <1>15 DEF MainReturn, BeginReconnect, CloseChans, Fail, FailReturns, Exit, MainTimeout,
       callerVars
  <2> QED
    BY <1>1, <2>1, CallsMainFrame
<1>16. ASSUME \/ Program \/ MainIncoming \/ FailTransport \/ Reader \/ LookupResponse
          \/ ChanMessage \/ ChanMessagePanics \/ ChanClose \/ ExecQuit
          \/ (\E s \in Sinks : Stream(s)) \/ Dialer \/ Environment
          \/ UNCHANGED vars
      PROVE  CallsCore'
  <2>1. UNCHANGED <<cpc, att, ready, inflight, mpc, mreq>>
    BY <1>16
    DEF Program, Reader, Stream, Dialer, Environment, CancelCtx, Stop,
        CancelParent, MainIncoming, FailTransport, NextMessageOk,
        NextMessageError, ReadBody, ReadBodyError, Enqueue, ReaderQuit,
        LookupResponse, ChanMessage, ChanMessagePanics, ChanClose, ExecQuit,
        WorkerEnd, WatchEnd, WatchCancel, DialOk, DialQuit, CheckDialled,
        Install, Break, ServerReply, ServerValue, ServerClose, vars, frontVars,
        callerVars, mainVars
  <2> QED
    BY <1>1, <2>1, CallsFrame
<1>17. CallsCore'
  BY <1>4, <1>5, <1>6, <1>7, <1>8, <1>9, <1>10, <1>11, <1>12, <1>13, <1>14, <1>15, <1>16
     DEF Next, Caller, Main, Executor
<1> QED
  BY <1>1, <1>17 DEF CallsInv

\* For any number of calls, retries and reconnects: a caller whose request the
\* loop accepted and who has no answer yet is owed one by wsConn.inflight (or
\* is a notification about to be written); a registered request is the current
\* attempt of a caller with an empty `ready' buffer; and when the connection
\* has exited every accepted request has its answer, so that doRequest never
\* reports "websocket routine exiting" for a request that was accepted.
THEOREM AcceptedCallsAnswered ==
    Spec => [](NoCallForgotten /\ InflightUnanswered /\ AnsweredBeforeExit)
<1>1. Init => CallsInv
  BY CallsInit
<1>2. CallsInv /\ [Next]_vars => CallsInv'
  BY CallsStep
<1>3. CallsInv => NoCallForgotten /\ InflightUnanswered /\ AnsweredBeforeExit
  <2> SUFFICES ASSUME CallsInv
               PROVE  NoCallForgotten /\ InflightUnanswered /\ AnsweredBeforeExit
    OBVIOUS
  <2>1. NoCallForgotten /\ InflightUnanswered /\ InflightEmptied
    BY DEF CallsInv, CallsCore
  <2>2. \A c \in Calls : att[c] # 0
    BY ClientConnAssumption
    DEF CallsInv, TypeInv, TypeOK, Attempts, ClientConnAssumption
  <2> QED
    BY <2>1, <2>2 DEF AnsweredBeforeExit, NoCallForgotten, InflightEmptied,
                      Writing, exited
<1> QED
  BY <1>1, <1>2, <1>3, PTL DEF Spec

-----------------------------------------------------------------------------
(* Transports, and who reads them.                                         *)

\* Who may touch the transport.  Dials are numbered upwards; while a
\* reconnect is on its way, be it in the loop (rcInflight, rcChans) or in the
\* goroutine that dials, the transport is closed and nobody reads it, and
\* the two are never there together.
ReconnectAlone ==
    /\ conn <= gens
    /\ gpc # "none" => rpc = "none"
    /\ mpc \in {"rcInflight", "rcChans"} =>
         rpc = "none" /\ gpc = "none" /\ conn \notin open

\* incomingErr is set by nextMessage when its channel closes, and cleared
\* with the next transport.
ErrWhileUnread == incomingErr => rpc \in {"closed", "none"}

\* Somebody reads, or a reconnect is on its way, also while the loop writes.
Served ==
    mpc \in {"select", "write"} /\ ~ShuttingDown /\ rpc = "none" => gpc # "none"

TransportCore == OneTransport /\ ClosedAfterFail /\ ReconnectAlone
                 /\ ErrWhileUnread /\ Served

TransportInv == TypeInv /\ TransportCore

\* The invariant depends on these variables only.
LEMMA TransportFrame ==
    ASSUME TransportCore,
           UNCHANGED <<mpc, rpc, gpc, gens, conn, open, failed, failing,
                       ctxDead, incomingErr>>
    PROVE  TransportCore'
  BY DEF TransportCore, OneTransport, ClosedAfterFail, ReconnectAlone,
     ErrWhileUnread, Served, ShuttingDown

\* It holds when handleWsConn starts, with the transport that was dialled.
LEMMA TransportInit == Init => TransportInv
<1> SUFFICES ASSUME Init PROVE TransportInv
  OBVIOUS
<1>1. TypeInv
  BY TypeInit
<1>2. TransportCore
  BY DEF Init, TransportCore, OneTransport, ClosedAfterFail, ReconnectAlone,
     ErrWhileUnread, Served
<1> QED
  BY <1>1, <1>2 DEF TransportInv

\* Every step keeps it.
LEMMA TransportStep == TransportInv /\ [Next]_vars => TransportInv'
<1> SUFFICES ASSUME TransportInv, [Next]_vars PROVE TransportInv'
  OBVIOUS
<1>1. TypeInv'
  BY TypeStep DEF TransportInv
<1>2. TransportCore
  BY DEF TransportInv
<1>3. conn \in Nat /\ gens \in Nat
  BY DEF TransportInv, TypeInv, TypeOK
<1> USE <1>2, <1>3
    DEF TransportCore, OneTransport, ClosedAfterFail, ReconnectAlone,
        ErrWhileUnread, Served, ShuttingDown
<1>4. ASSUME NEW c \in Calls, AcceptRequest(c) \/ AcceptCancel(c)
      PROVE  TransportCore'
  <2>1. /\ mpc = "select" /\ mpc' \in {"select", "write"}
        /\ UNCHANGED <<rpc, gpc, gens, conn, open, failed, failing, ctxDead,
                       incomingErr>>
    BY <1>4 DEF AcceptRequest, AcceptCancel, downVars, netVars, backVars,
       readVars, dialVars
  <2> QED
    BY <2>1
<1>5. ASSUME WriteOk \/ WriteError PROVE TransportCore'
  <2>1. /\ mpc = "write" /\ mpc' = "select"
        /\ UNCHANGED <<rpc, gpc, gens, conn, open, failed, failing, ctxDead,
                       incomingErr>>
    BY <1>5 DEF WriteOk, WriteError, downVars, netVars, backVars, readVars,
       dialVars
  <2> QED
    BY <2>1
<1>6. ASSUME MainReturn PROVE TransportCore'
  BY <1>6 DEF MainReturn, downVars, netVars, backVars, readVars, dialVars
<1>7. ASSUME MainIncoming PROVE TransportCore'
  BY <1>7 DEF MainIncoming, frontVars, mainVars, downVars, netVars, dialVars
<1>8. ASSUME BeginReconnect PROVE TransportCore'
  BY <1>8 DEF BeginReconnect, TransportClosed, downVars, dialVars
<1>9. ASSUME CloseInFlight PROVE TransportCore'
  BY <1>9 DEF CloseInFlight, downVars, netVars, backVars, readVars, dialVars
<1>10. ASSUME CloseChans PROVE TransportCore'
  BY <1>10 DEF CloseChans, downVars, netVars, readVars
<1>11. ASSUME MainTimeout PROVE TransportCore'
  BY <1>11 DEF MainTimeout, TransportClosed, downVars, backVars, readVars,
     dialVars
<1>12. ASSUME Fail PROVE TransportCore'
  BY <1>12 DEF Fail, netVars, backVars, readVars, dialVars
<1>13. ASSUME FailTransport PROVE TransportCore'
  <2>1. /\ open' = open \ {conn}
        /\ UNCHANGED <<mpc, rpc, gpc, gens, conn, failed, ctxDead, incomingErr>>
    BY <1>13 DEF FailTransport, TransportClosed, mainVars, backVars, readVars,
       dialVars
  <2> QED
    BY <2>1
<1>14. ASSUME FailReturns \/ Exit PROVE TransportCore'
  <2>1. /\ mpc' \in {"closeChans", "dead"}
        /\ UNCHANGED <<rpc, gpc, gens, conn, open, failed, failing, ctxDead,
                       incomingErr>>
    BY <1>14 DEF FailReturns, Exit, downVars, netVars, backVars, readVars,
       dialVars
  <2> QED
    BY <2>1
<1>15. ASSUME Reader PROVE TransportCore'
  <2>1. UNCHANGED <<mpc, gpc, gens, conn, open, failed, failing, ctxDead>>
    BY <1>15 DEF Reader, NextMessageOk, NextMessageError, ReadBody,
       ReadBodyError, Enqueue, ReaderQuit, frontVars, mainVars, downVars,
       netVars, dialVars
  <2>2. \/ rpc = "next" /\ rpc' = "closed"
        \/ UNCHANGED incomingErr /\ rpc = "next" /\ rpc' = "hand"
        \/ UNCHANGED incomingErr /\ rpc \in {"read", "put"} /\ rpc' # "none"
        \/ /\ UNCHANGED incomingErr
           /\ rpc \in {"hand", "put", "readerr"} /\ rpc' = "none"
           /\ ShuttingDown \/ mpc = "dead"
    BY <1>15 DEF Reader, NextMessageOk, NextMessageError, ReadBody,
       ReadBodyError, Enqueue, ReaderQuit, exited, frontVars, mainVars
  <2> QED
    BY <2>1, <2>2
<1>16. ASSUME ChanMessagePanics PROVE TransportCore'
  BY <1>16 DEF ChanMessagePanics, mainVars, netVars, dialVars
<1>17. ASSUME CancelParent PROVE TransportCore'
  BY <1>17 DEF CancelParent, mainVars, netVars, backVars, readVars, dialVars
<1>18. ASSUME Dialer PROVE TransportCore'
  <2>1. ASSUME DialOk PROVE TransportCore'
    BY <2>1 DEF DialOk, frontVars, mainVars, downVars, readVars
  <2>2. ASSUME DialQuit PROVE TransportCore'
    BY <2>2 DEF DialQuit, frontVars, mainVars, downVars, netVars, readVars
  <2>3. ASSUME CheckDialled PROVE TransportCore'
    BY <2>3 DEF CheckDialled, frontVars, mainVars, downVars, readVars
  <2>4. ASSUME Install, ~ShuttingDown PROVE TransportCore'
    <3>1. /\ gpc = "install" /\ gpc' = "none" /\ rpc' = "next"
          /\ conn' = gens /\ incomingErr' = FALSE
          /\ UNCHANGED <<mpc, open, gens, failed, failing, ctxDead>>
      BY <2>4 DEF Install, InstallAllowed, downVars
    <3> QED
      BY <2>4, <3>1
  <2>5. ASSUME Install, ShuttingDown PROVE TransportCore'
    <3>1. /\ gpc = "install" /\ gpc' = "none" /\ open' = open \ {gens}
          /\ UNCHANGED <<mpc, rpc, conn, gens, failed, failing, ctxDead,
                         incomingErr>>
      BY <2>5 DEF Install, InstallAllowed, downVars
    <3> QED
      BY <2>5, <3>1
  <2> QED
    BY <1>18, <2>1, <2>2, <2>3, <2>4, <2>5 DEF Dialer
<1>19. ASSUME \/ \E c \in Calls : \/ LeaveSubmit(c) \/ LeaveWait(c)
                                  \/ SeeCtxDone(c) \/ GiveUpCancel(c)
                                  \/ Retry(c) \/ CancelCtx(c)
              \/ Stop \/ Executor \/ (\E s \in Sinks : Stream(s))
              \/ Environment \/ UNCHANGED vars
      PROVE  TransportCore'
  <2>1. UNCHANGED <<mpc, rpc, gpc, gens, conn, open, failed, failing, ctxDead,
                    incomingErr>>
    BY <1>19
    DEF LeaveSubmit, LeaveWait, SeeCtxDone, GiveUpCancel, Retry, CancelCtx,
        Stop, Executor, LookupResponse, PublishResponse, ChanMessage,
        ChanClose, ExecQuit, Stream, WorkerEnd, WatchEnd, WatchCancel,
        Environment, Break, ServerReply, ServerValue, ServerClose, vars,
        frontVars, backVars, mainVars, downVars, netVars, readVars, dialVars
  <2> QED
    BY <2>1, TransportFrame
<1>20. TransportCore'
  BY <1>4, <1>5, <1>6, <1>7, <1>8, <1>9, <1>10, <1>11, <1>12, <1>13, <1>14,
     <1>15, <1>16, <1>17, <1>18, <1>19 DEF Next, Caller, Program, Main
<1> QED
  BY <1>1, <1>20 DEF TransportInv

LEMMA TransportInvariant == Spec => []TransportInv
  BY TransportInit, TransportStep, PTL DEF Spec

\* However reconnects, timeouts, fail() and the closer interleave, and
\* however often the client reconnects: at most one transport is open besides
\* one that was just dialled, the old one is closed before the next is
\* dialled, and after fail() no reconnect ever installs another
\* (tryReconnect, closeTransport, fail).
THEOREM TransportsClosed == Spec => [](OneTransport /\ ClosedAfterFail)
<1>1. TransportInv => OneTransport /\ ClosedAfterFail
  BY DEF TransportInv, TransportCore
<1> QED
  BY <1>1, TransportInvariant, PTL

\* A connection that is not shutting down is never left with nobody reading
\* its transport and nobody replacing it, and requests are refused only
\* while that is so (handleWsConn, nextMessage, tryReconnect).
THEOREM SomebodyReads == Spec => []NotDeaf
<1>1. TransportInv => NotDeaf
  BY DEF TransportInv, TransportCore, ReconnectAlone, ErrWhileUnread, Served,
     NotDeaf
<1> QED
  BY <1>1, TransportInvariant, PTL
=============================================================================
