-------------------------- MODULE ServerConnProofs --------------------------
(* Theorems about ServerConn, for every value of its constants.            *)
EXTENDS ServerConn, FiniteSetTheorems, TLAPS

-----------------------------------------------------------------------------
(* The inductive invariant, in three parts.                                *)

\* A call has no slot before its compare-and-swap succeeds, and only a call
\* that found the counter below the limit comes to the swap.
SlotsCore ==
    /\ SlotsExact
    /\ \A r \in Reqs :
         /\ hpc[r] \in {"unseen", "start", "check", "load", "cas"} =>
              r \notin holders
         /\ hpc[r] = "cas" => loaded[r] < Limit

\* What handleOutChans holds is about calls that were received.
StreamsCore ==
    /\ Len(regs) = Len(cases)
    /\ \A i \in DOMAIN regs : hpc[regs[i]] # "unseen"
    /\ opc \in {"reply", "value", "close"} => cur \in [chid : Reqs, src : Reqs]

\* finish() cancels the context; an entry of handling is under its own id;
\* the loop is past fail() when it empties the map.
CallsCore ==
    /\ StaysCancellable
    /\ finished \subseteq ctxd
    /\ \A r \in Reqs : hpc[r] = "unseen" => r \notin finished
    /\ \A i \in Ids : handling[i] # NoReq => id[handling[i]] = i
    /\ mpc \in {"failTransport", "closeInFlight", "exit", "dead"} => failed

ConnInv == TypeOK /\ SlotsCore /\ StreamsCore /\ CallsCore

-----------------------------------------------------------------------------
(* Lemmas about the operators.                                             *)

\* A record about a received call that reaches the client is a frame.
LEMMA LogType ==
    ASSUME TypeOK, NEW r \in Reqs, NEW s \in Reqs,
           NEW t \in {"result", "chan", "val", "close"},
           log' = log \/ log' = [log EXCEPT ![r] = Append(@, [t |-> t, src |-> s])]
    PROVE  log' \in [Reqs -> Seq(Frames)]
<1>1. log \in [Reqs -> Seq(Frames)]
  BY DEF TypeOK
<1>2. [t |-> t, src |-> s] \in Frames
  BY DEF Frames
<1>3. Append(log[r], [t |-> t, src |-> s]) \in Seq(Frames)
  BY <1>1, <1>2
<1> QED
  BY <1>1, <1>3

\* Removal by swap keeps a sequence a sequence over the same set, one shorter.
LEMMA SwapRemoveType ==
    ASSUME NEW S, NEW q \in Seq(S), NEW i \in DOMAIN q
    PROVE  /\ SwapRemove(q, i) \in Seq(S)
           /\ Len(SwapRemove(q, i)) = Len(q) - 1
           /\ \A j \in DOMAIN SwapRemove(q, i) :
                SwapRemove(q, i)[j] \in {q[k] : k \in DOMAIN q}
<1> DEFINE w == SwapRemove(q, i)
<1>1. Len(q) \in Nat /\ DOMAIN q = 1..Len(q) /\ Len(q) - 1 \in Nat
  OBVIOUS
<1>2. w = [j \in 1..Len(q) - 1 |-> IF j = i THEN q[Len(q)] ELSE q[j]]
  BY DEF SwapRemove
<1>3. \A j \in 1..Len(q) - 1 : w[j] \in S /\ w[j] \in {q[k] : k \in DOMAIN q}
  BY <1>1, <1>2
<1>4. w \in Seq(S)
  BY <1>1, <1>2, <1>3
<1>5. Len(w) = Len(q) - 1 /\ DOMAIN w = 1..Len(q) - 1
  BY <1>1, <1>2, <1>4
<1> HIDE DEF w
<1> QED
  BY <1>3, <1>4, <1>5 DEF w

\* What handleOutChans finishes are calls: those of its registrations.
LEMMA RegisteredReceived ==
    ASSUME ConnInv
    PROVE  /\ \A i \in DOMAIN regs : regs[i] \in Reqs /\ hpc[regs[i]] # "unseen"
           /\ \A i \in DOMAIN cases : cases[i] \in Reqs
           /\ Registered \subseteq Reqs
           /\ \A r \in Registered : hpc[r] # "unseen"
<1>1. /\ regs \in Seq(Reqs) /\ cases \in Seq(Reqs)
      /\ \A i \in DOMAIN regs : hpc[regs[i]] # "unseen"
  BY DEF ConnInv, TypeOK, StreamsCore
<1>2. \A q \in Seq(Reqs) : \A i \in DOMAIN q : q[i] \in Reqs
  OBVIOUS
<1>3. /\ \A i \in DOMAIN regs : regs[i] \in Reqs
      /\ \A i \in DOMAIN cases : cases[i] \in Reqs
  BY ONLY <1>1, <1>2, Zenon
<1> QED
  BY ONLY <1>1, <1>3 DEF Registered

\* finish() of received calls: the counter follows the holders, contexts and
\* the map follow what finishOnce lets run.
LEMMA FinishKeeps ==
    ASSUME ConnInv, NEW F \in SUBSET Reqs, \A r \in F : hpc[r] # "unseen",
           Finish(F)
    PROVE  /\ subs' = Cardinality(holders') /\ subs' \in 0..Limit
           /\ holders' \subseteq holders
           /\ finished' \subseteq ctxd' /\ ctxd' \subseteq Reqs
           /\ \A r \in Reqs : hpc[r] = "unseen" => r \notin finished'
           /\ handling' \in [Ids -> Reqs \cup {NoReq}]
           /\ \A i \in Ids : handling'[i] # NoReq =>
                handling'[i] \notin finished' /\ handling'[i] = handling[i]
           /\ \A r \in Reqs : hpc[r] # "unseen" /\ id[r] # NoId /\ r \notin ctxd' =>
                handling'[id[r]] = r
<1> DEFINE new == F \ finished
<1>1. /\ holders \subseteq Reqs /\ IsFiniteSet(holders)
      /\ subs = Cardinality(holders) /\ subs \in 0..Limit /\ Limit \in Nat
  BY FS_Subset, ServerConnAssumption
  DEF ConnInv, TypeOK, SlotsCore, SlotsExact, ServerConnAssumption
<1>2. /\ subs' = subs - Cardinality(new \cap holders)
      /\ holders' = holders \ new
  BY DEF Finish
<1>3. /\ Cardinality(holders \ new) = Cardinality(holders) - Cardinality(holders \cap new)
      /\ IsFiniteSet(holders \ new)
  BY <1>1, FS_Difference
<1>4. Cardinality(holders \ new) \in Nat /\ Cardinality(holders \cap new) \in Nat
  BY <1>1, <1>3, FS_CardinalityType, FS_Intersection
<1>5. Cardinality(new \cap holders) = Cardinality(holders \cap new)
  <2>1. new \cap holders = holders \cap new
    OBVIOUS
  <2> QED
    BY <2>1
<1>6. subs' = Cardinality(holders') /\ subs' \in 0..Limit /\ holders' \subseteq holders
  <2>1. subs' = Cardinality(holders \ new)
    BY <1>1, <1>2, <1>3, <1>5
  <2>2. subs' = subs - Cardinality(holders \cap new)
    BY <1>2, <1>5
  <2> HIDE DEF new
  <2>3. subs' \in 0..Limit
    BY <1>1, <1>4, <2>1, <2>2
  <2> QED
    BY <1>2, <2>1, <2>3
<1>7. /\ finished' = finished \cup new /\ ctxd' = ctxd \cup new
      /\ handling' = HandlingWithout(new)
  BY DEF Finish
<1>8. /\ finished' \subseteq ctxd' /\ ctxd' \subseteq Reqs
      /\ \A r \in Reqs : hpc[r] = "unseen" => r \notin finished'
  BY <1>7 DEF ConnInv, CallsCore, TypeOK
<1>9. /\ handling \in [Ids -> Reqs \cup {NoReq}]
      /\ handling' = [i \in Ids |-> IF handling[i] \in new THEN NoReq ELSE handling[i]]
  BY <1>7 DEF HandlingWithout, ConnInv, TypeOK
<1>10. \A i \in Ids : handling[i] # NoReq => handling[i] \notin finished
  BY DEF ConnInv, CallsCore, StaysCancellable
<1>11. \A i \in Ids : handling'[i] # NoReq =>
         handling'[i] \notin finished' /\ handling'[i] = handling[i]
  BY <1>7, <1>9, <1>10
<1>12. ASSUME NEW r \in Reqs, hpc[r] # "unseen", id[r] # NoId, r \notin ctxd'
       PROVE  handling'[id[r]] = r
  <2>1. id[r] \in Ids /\ handling[id[r]] = r
    BY <1>7, <1>12, ServerConnAssumption
    DEF ConnInv, CallsCore, StaysCancellable, ServerConnAssumption
  <2> QED
    BY <1>7, <1>9, <1>12, <2>1
<1> QED
  BY <1>6, <1>8, <1>9, <1>11, <1>12

-----------------------------------------------------------------------------
(* The invariant is inductive.                                             *)

\* It holds when handleWsConn starts.
LEMMA ConnInit == Init => ConnInv
<1> SUFFICES ASSUME Init PROVE ConnInv
  OBVIOUS
<1>1. TypeOK
  <2>1. /\ outDone \in BOOLEAN /\ ctxDead \in BOOLEAN /\ failed \in BOOLEAN
        /\ failing \in BOOLEAN /\ tOpen \in BOOLEAN /\ netUp \in BOOLEAN
    BY Zenon DEF Init
  <2> QED
    BY <2>1, ServerConnAssumption
    DEF Init, TypeOK, NoCur, HandlerStates, ServerConnAssumption
<1>2. SlotsCore
  BY FS_EmptySet, ServerConnAssumption
  DEF Init, SlotsCore, SlotsExact, ServerConnAssumption
<1>3. StreamsCore /\ CallsCore
  BY ServerConnAssumption
  DEF Init, StreamsCore, CallsCore, StaysCancellable, NoCallAfterShutdown,
      ServerConnAssumption
<1> QED
  BY <1>1, <1>2, <1>3 DEF ConnInv

\* The goroutine of a call moves: its counter stays one, and the call was
\* received before and after.
LEMMA GotoType ==
    ASSUME ConnInv, NEW r \in Reqs, NEW from, NEW to \in HandlerStates,
           Goto(r, from, to)
    PROVE  hpc' \in [Reqs -> HandlerStates]
  BY DEF Goto, ConnInv, TypeOK

\* Every step keeps the slots exact: they change by the compare-and-swap and
\* by finish().
LEMMA SlotsStep == ConnInv /\ [Next]_vars => SlotsCore'
<1> SUFFICES ASSUME ConnInv, [Next]_vars PROVE SlotsCore'
  OBVIOUS
<1> DEFINE early == {"unseen", "start", "check", "load", "cas"}
<1>1. ASSUME UNCHANGED <<hpc, loaded, slotVars>> PROVE SlotsCore'
  BY <1>1 DEF slotVars, ConnInv, SlotsCore, SlotsExact
<1>2. ASSUME NEW r \in Reqs, NEW from, NEW to, Goto(r, from, to),
             to \in early => from \in early, to # "cas",
             UNCHANGED <<loaded, slotVars>>
      PROVE  SlotsCore'
  BY <1>2 DEF Goto, slotVars, ConnInv, TypeOK, SlotsCore, SlotsExact
<1>3. ASSUME NEW r \in Reqs, HandleCall(r) PROVE SlotsCore'
  BY <1>3 DEF HandleCall, slotVars, ConnInv, TypeOK, SlotsCore, SlotsExact
<1>4. ASSUME NEW r \in Reqs, ReserveLoad(r) PROVE SlotsCore'
  BY <1>4, ServerConnAssumption
  DEF ReserveLoad, Goto, AtLimit, slotVars, ServerConnAssumption, ConnInv,
      TypeOK, SlotsCore, SlotsExact
<1>5. ASSUME NEW r \in Reqs, ReserveCas(r) PROVE SlotsCore'
  <2>1. CASE SwapSucceeds(r) /\ Goto(r, "cas", "run")
             /\ subs' = subs + 1 /\ holders' = holders \cup {r}
    <3>1. IsFiniteSet(holders) /\ r \notin holders
      BY <2>1, FS_Subset, ServerConnAssumption
      DEF Goto, ServerConnAssumption, ConnInv, TypeOK, SlotsCore
    <3>2. Cardinality(holders') = Cardinality(holders) + 1
      BY <2>1, <3>1, FS_AddElement
    <3>3. subs' = Cardinality(holders') /\ subs' <= Limit
      BY <2>1, <3>2, ServerConnAssumption
      DEF SwapSucceeds, Goto, ServerConnAssumption, ConnInv, TypeOK, SlotsCore,
          SlotsExact
    <3> QED
      BY <1>5, <2>1, <3>3
      DEF ReserveCas, Goto, ConnInv, TypeOK, SlotsCore, SlotsExact
  <2>2. CASE Goto(r, "cas", "load") /\ UNCHANGED slotVars
    BY <1>2, <1>5, <2>2 DEF ReserveCas
  <2> QED
    BY <1>5, <2>1, <2>2 DEF ReserveCas
<1>6. ASSUME NEW F \in SUBSET Reqs, \A r \in F : hpc[r] # "unseen", Finish(F),
             UNCHANGED loaded,
             \A r \in Reqs : hpc'[r] \in early => hpc'[r] = hpc[r]
      PROVE  SlotsCore'
  <2>1. subs' = Cardinality(holders') /\ subs' \in 0..Limit /\ holders' \subseteq holders
    BY <1>6, FinishKeeps
  <2> QED
    BY <1>6, <2>1, ServerConnAssumption
    DEF ServerConnAssumption, ConnInv, SlotsCore, SlotsExact
<1>7. ASSUME NEW r \in Reqs, FinishCall(r) \/ HandlerPanics(r) PROVE SlotsCore'
  <2>1. /\ hpc[r] # "unseen" /\ Finish({r}) /\ UNCHANGED loaded
        /\ \A q \in Reqs : hpc'[q] \in early => hpc'[q] = hpc[q]
    BY <1>7 DEF FinishCall, HandlerPanics, Goto, ConnInv, TypeOK
  <2> QED
    BY <1>6, <2>1
<1>8. ASSUME NEW i \in 1..Cardinality(Reqs), OutClosed(i) PROVE SlotsCore'
  <2>1. regs[i] \in Reqs /\ hpc[regs[i]] # "unseen"
    <3>1. i \in DOMAIN regs
      BY <1>8 DEF OutClosed, ConnInv, TypeOK, StreamsCore
    <3> QED
      BY ONLY <3>1, RegisteredReceived, ConnInv
  <2>2. Finish({regs[i]}) /\ UNCHANGED <<hpc, loaded>>
    BY <1>8 DEF OutClosed
  <2> QED
    BY <1>6, <2>1, <2>2
<1>9. CASE OutCleanup
  <2>1. Registered \subseteq Reqs /\ \A r \in Registered : hpc[r] # "unseen"
    BY RegisteredReceived
  <2>2. Finish(Registered) /\ UNCHANGED <<hpc, loaded>>
    BY <1>9 DEF OutCleanup, LeftRegistered
  <2> QED
    BY <1>6, <2>1, <2>2
<1>10. ASSUME NEW r \in Reqs,
              \/ StartHandler(r) \/ ReserveCheck(r) \/ MethodReturns(r)
              \/ MethodReturnsChan(r) \/ RegisterFails(r) \/ RegisterAccepted(r)
              \/ Respond(r) \/ HandlerFails(r) \/ OutRegister(r)
       PROVE  SlotsCore'
  <2>1. UNCHANGED <<loaded, slotVars>>
    BY <1>10 DEF StartHandler, ReserveCheck, MethodReturns, MethodReturnsChan,
       RegisterFails, RegisterAccepted, Respond, HandlerFails, OutRegister
  <2>2. \E from, to : /\ Goto(r, from, to) /\ to # "cas"
                      /\ to \in early => from \in early
    BY <1>10 DEF StartHandler, ReserveCheck, MethodReturns, MethodReturnsChan,
       RegisterFails, RegisterAccepted, Respond, HandlerFails, OutRegister
  <2> QED
    BY <1>2, <2>1, <2>2
<1>11. ASSUME NEW r \in Reqs, ProducerWrites(r) \/ ProducerCloses(r)
       PROVE  SlotsCore'
  BY <1>1, <1>11 DEF ProducerWrites, ProducerCloses, callVars
<1>12. ASSUME NEW i \in Ids, HandleCancel(i) PROVE SlotsCore'
  BY <1>1, <1>12 DEF HandleCancel
<1>13. ASSUME NEW i \in 1..Cardinality(Reqs), OutReceive(i) PROVE SlotsCore'
  BY <1>1, <1>13 DEF OutReceive, callVars
<1>14. CASE OutReply \/ OutValue \/ OutClose \/ OutExit \/ OutFail \/ OutDone
  BY <1>1, <1>14 DEF OutReply, OutValue, OutClose, OutExit, OutFail, OutDone,
     callVars
<1>15. CASE Main \/ ExecQuit \/ FailTransport \/ CancelParent \/ Break
  BY <1>1, <1>15 DEF Main, MainReturn, MainCancel, MainFail, FailReturns,
     CloseInFlight, Exit, ExecQuit, FailTransport, CancelParent, Break, callVars
<1>16. CASE UNCHANGED vars
  BY <1>1, <1>16 DEF vars, callVars
<1> QED
  BY <1>3, <1>4, <1>5, <1>7, <1>8, <1>9, <1>10, <1>11, <1>12, <1>13, <1>14,
     <1>15, <1>16
  DEF Next, Handler, OutChans

\* Every step keeps what handleOutChans holds in order.
LEMMA StreamsStep == ConnInv /\ [Next]_vars => StreamsCore'
<1> SUFFICES ASSUME ConnInv, [Next]_vars PROVE StreamsCore'
  OBVIOUS
<1>1. ASSUME UNCHANGED <<regs, cases>>,
             \A r \in Reqs : hpc[r] # "unseen" => hpc'[r] # "unseen",
             \/ UNCHANGED <<opc, cur>> \/ opc' \notin {"reply", "value", "close"}
             \/ cur' \in [chid : Reqs, src : Reqs]
      PROVE  StreamsCore'
  BY <1>1 DEF ConnInv, TypeOK, StreamsCore
<1>2. ASSUME NEW r \in Reqs, Handler(r) \/ HandlerPanics(r) PROVE StreamsCore'
  <2>1. \A q \in Reqs : hpc[q] # "unseen" => hpc'[q] # "unseen"
    BY <1>2 DEF Handler, HandlerPanics, StartHandler, ReserveCheck, ReserveLoad,
       ReserveCas, MethodReturns, MethodReturnsChan, RegisterFails,
       RegisterAccepted, Respond, FinishCall, HandlerFails, Goto, ConnInv, TypeOK
  <2>2. /\ UNCHANGED <<regs, cases>>
        /\ UNCHANGED <<opc, cur>> \/ opc' \notin {"reply", "value", "close"}
    BY <1>2 DEF Handler, HandlerPanics, StartHandler, ReserveCheck, ReserveLoad,
       ReserveCas, MethodReturns, MethodReturnsChan, RegisterFails,
       RegisterAccepted, Respond, FinishCall, HandlerFails, outVars
  <2> QED
    BY <1>1, <2>1, <2>2
<1>3. ASSUME NEW r \in Reqs, HandleCall(r) PROVE StreamsCore'
  BY <1>1, <1>3 DEF HandleCall, outVars, ConnInv, TypeOK
<1>4. ASSUME NEW r \in Reqs, OutRegister(r) PROVE StreamsCore'
  <2>1. \A q \in Reqs : hpc[q] # "unseen" => hpc'[q] # "unseen"
    BY <1>4 DEF OutRegister, Goto, ConnInv, TypeOK
  <2>2. CASE UNCHANGED <<opc, regs, cases, cur>>
    BY <1>1, <2>1, <2>2
  <2>3. CASE /\ regs' = Append(regs, r) /\ cases' = Append(cases, r)
             /\ cur' = [chid |-> r, src |-> r]
    <3>1. \A i \in DOMAIN regs' : regs'[i] = r \/ (i \in DOMAIN regs /\ regs'[i] = regs[i])
      <4>1. regs \in Seq(Reqs) /\ Len(regs) \in Nat
        BY DEF ConnInv, TypeOK
      <4>2. /\ DOMAIN regs' = 1..(Len(regs) + 1) /\ DOMAIN regs = 1..Len(regs)
            /\ \A i \in 1..(Len(regs) + 1) :
                 regs'[i] = IF i = Len(regs) + 1 THEN r ELSE regs[i]
        BY <2>3, <4>1
      <4> QED
        BY <4>1, <4>2
    <3>2. hpc'[r] # "unseen"
      BY <1>4 DEF OutRegister, Goto, ConnInv, TypeOK
    <3>3. \A i \in DOMAIN regs : regs[i] \in Reqs
      BY DEF ConnInv, TypeOK
    <3>4. Len(regs') = Len(cases')
      BY <2>3 DEF ConnInv, TypeOK, StreamsCore
    <3> QED
      BY <2>1, <2>3, <3>1, <3>2, <3>3, <3>4 DEF ConnInv, StreamsCore
  <2> QED
    BY <1>4, <2>2, <2>3 DEF OutRegister
<1>5. ASSUME NEW i \in 1..Cardinality(Reqs), OutReceive(i) PROVE StreamsCore'
  <2>1. cur' \in [chid : Reqs, src : Reqs]
    BY <1>5 DEF OutReceive, ConnInv, TypeOK, StreamsCore
  <2> QED
    BY <1>1, <1>5, <2>1 DEF OutReceive, callVars
<1>6. ASSUME NEW i \in 1..Cardinality(Reqs), OutClosed(i) PROVE StreamsCore'
  <2>1. i \in DOMAIN regs /\ i \in DOMAIN cases
    BY <1>6 DEF OutClosed, ConnInv, TypeOK, StreamsCore
  <2>2. regs' = SwapRemove(regs, i) /\ cases' = SwapRemove(cases, i)
    BY <1>6 DEF OutClosed, RegsWithout
  <2>3. cur' \in [chid : Reqs, src : Reqs]
    BY <1>6, <2>1 DEF OutClosed, ReportClosed, ConnInv, TypeOK
  <2>4. regs \in Seq(Reqs) /\ cases \in Seq(Reqs) /\ UNCHANGED hpc
    BY <1>6 DEF OutClosed, ConnInv, TypeOK
  <2>5. /\ Len(regs') = Len(regs) - 1 /\ Len(cases') = Len(cases) - 1
        /\ \A j \in DOMAIN regs' : regs'[j] \in {regs[k] : k \in DOMAIN regs}
    BY <2>1, <2>2, <2>4, SwapRemoveType
  <2> QED
    BY <2>3, <2>4, <2>5 DEF ConnInv, StreamsCore
<1>7. ASSUME NEW r \in Reqs, ProducerWrites(r) \/ ProducerCloses(r)
      PROVE  StreamsCore'
  BY <1>1, <1>7 DEF ProducerWrites, ProducerCloses, callVars, outVars
<1>8. ASSUME NEW i \in Ids, HandleCancel(i) PROVE StreamsCore'
  BY <1>1, <1>8 DEF HandleCancel, outVars
<1>9. CASE OutReply \/ OutValue \/ OutClose \/ OutExit \/ OutCleanup \/ OutFail
           \/ OutDone
  BY <1>1, <1>9 DEF OutReply, OutValue, OutClose, OutExit, OutCleanup, OutFail,
     OutDone, callVars
<1>10. CASE Main \/ ExecQuit \/ FailTransport \/ CancelParent \/ Break
  BY <1>1, <1>10 DEF Main, MainReturn, MainCancel, MainFail, FailReturns,
     CloseInFlight, Exit, ExecQuit, FailTransport, CancelParent, Break, callVars,
     outVars
<1>11. CASE UNCHANGED vars
  BY <1>1, <1>11 DEF vars, callVars, outVars
<1> QED
  BY <1>2, <1>3, <1>4, <1>5, <1>6, <1>7, <1>8, <1>9, <1>10, <1>11
  DEF Next, OutChans

\* Every step keeps the calls cancellable.
LEMMA CallsStep == ConnInv /\ [Next]_vars => CallsCore'
<1> SUFFICES ASSUME ConnInv, [Next]_vars PROVE CallsCore'
  OBVIOUS
<1>1. ASSUME UNCHANGED <<finished, handling>>,
             ctxd \subseteq ctxd' /\ (failed => failed'),
             \A r \in Reqs : hpc'[r] = "unseen" <=> hpc[r] = "unseen",
             UNCHANGED mpc
             \/ (mpc' \in {"cancel", "fail"})
             \/ (mpc' = "failTransport" /\ failed')
             \/ (mpc' = "closeInFlight" /\ mpc = "failTransport")
             \/ (mpc' = "dead" /\ mpc = "exit")
      PROVE  CallsCore'
  BY <1>1 DEF ConnInv, TypeOK, CallsCore, StaysCancellable, NoCallAfterShutdown
<1>2. ASSUME NEW F \in SUBSET Reqs, \A r \in F : hpc[r] # "unseen", Finish(F),
             UNCHANGED <<mpc, failed>>,
             \A r \in Reqs : hpc'[r] = "unseen" <=> hpc[r] = "unseen"
      PROVE  CallsCore'
  <2>1. /\ finished' \subseteq ctxd'
        /\ \A r \in Reqs : hpc[r] = "unseen" => r \notin finished'
        /\ \A i \in Ids : handling'[i] # NoReq =>
             handling'[i] \notin finished' /\ handling'[i] = handling[i]
        /\ \A r \in Reqs : hpc[r] # "unseen" /\ id[r] # NoId /\ r \notin ctxd' =>
             handling'[id[r]] = r
    BY <1>2, FinishKeeps
  <2> QED
    BY <1>2, <2>1 DEF ConnInv, CallsCore, StaysCancellable, NoCallAfterShutdown
<1>3. ASSUME NEW r \in Reqs,
             \/ StartHandler(r) \/ ReserveCheck(r) \/ ReserveLoad(r)
             \/ ReserveCas(r) \/ MethodReturns(r) \/ MethodReturnsChan(r)
             \/ RegisterFails(r) \/ RegisterAccepted(r) \/ Respond(r)
             \/ HandlerFails(r) \/ OutRegister(r)
      PROVE  CallsCore'
  <2>1. /\ UNCHANGED <<finished, handling, ctxd, mpc>> /\ (failed => failed')
        /\ \A q \in Reqs : hpc'[q] = "unseen" <=> hpc[q] = "unseen"
    BY <1>3 DEF StartHandler, ReserveCheck, ReserveLoad, ReserveCas,
       MethodReturns, MethodReturnsChan, RegisterFails, RegisterAccepted,
       Respond, HandlerFails, OutRegister, Goto, Failing, connVars, ConnInv, TypeOK
  <2> QED
    BY <1>1, <2>1
<1>4. ASSUME NEW r \in Reqs, FinishCall(r) \/ HandlerPanics(r) PROVE CallsCore'
  <2>1. /\ hpc[r] # "unseen" /\ Finish({r}) /\ UNCHANGED <<mpc, failed>>
        /\ \A q \in Reqs : hpc'[q] = "unseen" <=> hpc[q] = "unseen"
    BY <1>4 DEF FinishCall, HandlerPanics, Goto, connVars, ConnInv, TypeOK
  <2> QED
    BY <1>2, <2>1
<1>5. ASSUME NEW i \in 1..Cardinality(Reqs), OutClosed(i) PROVE CallsCore'
  <2>1. regs[i] \in Reqs /\ hpc[regs[i]] # "unseen"
    <3>1. i \in DOMAIN regs
      BY <1>5 DEF OutClosed, ConnInv, TypeOK, StreamsCore
    <3> QED
      BY ONLY <3>1, RegisteredReceived, ConnInv
  <2>2. Finish({regs[i]}) /\ UNCHANGED <<hpc, mpc, failed>>
    BY <1>5 DEF OutClosed, connVars
  <2> QED
    BY <1>2, <2>1, <2>2
<1>6. CASE OutCleanup
  <2>1. Registered \subseteq Reqs /\ \A r \in Registered : hpc[r] # "unseen"
    BY RegisteredReceived
  <2>2. Finish(Registered) /\ UNCHANGED <<hpc, mpc, failed>>
    BY <1>6 DEF OutCleanup, LeftRegistered, connVars
  <2> QED
    BY <1>2, <2>1, <2>2
<1>7. ASSUME NEW r \in Reqs, HandleCall(r) PROVE CallsCore'
  <2>1. CASE CallRefused(r)
    BY <1>7, <2>1 DEF HandleCall, connVars, ConnInv, TypeOK, CallsCore,
       StaysCancellable, NoCallAfterShutdown
  <2>2. CASE ~CallRefused(r) /\ id[r] = NoId
    BY <1>7, <2>2, ServerConnAssumption
    DEF HandleCall, connVars, ConnInv, TypeOK, CallsCore, StaysCancellable,
        NoCallAfterShutdown, ServerConnAssumption
  <2>3. CASE ~CallRefused(r) /\ id[r] # NoId
    <3>1. /\ id[r] \in Ids /\ ~failed /\ UNCHANGED <<finished, mpc, failed>>
          /\ handling' = [handling EXCEPT ![id[r]] = r]
          /\ ctxd \subseteq ctxd' /\ handling[id[r]] \in ctxd' \cup {NoReq}
          /\ hpc[r] = "unseen" /\ hpc' = [hpc EXCEPT ![r] = "start"]
      BY <1>7, <2>3, ServerConnAssumption
      DEF HandleCall, CallRefused, connVars, ServerConnAssumption, ConnInv, TypeOK
    <3>2. r \notin finished
      BY <3>1 DEF ConnInv, CallsCore
    <3>3. NoCallAfterShutdown' /\ mpc \notin {"exit", "dead"}
      BY <3>1 DEF NoCallAfterShutdown, StaysCancellable, ConnInv, CallsCore
    <3>4. StaysCancellable'
      BY <3>1, <3>2, <3>3, ServerConnAssumption
      DEF StaysCancellable, ConnInv, CallsCore, TypeOK, ServerConnAssumption
    <3> QED
      BY <3>1, <3>2, <3>3, <3>4 DEF ConnInv, CallsCore, TypeOK
  <2> QED
    BY <2>1, <2>2, <2>3
<1>8. CASE CloseInFlight
  BY <1>8, ServerConnAssumption
  DEF CloseInFlight, ServerConnAssumption, ConnInv, TypeOK, CallsCore,
      StaysCancellable, NoCallAfterShutdown
<1>9. ASSUME NEW r \in Reqs, ProducerWrites(r) \/ ProducerCloses(r)
      PROVE  CallsCore'
  BY <1>1, <1>9 DEF ProducerWrites, ProducerCloses, callVars, connVars
<1>10. ASSUME NEW i \in Ids, HandleCancel(i) PROVE CallsCore'
  BY <1>1, <1>10 DEF HandleCancel, connVars
<1>11. ASSUME NEW i \in 1..Cardinality(Reqs), OutReceive(i) PROVE CallsCore'
  BY <1>1, <1>11 DEF OutReceive, callVars, connVars
<1>12. CASE OutReply \/ OutValue \/ OutClose \/ OutExit \/ OutFail \/ OutDone
  BY <1>1, <1>12 DEF OutReply, OutValue, OutClose, OutExit, OutFail, OutDone,
     Failing, callVars, connVars
<1>13. CASE MainReturn \/ MainCancel \/ MainFail \/ FailReturns \/ Exit
  BY <1>1, <1>13 DEF MainReturn, MainCancel, MainFail, FailReturns, Exit,
     CancelAll, Failing, callVars
<1>14. CASE ExecQuit \/ FailTransport \/ CancelParent \/ Break
  BY <1>1, <1>14 DEF ExecQuit, FailTransport, CancelParent, Break, CancelAll,
     callVars
<1>15. CASE UNCHANGED vars
  BY <1>1, <1>15 DEF vars, callVars, connVars
<1> QED
  BY <1>3, <1>4, <1>5, <1>6, <1>7, <1>8, <1>9, <1>10, <1>11, <1>12, <1>13,
     <1>14, <1>15
  DEF Next, Handler, OutChans, Main

\* Every step keeps the types.
LEMMA TypeStep == ConnInv /\ [Next]_vars => TypeOK'
<1> SUFFICES ASSUME ConnInv, [Next]_vars PROVE TypeOK'
  OBVIOUS
<1> USE ServerConnAssumption DEF ServerConnAssumption, ConnInv, TypeOK, vars,
     callVars, slotVars, prodVars, outVars, connVars
<1>0. TypeOK
  OBVIOUS
<1>1. SlotsCore'
  BY SlotsStep
<1>2. subs' \in Nat => subs' \in 0..Limit
  BY <1>1 DEF SlotsCore, SlotsExact
<1>3. ASSUME NEW r \in Reqs, NEW from, NEW to \in HandlerStates,
             Goto(r, from, to), UNCHANGED <<loaded, ctxd, finished, handling>>,
             UNCHANGED <<slotVars, nvals, regs, cases, cur, outDone, connVars, log>>,
             prod' \in [Reqs -> {"none", "open", "writing", "closed"}],
             accepted' = accepted, opc' = opc \/ opc' = "select"
      PROVE  TypeOK'
  <2>1. hpc' \in [Reqs -> HandlerStates]
    BY <1>3, GotoType
  <2>2. opc' \in {"none", "select", "reply", "value", "close", "cleanup", "fail",
                  "failTransport", "dead"}
    BY <1>3
  <2> QED
    BY <1>3, <2>1, <2>2
<1>4. ASSUME NEW r \in Reqs,
             \/ StartHandler(r) \/ ReserveCheck(r) \/ MethodReturns(r)
             \/ RegisterFails(r) \/ RegisterAccepted(r)
      PROVE  TypeOK'
  <2>1. \E from \in HandlerStates, to \in HandlerStates : Goto(r, from, to)
    BY <1>4 DEF StartHandler, ReserveCheck, MethodReturns, RegisterFails,
       RegisterAccepted, HandlerStates
  <2>2. UNCHANGED <<loaded, ctxd, finished, handling, slotVars, prodVars, outVars,
                    connVars, log>>
    BY <1>4 DEF StartHandler, ReserveCheck, MethodReturns, RegisterFails,
       RegisterAccepted
  <2> QED
    BY <1>3, <2>1, <2>2
<1>5. ASSUME NEW r \in Reqs, MethodReturnsChan(r) PROVE TypeOK'
  <2>1. \E from \in HandlerStates, to \in HandlerStates : Goto(r, from, to)
    BY <1>5 DEF MethodReturnsChan, HandlerStates
  <2> QED
    BY <1>3, <1>5, <2>1 DEF MethodReturnsChan
<1>6. ASSUME NEW r \in Reqs, ReserveLoad(r) PROVE TypeOK'
  <2>1. hpc' \in [Reqs -> HandlerStates]
    BY <1>6, GotoType DEF ReserveLoad, HandlerStates
  <2>2. loaded' \in [Reqs -> 0..Limit]
    BY <1>6 DEF ReserveLoad
  <2> QED
    BY <1>6, <2>1, <2>2 DEF ReserveLoad
<1>7. ASSUME NEW r \in Reqs, ReserveCas(r) PROVE TypeOK'
  <2>1. hpc' \in [Reqs -> HandlerStates]
    BY <1>7, GotoType DEF ReserveCas, HandlerStates
  <2>2. subs' \in 0..Limit /\ holders' \subseteq Reqs
    BY <1>2, <1>7 DEF ReserveCas
  <2> QED
    BY <1>7, <2>1, <2>2 DEF ReserveCas
<1>8. ASSUME NEW r \in Reqs, Respond(r) PROVE TypeOK'
  <2>1. hpc' \in [Reqs -> HandlerStates]
    BY <1>8, GotoType DEF Respond, HandlerStates
  <2>2. log' \in [Reqs -> Seq(Frames)]
    BY <1>8, LogType DEF Respond, WriteReaches, WriteFails
  <2>3. UNCHANGED <<loaded, ctxd, finished, handling, slotVars, prodVars,
                    outVars, connVars>>
    BY <1>8 DEF Respond
  <2> QED
    BY ONLY <1>0, <2>1, <2>2, <2>3
<1>9. ASSUME NEW F \in SUBSET Reqs, \A r \in F : hpc[r] # "unseen", Finish(F),
             hpc' \in [Reqs -> HandlerStates],
             UNCHANGED <<loaded, prodVars, accepted, outDone, connVars, log>>,
             opc' \in {"select", "close", "fail"} \cup {opc},
             regs' \in Seq(Reqs), cases' \in Seq(Reqs),
             cur' \in [chid : Reqs, src : Reqs] \cup {NoCur}
      PROVE  TypeOK'
  <2>1. /\ subs' \in 0..Limit /\ holders' \subseteq Reqs
        /\ ctxd' \subseteq Reqs /\ finished' \subseteq Reqs
        /\ handling' \in [Ids -> Reqs \cup {NoReq}]
    BY <1>9, FinishKeeps
  <2>2. opc' \in {"none", "select", "reply", "value", "close", "cleanup", "fail",
                  "failTransport", "dead"}
    BY ONLY <1>0, <1>9
  <2>3. /\ hpc' \in [Reqs -> HandlerStates]
        /\ UNCHANGED <<loaded, prodVars, accepted, outDone, connVars, log>>
        /\ regs' \in Seq(Reqs) /\ cases' \in Seq(Reqs)
        /\ cur' \in [chid : Reqs, src : Reqs] \cup {NoCur}
    BY ONLY <1>9
  <2> QED
    BY ONLY <1>0, <2>1, <2>2, <2>3
<1>10. ASSUME NEW r \in Reqs, FinishCall(r) \/ HandlerPanics(r) PROVE TypeOK'
  <2>1. hpc' \in [Reqs -> HandlerStates] /\ hpc[r] # "unseen"
    BY <1>10, GotoType DEF FinishCall, HandlerPanics, Goto, HandlerStates
  <2>2. Finish({r}) /\ UNCHANGED <<loaded, prodVars, outVars, connVars, log>>
    BY <1>10 DEF FinishCall, HandlerPanics
  <2> QED
    BY <1>9, <2>1, <2>2
<1>11. ASSUME NEW i \in 1..Cardinality(Reqs), OutClosed(i) PROVE TypeOK'
  <2>1. i \in DOMAIN regs /\ i \in DOMAIN cases
    BY <1>11 DEF OutClosed, StreamsCore
  <2>2. regs[i] \in Reqs /\ cases[i] \in Reqs /\ hpc[regs[i]] # "unseen"
    BY <2>1, RegisteredReceived, Zenon
  <2>3. regs' \in Seq(Reqs) /\ cases' \in Seq(Reqs)
    BY <1>11, <2>1, SwapRemoveType DEF OutClosed, RegsWithout
  <2>4. /\ opc' = "close" /\ cur' \in [chid : Reqs, src : Reqs]
        /\ Finish({regs[i]})
        /\ UNCHANGED <<hpc, loaded, prodVars, accepted, outDone, connVars, log>>
    BY <1>11, <2>2 DEF OutClosed, ReportClosed
  <2> QED
    BY <1>9, <2>2, <2>3, <2>4
<1>12. CASE OutCleanup
  <2>1. Registered \subseteq Reqs /\ \A r \in Registered : hpc[r] # "unseen"
    BY RegisteredReceived, Zenon
  <2>2. Finish(Registered) /\ opc' = "fail"
    BY <1>12 DEF OutCleanup, LeftRegistered
  <2> QED
    BY <1>9, <1>12, <2>1, <2>2 DEF OutCleanup
<1>13. ASSUME NEW r \in Reqs, HandleCall(r) PROVE TypeOK'
  <2>1. hpc' \in [Reqs -> HandlerStates]
    <3>1. \E to \in {"dropped", "start"} : hpc' = [hpc EXCEPT ![r] = to]
      BY <1>13 DEF HandleCall
    <3> QED
      BY <3>1 DEF HandlerStates
  <2>2. ctxd' \subseteq Reqs
    BY <1>13 DEF HandleCall
  <2>3. handling' \in [Ids -> Reqs \cup {NoReq}]
    <3>1. handling' = handling \/ (id[r] # NoId /\ handling' = [handling EXCEPT ![id[r]] = r])
      BY <1>13 DEF HandleCall
    <3> QED
      BY <3>1
  <2> QED
    BY <1>13, <2>1, <2>2, <2>3 DEF HandleCall
<1>14. ASSUME NEW r \in Reqs, HandlerFails(r) PROVE TypeOK'
  <2>1. hpc' \in [Reqs -> HandlerStates]
    BY <1>14, GotoType DEF HandlerFails, HandlerStates
  <2>2. failed' \in BOOLEAN /\ failing' \in BOOLEAN
    BY <1>14, Zenon DEF HandlerFails, Failing
  <2> QED
    BY <1>14, <2>1, <2>2 DEF HandlerFails
<1>15. ASSUME NEW r \in Reqs, ProducerWrites(r) \/ ProducerCloses(r) PROVE TypeOK'
  <2>1. prod' \in [Reqs -> {"none", "open", "writing", "closed"}]
    BY <1>15 DEF ProducerWrites, ProducerCloses
  <2>2. nvals' \in [Reqs -> 0..MaxVals]
    <3>1. CASE ProducerWrites(r)
      <4>1. nvals[r] + 1 \in 0..MaxVals /\ nvals' = [nvals EXCEPT ![r] = nvals[r] + 1]
        BY <3>1 DEF ProducerWrites
      <4> QED
        BY <4>1
    <3>2. CASE ProducerCloses(r)
      BY <3>2 DEF ProducerCloses
    <3> QED
      BY <1>15, <3>1, <3>2
  <2>3. UNCHANGED <<callVars, slotVars, outVars, connVars, log>>
    BY <1>15 DEF ProducerWrites, ProducerCloses
  <2> QED
    BY ONLY <1>0, <2>1, <2>2, <2>3
<1>16. ASSUME NEW r \in Reqs, OutRegister(r) PROVE TypeOK'
  <2>1. hpc' \in [Reqs -> HandlerStates]
    BY <1>16, GotoType DEF OutRegister, HandlerStates
  <2>2. /\ accepted' \in [Reqs -> {"none", "yes", "no"}]
        /\ opc' = "select" \/ opc' = "reply"
    BY <1>16 DEF OutRegister
  <2>3. \/ regs' = regs /\ cases' = cases
        \/ regs' = Append(regs, r) /\ cases' = Append(cases, r)
    BY <1>16 DEF OutRegister
  <2>4. regs' \in Seq(Reqs) /\ cases' \in Seq(Reqs)
    <3>1. \A q \in Seq(Reqs) : Append(q, r) \in Seq(Reqs)
      OBVIOUS
    <3>2. regs \in Seq(Reqs) /\ cases \in Seq(Reqs)
      OBVIOUS
    <3> QED
      BY ONLY <2>3, <3>1, <3>2
  <2>5. cur' \in [chid : Reqs, src : Reqs] \cup {NoCur}
    BY <1>16 DEF OutRegister
  <2>6. UNCHANGED <<loaded, ctxd, finished, handling, slotVars, prodVars,
                    outDone, connVars, log>>
    BY <1>16 DEF OutRegister
  <2> QED
    BY ONLY <1>0, <2>1, <2>2, <2>4, <2>5, <2>6
<1>17. ASSUME NEW i \in 1..Cardinality(Reqs), OutReceive(i) PROVE TypeOK'
  <2>1. i \in DOMAIN regs /\ i \in DOMAIN cases
    BY <1>17 DEF OutReceive, StreamsCore
  <2>2. regs[i] \in Reqs /\ cases[i] \in Reqs
    BY <2>1, RegisteredReceived, Zenon
  <2>3. cur' \in [chid : Reqs, src : Reqs] /\ opc' = "value"
    BY <1>17, <2>2, Zenon DEF OutReceive
  <2>4. prod' \in [Reqs -> {"none", "open", "writing", "closed"}]
    BY <1>17 DEF OutReceive
  <2>5. UNCHANGED <<callVars, slotVars, nvals, accepted, regs, cases, outDone,
                    connVars, log>>
    BY <1>17 DEF OutReceive
  <2> QED
    BY ONLY <1>0, <2>3, <2>4, <2>5
<1>18. CASE OutReply \/ OutValue \/ OutClose
  <2>1. cur \in [chid : Reqs, src : Reqs]
    BY <1>18 DEF OutReply, OutValue, OutClose, StreamsCore
  <2>2. log' \in [Reqs -> Seq(Frames)]
    BY <1>18, <2>1, LogType
    DEF OutReply, OutValue, OutClose, WriteReaches, WriteFails, WriteLost
  <2>3. /\ opc' \in {"select", "cleanup"} /\ cur' = NoCur
        /\ UNCHANGED <<callVars, slotVars, prodVars, accepted, regs, cases,
                        outDone, connVars>>
    BY <1>18 DEF OutReply, OutValue, OutClose
  <2> QED
    BY ONLY <1>0, <2>2, <2>3
<1>19. CASE OutFail \/ MainFail
  <2>1. failed' \in BOOLEAN /\ failing' \in BOOLEAN
    BY <1>19, Zenon DEF OutFail, MainFail, Failing
  <2> QED
    BY <1>19, <2>1 DEF OutFail, MainFail
<1>20. CASE MainCancel \/ CancelParent
  <2>1. ctxDead' \in BOOLEAN
    BY <1>20, Zenon DEF MainCancel, CancelParent, CancelAll
  <2> QED
    BY <1>20, <2>1 DEF MainCancel, CancelParent, CancelAll
<1>21. CASE OutDone \/ FailTransport \/ Break
  <2>1. /\ outDone' \in BOOLEAN /\ failing' \in BOOLEAN /\ tOpen' \in BOOLEAN
        /\ netUp' \in BOOLEAN
    BY <1>21, Zenon DEF OutDone, FailTransport, Break
  <2> QED
    BY <1>21, <2>1 DEF OutDone, FailTransport, Break
<1>22. CASE CloseInFlight
  BY <1>22 DEF CloseInFlight
<1>23. CASE MainReturn \/ FailReturns \/ Exit
  BY <1>23 DEF MainReturn, FailReturns, Exit
<1>24. CASE OutExit \/ ExecQuit
  BY <1>24 DEF OutExit, ExecQuit
<1>25. ASSUME NEW i \in Ids, HandleCancel(i) PROVE TypeOK'
  BY <1>25 DEF HandleCancel
<1>26. CASE UNCHANGED vars
  BY <1>26
<1> QED
  BY <1>4, <1>5, <1>6, <1>7, <1>8, <1>10, <1>11, <1>12, <1>13, <1>14, <1>15,
     <1>16, <1>17, <1>18, <1>19, <1>20, <1>21, <1>22, <1>23, <1>24, <1>25, <1>26
  DEF Next, Handler, OutChans, Main

\* The invariant holds in every reachable state.
LEMMA ConnInvariant == Spec => []ConnInv
<1>1. ConnInv /\ [Next]_vars => ConnInv'
  BY TypeStep, SlotsStep, StreamsStep, CallsStep DEF ConnInv
<1> QED
  BY <1>1, ConnInit, PTL DEF Spec

-----------------------------------------------------------------------------
\* The types hold, and the counter of reserveSubscription is the number of
\* slots held and never above maxSubscriptions, for any number of calls whose
\* loads, swaps and releases interleave.
THEOREM SlotsRespected == Spec => [](TypeOK /\ SlotsExact)
<1>1. ConnInv => TypeOK /\ SlotsExact
  BY DEF ConnInv, SlotsCore
<1> QED
  BY <1>1, ConnInvariant, PTL

\* A call whose context is live is the one registered under its id, in every
\* interleaving of reused ids, finish() and teardown, and no call is left
\* registered after closeInFlight.
THEOREM CallsCancellable == Spec => []StaysCancellable
<1>1. ConnInv => StaysCancellable
  BY DEF ConnInv, CallsCore
<1> QED
  BY <1>1, ConnInvariant, PTL
=============================================================================
