---------------------------- MODULE DuplexProofs ----------------------------
(* Theorems about Duplex, for every value of its constants.                *)
EXTENDS Duplex, FiniteSetTheorems, TLAPS

-----------------------------------------------------------------------------
(* The inductive invariant.                                                *)

\* The loop of the client sends a call that its caller has offered and that
\* the server does not know yet.
SendCore ==
    /\ \A f \in Calls : call[f] = "offer" => sg[f] = 0
    /\ cmain = "send" => csend \in Calls /\ call[csend] = "offer"
    /\ cmain \in {"registered", "write"} =>
         csend \in Calls /\ call[csend] = "wait" /\ sg[csend] = 0

\* A call that the server knows came from a transport there is or was, and
\* makes one call back at most, which has an id until it has ended and after.
MethodCore ==
    \A f \in Calls :
      /\ sh[f] = "none" <=> sg[f] = 0
      /\ sg[f] <= gen
      /\ sg[f] = 0 => rid[f] = 0
      /\ rid[f] = 0 => rres[f] = Nobody
      /\ rid[f] # 0 => f \in Reverses
      /\ sh[f] \in {"offer", "accepted", "wait"} => rid[f] # 0 /\ rres[f] = Nobody
      /\ sh[f] = "run" /\ rid[f] # 0 => rres[f] # Nobody

\* The loop of a server sends a call back of one of its own methods.
BackCore ==
    \A g \in Gens :
      /\ smain[g] = "send" =>
           ssend[g] \in Calls /\ sg[ssend[g]] = g /\ sh[ssend[g]] = "accepted"
      /\ smain[g] \in {"registered", "write"} =>
           ssend[g] \in Calls /\ sg[ssend[g]] = g /\ sh[ssend[g]] = "wait"

\* The calls whose methods have called back on the transport g.
Asked(g) == {f \in Reverses : sg[f] = g /\ rid[f] # 0}

\* Ids are counted, and no two call backs of one transport have the same.
IdCore ==
    /\ \A g \in Gens : nextId[g] = Cardinality(Asked(g)) + 1
    /\ \A f \in Calls : rid[f] # 0 => rid[f] < nextId[sg[f]]
    /\ \A f, h \in Calls :
         rid[f] # 0 /\ rid[f] = rid[h] /\ sg[f] = sg[h] => f = h

\* The client does not know of a call back before it was written.
ArrivalCore ==
    /\ \A f \in Calls :
         rid[f] = 0 \/ sh[f] \in {"offer", "accepted"} => rh[f] = "none"
    /\ \A g \in Gens :
         smain[g] \in {"registered", "write"} => rh[ssend[g]] = "none"

DuplexInv == TypeOK /\ SendCore /\ MethodCore /\ BackCore /\ IdCore
             /\ ArrivalCore /\ StaleOrOwn

-----------------------------------------------------------------------------
(* Type correctness.                                                       *)

\* Calls, their absence and the other words are different.
LEMMA Words ==
    /\ Nobody \notin Calls /\ Reverses \subseteq Calls
    /\ \A w \in {"main", "ping", "error"} : w \notin Calls /\ w # Nobody
    /\ MaxGen \in Nat /\ Gens = 1..MaxGen /\ 1 \in Gens /\ Gens \subseteq Nat
    /\ IsFiniteSet(Reverses) /\ Cardinality(Reverses) \in Nat
<1>1. /\ Nobody \notin Calls /\ Reverses \subseteq Calls /\ IsFiniteSet(Reverses)
      /\ (Calls \cup {Nobody}) \cap {"main", "ping", "error"} = {}
      /\ MaxGen \in Nat \ {0}
  BY DuplexAssumption
<1>2. Cardinality(Reverses) \in Nat
  BY <1>1, FS_CardinalityType
<1> QED
  BY <1>1, <1>2 DEF Gens

LEMMA DuplexInit == Init => DuplexInv
<1> SUFFICES ASSUME Init PROVE DuplexInv
  OBVIOUS
<1>1. ClientTypeOK
  BY Words DEF Init, ClientTypeOK
<1>2. ServerTypeOK
  <2>1. 1 \in 1..(Cardinality(Reverses) + 1) /\ 0 \in 0..MaxGen
        /\ 0 \in 0..Cardinality(Reverses)
    BY Words
  <2> QED
    BY <2>1 DEF Init, ServerTypeOK
<1>3. OneWriter
  BY Words DEF Init, OneWriter
<1>4. SendCore /\ MethodCore /\ BackCore /\ ArrivalCore
  BY DEF Init, SendCore, MethodCore, BackCore, ArrivalCore
<1>5. StaleOrOwn
  BY Words DEF Init, StaleOrOwn
<1>6. IdCore
  <2>1. \A g \in Gens : Asked(g) = {}
    BY Words DEF Init, Asked
  <2> QED
    BY <2>1, FS_EmptySet DEF Init, IdCore
<1> QED
  BY <1>1, <1>2, <1>3, <1>4, <1>5, <1>6 DEF DuplexInv, TypeOK

\* The flags are set and reset, and the network gets worse or is replaced.
LEMMA FlagStep ==
    ASSUME DuplexInv, [Next]_vars
    PROVE  /\ rerr' \in BOOLEAN /\ dialing' \in BOOLEAN /\ stopped' \in BOOLEAN
           /\ failed' \in BOOLEAN /\ failing' \in BOOLEAN /\ copen' \in BOOLEAN
           /\ net' \in {"up", "silent", "reset"}
<1>1. /\ rerr' = rerr \/ rerr' = TRUE \/ rerr' = FALSE
      /\ dialing' = dialing \/ dialing' = TRUE \/ dialing' = FALSE
      /\ stopped' = stopped \/ stopped' = TRUE
      /\ failed' = failed \/ failed' = TRUE
      /\ failing' = failing \/ failing' = TRUE \/ failing' = FALSE
      /\ copen' = copen \/ copen' = TRUE \/ copen' = FALSE
      /\ net' \in {net, "up", "silent", "reset"}
  BY DEF Next, vars, cvars, nvars, svars, Break, GiveUp, Stop, Panic, FailCloses,
     ReaderFails, Install, PingBlocks, PingWritten, ClientLoop, Registers,
     LockForSend, SendBroken, BeginReconnect, Exit, Accept, Deliver,
     DeliverRequest, DeliverCallBack, DeliverCallBackAnswer, DeliverAnswer,
     Refused, ClientHandler, LockForAnswer, AnswerBroken,
     ServerHandler, CallBack, CallBackRefused, SAccept,
     SLockForAnswer, SAnswerBroken, ServerLoop, SRegisters, SLockForSend,
     SSendBroken, SExit
<1>2. /\ rerr \in BOOLEAN /\ dialing \in BOOLEAN /\ stopped \in BOOLEAN
      /\ failed \in BOOLEAN /\ failing \in BOOLEAN /\ copen \in BOOLEAN
      /\ net \in {"up", "silent", "reset"}
  BY DEF DuplexInv, TypeOK, ClientTypeOK
<1>3. TRUE \in BOOLEAN /\ FALSE \in BOOLEAN
  BY Zenon
<1>4. rerr' \in BOOLEAN
  BY <1>1, <1>2, <1>3, Zenon
<1>5. dialing' \in BOOLEAN
  BY <1>1, <1>2, <1>3, Zenon
<1>6. stopped' \in BOOLEAN
  BY <1>1, <1>2, <1>3, Zenon
<1>7. failed' \in BOOLEAN
  BY <1>1, <1>2, <1>3, Zenon
<1>8. failing' \in BOOLEAN
  BY <1>1, <1>2, <1>3, Zenon
<1>9. copen' \in BOOLEAN
  BY <1>1, <1>2, <1>3, Zenon
<1>10. net' \in {"up", "silent", "reset"}
  BY <1>1, <1>2
<1> QED
  BY <1>4, <1>5, <1>6, <1>7, <1>8, <1>9, <1>10

\* Every step keeps the types of the client.
LEMMA ClientTypeStep ==
    ASSUME DuplexInv, [Next]_vars
    PROVE  ClientTypeOK'
<1>1. /\ call \in [Calls -> {"offer", "wait", "answered", "failed"}]
      /\ cmain \in {"select", "send", "registered", "write", "exited"}
      /\ csend \in Calls \cup {Nobody}
      /\ clk \in {"main", "ping", Nobody} \cup Calls
      /\ rh \in [Calls -> {"none", "run", "write", "done"}]
      /\ gen \in Gens
  BY DEF DuplexInv, TypeOK, ClientTypeOK
<1> DEFINE Kept ==
      /\ call' \in [Calls -> {"offer", "wait", "answered", "failed"}]
      /\ cmain' \in {"select", "send", "registered", "write", "exited"}
      /\ csend' \in Calls \cup {Nobody}
      /\ clk' \in {"main", "ping", Nobody} \cup Calls
      /\ rh' \in [Calls -> {"none", "run", "write", "done"}]
      /\ gen' \in Gens
<1>2. CASE Registers \/ LockForSend \/ SendBroken
  <2>1. Kept
    BY <1>1, <1>2 DEF Registers, LockForSend, SendBroken, Written, nvars
  <2> QED
    BY <2>1, FlagStep DEF ClientTypeOK
<1>3. CASE BeginReconnect \/ Exit \/ \E f \in Calls : Refused(f)
  <2>1. InFlightFailed \in [Calls -> {"offer", "wait", "answered", "failed"}]
    BY <1>1 DEF InFlightFailed
  <2>2. Kept
    BY <1>1, <1>3, <2>1 DEF BeginReconnect, Exit, Refused, nvars
  <2> QED
    BY <2>2, FlagStep DEF ClientTypeOK
<1>4. CASE \E f \in Calls : Accept(f) \/ ClientHandler(f)
  <2>1. Kept
    BY <1>1, <1>4 DEF Accept, ClientHandler, LockForAnswer,
       AnswerBroken, nvars
  <2> QED
    BY <2>1, FlagStep DEF ClientTypeOK
<1>5. CASE Install
  <2>1. gen + 1 \in Gens
    BY <1>1, <1>5, Words DEF Install
  <2>2. Kept
    BY <1>1, <1>5, <2>1 DEF Install
  <2> QED
    BY <2>2, FlagStep DEF ClientTypeOK
<1>6. CASE PingBlocks \/ PingWritten
  <2>1. Kept
    BY <1>1, <1>6 DEF PingBlocks, PingWritten, nvars
  <2> QED
    BY <2>1, FlagStep DEF ClientTypeOK
<1>7. CASE Deliver
  <2>1. Kept
    BY <1>1, <1>7 DEF Deliver, DeliverRequest, DeliverCallBack,
       DeliverCallBackAnswer, DeliverAnswer, Written, nvars
  <2> QED
    BY <2>1, FlagStep DEF ClientTypeOK
<1>8. CASE UNCHANGED <<call, cmain, csend, clk, rh, gen>>
  BY <1>1, <1>8, FlagStep DEF ClientTypeOK
<1> QED
  BY <1>2, <1>3, <1>4, <1>5, <1>6, <1>7, <1>8
  DEF Next, ClientLoop, vars, cvars, nvars, Break, GiveUp, Stop, Panic,
      FailCloses, ReaderFails, ServerHandler, CallBack, CallBackRefused,
      SAccept, SLockForAnswer, SAnswerBroken, ServerLoop,
      SRegisters, SLockForSend, SSendBroken, SExit

\* A call back that is made has an id that no other has, and ids do not
\* outnumber the methods that call back.
LEMMA IdFresh ==
    ASSUME DuplexInv, NEW f \in Calls, CallBack(f)
    PROVE  /\ sg[f] \in Gens /\ f \in Reverses /\ rid[f] = 0 /\ rres[f] = Nobody
           /\ nextId[sg[f]] = Cardinality(Asked(sg[f])) + 1
           /\ nextId[sg[f]] \in 1..Cardinality(Reverses)
           /\ \A h \in Calls : sg[h] = sg[f] => rid[h] < nextId[sg[f]]
<1>1. /\ sh[f] = "run" /\ f \in Reverses /\ rres[f] = Nobody
  BY DEF CallBack
<1>2. /\ rid[f] = 0 /\ sg[f] # 0 /\ sg[f] \in 0..MaxGen
  BY <1>1 DEF DuplexInv, MethodCore, TypeOK, ServerTypeOK
<1>3. sg[f] \in Gens
  BY <1>2, Words
<1>4. nextId[sg[f]] = Cardinality(Asked(sg[f])) + 1
  BY <1>3 DEF DuplexInv, IdCore
<1>5. f \notin Asked(sg[f]) /\ Asked(sg[f]) \in SUBSET Reverses
      /\ Asked(sg[f]) \cup {f} \in SUBSET Reverses
  BY <1>1, <1>2 DEF Asked
<1>6. IsFiniteSet(Asked(sg[f])) /\ Cardinality(Asked(sg[f])) \in Nat
  BY <1>5, Words, FS_Subset, FS_CardinalityType
<1>7. Cardinality(Asked(sg[f]) \cup {f}) = Cardinality(Asked(sg[f])) + 1
  BY <1>5, <1>6, FS_AddElement
<1>8. Cardinality(Asked(sg[f]) \cup {f}) <= Cardinality(Reverses)
  BY <1>5, Words, FS_Subset
<1>9. nextId[sg[f]] \in 1..Cardinality(Reverses)
  BY <1>4, <1>6, <1>7, <1>8, Words
<1>10. ASSUME NEW h \in Calls, sg[h] = sg[f] PROVE rid[h] < nextId[sg[f]]
  <2>1. rid[h] # 0 => rid[h] < nextId[sg[h]]
    BY DEF DuplexInv, IdCore
  <2> QED
    BY <1>9, <1>10, <2>1
<1> QED
  BY <1>1, <1>2, <1>3, <1>4, <1>9, <1>10

\* Every step keeps the types of the server.
LEMMA ServerTypeStep ==
    ASSUME DuplexInv, [Next]_vars
    PROVE  ServerTypeOK'
<1>1. ServerTypeOK /\ gen \in Gens
  BY DEF DuplexInv, TypeOK, ClientTypeOK
<1>2. \A g \in Gens : smain[g] \in {"send", "registered", "write"} => ssend[g] \in Calls
  BY DEF DuplexInv, BackCore
<1>3. CASE UNCHANGED svars
  BY <1>1, <1>3 DEF ServerTypeOK, svars
<1>4. ASSUME NEW f \in Calls, CallBack(f)
      PROVE  ServerTypeOK'
  <2>1. /\ rid' = [rid EXCEPT ![f] = nextId[sg[f]]]
        /\ nextId' = [nextId EXCEPT ![sg[f]] = @ + 1]
        /\ sh' = [sh EXCEPT ![f] = "offer"]
        /\ UNCHANGED <<smain, ssend, slk, sg, rres>>
    BY <1>4 DEF CallBack, IdTaken
  <2>2. nextId[sg[f]] \in 1..Cardinality(Reverses) /\ sg[f] \in Gens
    BY <1>4, IdFresh
  <2>3. nextId[sg[f]] + 1 \in 1..(Cardinality(Reverses) + 1)
        /\ nextId[sg[f]] \in 0..Cardinality(Reverses)
    BY <2>2, Words
  <2> QED
    BY <1>1, <2>1, <2>2, <2>3 DEF ServerTypeOK
<1>5. ASSUME NEW f \in Calls,
             CallBackRefused(f) \/ SAccept(f) \/ SLockForAnswer(f) \/ SAnswerBroken(f)
      PROVE  ServerTypeOK'
  BY <1>1, <1>5 DEF ServerTypeOK, CallBackRefused, SAccept,
     SLockForAnswer, SAnswerBroken, Ended
<1>6. ASSUME NEW g \in Gens, ServerLoop(g)
      PROVE  ServerTypeOK'
  <2>1. CASE SRegisters(g) \/ SLockForSend(g) \/ SSendBroken(g)
    BY <1>1, <2>1 DEF ServerTypeOK, SRegisters, SLockForSend, SSendBroken,
       SWritten, Ended
  <2>2. CASE SExit(g)
    BY <1>1, <2>2 DEF ServerTypeOK, SExit
  <2> QED
    BY <1>6, <2>1, <2>2 DEF ServerLoop
<1>7. CASE DeliverRequest
  <2>1. gen \in 0..MaxGen
    BY <1>1, Words
  <2> QED
    BY <1>1, <1>7, <2>1 DEF ServerTypeOK, DeliverRequest
<1>8. CASE DeliverCallBack
  BY <1>1, <1>8 DEF ServerTypeOK, DeliverCallBack, SWritten
<1>9. ASSUME NEW f \in Calls, DeliverCallBackAnswer(f) \/ DeliverAnswer(f)
      PROVE  ServerTypeOK'
  BY <1>1, <1>9 DEF ServerTypeOK, DeliverCallBackAnswer, DeliverAnswer, Ended
<1> QED
  BY <1>3, <1>4, <1>5, <1>6, <1>7, <1>8, <1>9
  DEF Next, ClientLoop, vars, Break, GiveUp, Stop, Panic,
      FailCloses, ReaderFails, Install, PingBlocks, PingWritten, Registers,
      LockForSend, SendBroken, BeginReconnect, Exit, Accept, Refused,
      ClientHandler, LockForAnswer, AnswerBroken, Deliver,
      ServerHandler

-----------------------------------------------------------------------------
(* The lock, and who sends what.                                           *)

\* The functions that the steps below update.
LEMMA Typed ==
    ASSUME DuplexInv
    PROVE  /\ call \in [Calls -> {"offer", "wait", "answered", "failed"}]
           /\ rh \in [Calls -> {"none", "run", "write", "done"}]
           /\ clk \in {"main", "ping", Nobody} \cup Calls
           /\ cmain \in {"select", "send", "registered", "write", "exited"}
           /\ csend \in Calls \cup {Nobody}
           /\ gen \in Gens
           /\ smain \in [Gens -> {"select", "send", "registered", "write", "exited"}]
           /\ ssend \in [Gens -> Calls \cup {Nobody}]
           /\ slk \in [Gens -> {"main", Nobody} \cup Calls]
           /\ nextId \in [Gens -> 1..(Cardinality(Reverses) + 1)]
           /\ sh \in [Calls -> {"none", "run", "offer", "accepted", "wait",
                                "write", "done"}]
           /\ sg \in [Calls -> 0..MaxGen]
           /\ rid \in [Calls -> 0..Cardinality(Reverses)]
           /\ rres \in [Calls -> Calls \cup {"error", Nobody}]
  BY DEF DuplexInv, TypeOK, ClientTypeOK, ServerTypeOK

\* A call that the server knows has a transport.
LEMMA Known ==
    ASSUME DuplexInv, NEW f \in Calls, sh[f] # "none"
    PROVE  sg[f] \in Gens /\ sg[f] <= gen
  BY Typed, Words DEF DuplexInv, MethodCore

\* The lock is taken by who finds it free, and given back by who has it.
LEMMA WriterStep ==
    ASSUME DuplexInv, [Next]_vars
    PROVE  OneWriter'
<1>1. /\ rh \in [Calls -> {"none", "run", "write", "done"}]
      /\ smain \in [Gens -> {"select", "send", "registered", "write", "exited"}]
      /\ ssend \in [Gens -> Calls \cup {Nobody}]
      /\ slk \in [Gens -> {"main", Nobody} \cup Calls]
      /\ sh \in [Calls -> {"none", "run", "offer", "accepted", "wait",
                           "write", "done"}]
      /\ sg \in [Calls -> 0..MaxGen] /\ gen \in Gens
  BY Typed
<1>2. /\ (clk = "main") <=> (cmain = "write")
      /\ \A f \in Calls : (clk = f) <=> (rh[f] = "write")
      /\ \A g \in Gens :
           /\ (slk[g] = "main") <=> (smain[g] = "write")
           /\ \A f \in Calls : (slk[g] = f) <=> (sg[f] = g /\ sh[f] = "write")
  BY DEF DuplexInv, TypeOK, OneWriter
<1>3. /\ Nobody \notin Calls
      /\ \A w \in {"main", "ping", "error"} : w \notin Calls /\ w # Nobody
  BY Words
<1>4. \A f \in Calls : sh[f] # "none" => sg[f] \in Gens
  BY Known
<1>5. \A g \in Gens :
        /\ smain[g] = "send" =>
             ssend[g] \in Calls /\ sg[ssend[g]] = g /\ sh[ssend[g]] = "accepted"
        /\ smain[g] \in {"registered", "write"} =>
             ssend[g] \in Calls /\ sg[ssend[g]] = g /\ sh[ssend[g]] = "wait"
  BY DEF DuplexInv, BackCore
\* The two sides have a lock each.
<1>6. ASSUME (clk' = "main") <=> (cmain' = "write"),
             \A f \in Calls : (clk' = f) <=> (rh'[f] = "write"),
             UNCHANGED <<slk, smain, sh, sg>>
      PROVE  OneWriter'
  BY <1>2, <1>6 DEF OneWriter
<1>7. ASSUME UNCHANGED <<clk, cmain, rh>>,
             \A g \in Gens :
               /\ (slk'[g] = "main") <=> (smain'[g] = "write")
               /\ \A f \in Calls : (slk'[g] = f) <=> (sg'[f] = g /\ sh'[f] = "write")
      PROVE  OneWriter'
  BY <1>2, <1>7 DEF OneWriter
<1>8. CASE Registers \/ LockForSend \/ SendBroken \/ BeginReconnect \/ Exit
           \/ PingBlocks \/ PingWritten
  BY <1>1, <1>2, <1>3, <1>6, <1>8
  DEF Registers, LockForSend, SendBroken, BeginReconnect, Exit, PingBlocks,
      PingWritten, Written, svars
<1>9. ASSUME NEW f \in Calls, Accept(f) \/ ClientHandler(f)
      PROVE  OneWriter'
  BY <1>1, <1>2, <1>3, <1>6, <1>9
  DEF Accept, ClientHandler, LockForAnswer, WriterFree,
      AnswerBroken, svars
<1>10. ASSUME NEW f \in Calls, CallBack(f) \/ CallBackRefused(f) \/ SAccept(f)
       PROVE  OneWriter'
  BY <1>1, <1>2, <1>3, <1>4, <1>7, <1>10
  DEF CallBack, CallBackRefused, SAccept, Ended, cvars
<1>11. ASSUME NEW f \in Calls, SLockForAnswer(f) \/ SAnswerBroken(f)
       PROVE  OneWriter'
  BY <1>1, <1>2, <1>3, <1>4, <1>7, <1>11 DEF SLockForAnswer, SAnswerBroken, cvars
<1>12. ASSUME NEW g \in Gens, SRegisters(g) \/ SLockForSend(g) \/ SSendBroken(g)
       PROVE  OneWriter'
  BY <1>1, <1>2, <1>3, <1>5, <1>7, <1>12
  DEF SRegisters, SLockForSend, SSendBroken, SWritten, Ended, cvars
<1>13. ASSUME NEW g \in Gens, SExit(g)
       PROVE  OneWriter'
  BY <1>1, <1>2, <1>3, <1>7, <1>13 DEF SExit, cvars
<1>14. CASE DeliverRequest
  <2>1. csend \in Calls /\ sg[csend] = 0 /\ sh[csend] = "none"
    BY <1>14 DEF DeliverRequest, DuplexInv, SendCore, MethodCore
  <2>2. /\ cmain = "write" /\ cmain' = "select" /\ clk' = Nobody
        /\ sh' = [sh EXCEPT ![csend] = "run"] /\ sg' = [sg EXCEPT ![csend] = gen]
        /\ UNCHANGED <<rh, slk, smain>>
    BY <1>14 DEF DeliverRequest, Written
  <2>3. (clk' = "main") <=> (cmain' = "write")
    BY <1>3, <2>2
  <2>4. \A f \in Calls : (clk' = f) <=> (rh'[f] = "write")
    BY <1>2, <1>3, <2>2
  <2>5. \A g \in Gens :
          /\ (slk'[g] = "main") <=> (smain'[g] = "write")
          /\ \A f \in Calls : (slk'[g] = f) <=> (sg'[f] = g /\ sh'[f] = "write")
    BY <1>1, <1>2, <2>1, <2>2
  <2> QED
    BY <2>3, <2>4, <2>5 DEF OneWriter
<1>15. CASE DeliverCallBack
  <2>1. /\ smain[gen] = "write" /\ ssend[gen] \in Calls /\ rh[ssend[gen]] = "none"
    BY <1>1, <1>5, <1>15 DEF DeliverCallBack, DuplexInv, ArrivalCore
  <2>2. /\ smain' = [smain EXCEPT ![gen] = "select"]
        /\ slk' = [slk EXCEPT ![gen] = Nobody]
        /\ \E to \in {"run", "done"} : rh' = [rh EXCEPT ![ssend[gen]] = to]
        /\ UNCHANGED <<cmain, clk, sh, sg>>
    BY <1>15 DEF DeliverCallBack, SWritten
  <2>3. \A f \in Calls : (clk' = f) <=> (rh'[f] = "write")
    BY <1>1, <1>2, <2>1, <2>2
  <2>4. \A g \in Gens :
          /\ (slk'[g] = "main") <=> (smain'[g] = "write")
          /\ \A f \in Calls : (slk'[g] = f) <=> (sg'[f] = g /\ sh'[f] = "write")
    BY <1>1, <1>2, <1>3, <2>1, <2>2
  <2> QED
    BY <1>2, <2>2, <2>3, <2>4 DEF OneWriter
<1>16. ASSUME NEW f \in Calls, DeliverCallBackAnswer(f)
       PROVE  OneWriter'
  <2>1. /\ rh[f] = "write" /\ clk' = Nobody /\ rh' = [rh EXCEPT ![f] = "done"]
        /\ UNCHANGED <<cmain, slk, smain, sg>>
        /\ \/ sh' = sh
           \/ \E h \in Calls : sh[h] = "wait" /\ sh' = [sh EXCEPT ![h] = "run"]
    BY <1>16 DEF DeliverCallBackAnswer, Ended
  <2>2. /\ (clk' = "main") <=> (cmain' = "write")
        /\ \A h \in Calls : (clk' = h) <=> (rh'[h] = "write")
    BY <1>1, <1>2, <1>3, <2>1
  <2>3. \A g \in Gens :
          /\ (slk'[g] = "main") <=> (smain'[g] = "write")
          /\ \A h \in Calls : (slk'[g] = h) <=> (sg'[h] = g /\ sh'[h] = "write")
    BY <1>1, <1>2, <2>1
  <2> QED
    BY <2>2, <2>3 DEF OneWriter
<1>17. ASSUME NEW f \in Calls, DeliverAnswer(f)
       PROVE  OneWriter'
  BY <1>1, <1>2, <1>3, <1>7, <1>17 DEF DeliverAnswer, Connected
<1>18. CASE UNCHANGED <<clk, cmain, rh, slk, smain, sh, sg>>
  BY <1>2, <1>6, <1>18
<1> QED
  BY <1>8, <1>9, <1>10, <1>11, <1>12, <1>13, <1>14, <1>15, <1>16, <1>17, <1>18
  DEF Next, ClientLoop, ServerLoop, ServerHandler, Deliver, vars, cvars, svars,
      Break, GiveUp, Stop, Panic, FailCloses, ReaderFails, Install, Refused

\* Only a call that its caller still offers is sent, and only once.
LEMMA SendStep ==
    ASSUME DuplexInv, [Next]_vars
    PROVE  SendCore'
<1>1. /\ call \in [Calls -> {"offer", "wait", "answered", "failed"}]
      /\ sg \in [Calls -> 0..MaxGen] /\ gen \in Gens
  BY Typed
<1>2. /\ \A f \in Calls : call[f] = "offer" => sg[f] = 0
      /\ cmain = "send" => csend \in Calls /\ call[csend] = "offer"
      /\ cmain \in {"registered", "write"} =>
           csend \in Calls /\ call[csend] = "wait" /\ sg[csend] = 0
  BY DEF DuplexInv, SendCore
<1>3. CASE ClientLoop
  BY <1>1, <1>2, <1>3
  DEF ClientLoop, SendCore, Registers, LockForSend, SendBroken, BeginReconnect,
      Exit, Accept, Written, InFlightFailed, svars
<1>4. ASSUME NEW f \in Calls, Refused(f)
      PROVE  SendCore'
  BY <1>1, <1>2, <1>4 DEF SendCore, Refused, svars
<1>5. CASE DeliverRequest
  BY <1>1, <1>2, <1>5 DEF SendCore, DeliverRequest, Written
<1>6. ASSUME NEW f \in Calls, DeliverAnswer(f)
      PROVE  SendCore'
  BY <1>1, <1>2, <1>6 DEF SendCore, DeliverAnswer
<1>7. CASE UNCHANGED <<call, cmain, csend, sg>>
  BY <1>2, <1>7 DEF SendCore
<1> QED
  BY <1>3, <1>4, <1>5, <1>6, <1>7
  DEF Next, vars, cvars, svars, Break, GiveUp, Stop, Panic, FailCloses,
      ReaderFails, Install, PingBlocks, PingWritten, Deliver, DeliverCallBack,
      DeliverCallBackAnswer, ClientHandler, LockForAnswer,
      AnswerBroken, ServerHandler, CallBack, CallBackRefused, SAccept,
      SLockForAnswer, SAnswerBroken, ServerLoop, SRegisters,
      SLockForSend, SSendBroken, SExit

\* A call back begins with an id, and ends once.
LEMMA MethodStep ==
    ASSUME DuplexInv, [Next]_vars
    PROVE  MethodCore'
<1>1. /\ sh \in [Calls -> {"none", "run", "offer", "accepted", "wait",
                           "write", "done"}]
      /\ sg \in [Calls -> 0..MaxGen] /\ rid \in [Calls -> 0..Cardinality(Reverses)]
      /\ rres \in [Calls -> Calls \cup {"error", Nobody}]
      /\ gen \in Gens /\ nextId \in [Gens -> 1..(Cardinality(Reverses) + 1)]
  BY Typed
<1>2. \A f \in Calls :
        /\ sh[f] = "none" <=> sg[f] = 0
        /\ sg[f] <= gen
        /\ sg[f] = 0 => rid[f] = 0
        /\ rid[f] = 0 => rres[f] = Nobody
        /\ rid[f] # 0 => f \in Reverses
        /\ sh[f] \in {"offer", "accepted", "wait"} => rid[f] # 0 /\ rres[f] = Nobody
        /\ sh[f] = "run" /\ rid[f] # 0 => rres[f] # Nobody
  BY DEF DuplexInv, MethodCore
<1>3. /\ Nobody \notin Calls /\ "error" # Nobody
      /\ MaxGen \in Nat /\ Gens = 1..MaxGen /\ Cardinality(Reverses) \in Nat
  BY Words
<1>4. \A g \in Gens :
        /\ smain[g] = "send" => ssend[g] \in Calls /\ sh[ssend[g]] = "accepted"
        /\ smain[g] \in {"registered", "write"} =>
             ssend[g] \in Calls /\ sh[ssend[g]] = "wait"
  BY DEF DuplexInv, BackCore
<1>5. CASE Install
  <2>1. gen' = gen + 1 /\ UNCHANGED <<sh, sg, rid, rres>>
    BY <1>5 DEF Install, svars
  <2> QED
    BY <1>1, <1>2, <1>3, <2>1 DEF MethodCore
<1>6. ASSUME NEW f \in Calls, CallBack(f)
      PROVE  MethodCore'
  <2>1. f \in Reverses /\ nextId[sg[f]] \in 1..Cardinality(Reverses)
        /\ sh[f] = "run" /\ rres[f] = Nobody
    BY <1>6, IdFresh DEF CallBack
  <2>2. /\ sh' = [sh EXCEPT ![f] = "offer"]
        /\ rid' = [rid EXCEPT ![f] = nextId[sg[f]]]
        /\ UNCHANGED <<gen, sg, rres>>
    BY <1>6 DEF CallBack, nvars
  <2> QED
    BY <1>1, <1>2, <1>3, <2>1, <2>2 DEF MethodCore
<1>7. ASSUME NEW f \in Calls,
             CallBackRefused(f) \/ SAccept(f) \/ SLockForAnswer(f) \/ SAnswerBroken(f)
      PROVE  MethodCore'
  BY <1>1, <1>2, <1>3, <1>7
  DEF MethodCore, CallBackRefused, SAccept, SLockForAnswer,
      SAnswerBroken, Ended, nvars
<1>8. ASSUME NEW g \in Gens, SRegisters(g) \/ SLockForSend(g) \/ SSendBroken(g)
      PROVE  MethodCore'
  BY <1>1, <1>2, <1>3, <1>4, <1>8
  DEF MethodCore, SRegisters, SLockForSend, SSendBroken, Ended, nvars
<1>9. ASSUME NEW g \in Gens, SExit(g)
      PROVE  MethodCore'
  BY <1>1, <1>2, <1>3, <1>9 DEF MethodCore, SExit, nvars
<1>10. CASE DeliverRequest
  <2>1. csend \in Calls /\ sg[csend] = 0
    BY <1>10 DEF DeliverRequest, DuplexInv, SendCore
  <2>2. /\ sh' = [sh EXCEPT ![csend] = "run"] /\ sg' = [sg EXCEPT ![csend] = gen]
        /\ UNCHANGED <<gen, rid, rres>>
    BY <1>10 DEF DeliverRequest, nvars
  <2> QED
    BY <1>1, <1>2, <1>3, <2>1, <2>2 DEF MethodCore
<1>11. ASSUME NEW f \in Calls, DeliverCallBackAnswer(f)
       PROVE  MethodCore'
  <2>1. /\ UNCHANGED <<gen, sg, rid>>
        /\ \/ UNCHANGED <<sh, rres>>
           \/ \E h \in Calls : /\ sh[h] = "wait" /\ sh' = [sh EXCEPT ![h] = "run"]
                               /\ rres' = [rres EXCEPT ![h] = f]
    BY <1>11 DEF DeliverCallBackAnswer, Ended, nvars
  <2> QED
    BY <1>1, <1>2, <1>3, <2>1 DEF MethodCore
<1>12. ASSUME NEW f \in Calls, DeliverAnswer(f)
       PROVE  MethodCore'
  BY <1>1, <1>2, <1>3, <1>12 DEF MethodCore, DeliverAnswer, nvars
<1>13. CASE UNCHANGED <<gen, sh, sg, rid, rres>>
  BY <1>2, <1>13 DEF MethodCore
<1> QED
  BY <1>5, <1>6, <1>7, <1>8, <1>9, <1>10, <1>11, <1>12, <1>13
  DEF Next, ClientLoop, ServerLoop, ServerHandler, ClientHandler, Deliver, vars,
      nvars, svars, Break, GiveUp, Stop, Panic, FailCloses, ReaderFails,
      PingBlocks, PingWritten, Registers, LockForSend, SendBroken,
      BeginReconnect, Exit, Accept, Refused, LockForAnswer,
      AnswerBroken, DeliverCallBack

\* A call back stays with the loop that took it until it is written or ends.
LEMMA BackStep ==
    ASSUME DuplexInv, [Next]_vars
    PROVE  BackCore'
<1>1. /\ sh \in [Calls -> {"none", "run", "offer", "accepted", "wait",
                           "write", "done"}]
      /\ sg \in [Calls -> 0..MaxGen]
      /\ smain \in [Gens -> {"select", "send", "registered", "write", "exited"}]
      /\ ssend \in [Gens -> Calls \cup {Nobody}] /\ gen \in Gens
  BY Typed
<1>2. \A g \in Gens :
        /\ smain[g] = "send" =>
             ssend[g] \in Calls /\ sg[ssend[g]] = g /\ sh[ssend[g]] = "accepted"
        /\ smain[g] \in {"registered", "write"} =>
             ssend[g] \in Calls /\ sg[ssend[g]] = g /\ sh[ssend[g]] = "wait"
  BY DEF DuplexInv, BackCore
<1>3. \A f \in Calls : sh[f] # "none" => sg[f] \in Gens
  BY Known
<1>4. \A g \in Gens : smain[g] \in {"send", "registered", "write"} => g # 0
  BY Words
<1>5. ASSUME NEW f \in Calls, CallBack(f) \/ CallBackRefused(f) \/ SAccept(f)
                                \/ SLockForAnswer(f)
                                \/ SAnswerBroken(f)
      PROVE  BackCore'
  BY <1>1, <1>2, <1>3, <1>5
  DEF BackCore, CallBack, CallBackRefused, SAccept,
      SLockForAnswer, SAnswerBroken, Ended
<1>6. ASSUME NEW g \in Gens, SRegisters(g) \/ SLockForSend(g) \/ SSendBroken(g)
      PROVE  BackCore'
  BY <1>1, <1>2, <1>6
  DEF BackCore, SRegisters, SLockForSend, SSendBroken, SWritten, Ended
<1>7. ASSUME NEW g \in Gens, SExit(g)
      PROVE  BackCore'
  BY <1>1, <1>2, <1>7 DEF BackCore, SExit
<1>8. CASE DeliverRequest
  <2>1. csend \in Calls /\ sg[csend] = 0 /\ sh[csend] = "none"
    BY <1>8 DEF DeliverRequest, DuplexInv, SendCore, MethodCore
  <2>2. /\ sh' = [sh EXCEPT ![csend] = "run"] /\ sg' = [sg EXCEPT ![csend] = gen]
        /\ UNCHANGED <<smain, ssend>>
    BY <1>8 DEF DeliverRequest
  <2> QED
    BY <1>1, <1>2, <1>4, <2>1, <2>2 DEF BackCore
<1>9. ASSUME NEW f \in Calls, DeliverCallBackAnswer(f)
      PROVE  BackCore'
  <2>1. /\ UNCHANGED <<sg, smain, ssend>> /\ smain[gen] = "select"
        /\ \/ UNCHANGED sh
           \/ \E h \in Calls : sg[h] = gen /\ sh[h] = "wait"
                               /\ sh' = [sh EXCEPT ![h] = "run"]
    BY <1>9 DEF DeliverCallBackAnswer, Ended
  <2> QED
    BY <1>1, <1>2, <2>1 DEF BackCore
<1>10. CASE DeliverCallBack
  BY <1>1, <1>2, <1>10 DEF BackCore, DeliverCallBack, SWritten
<1>11. ASSUME NEW f \in Calls, DeliverAnswer(f)
       PROVE  BackCore'
  BY <1>1, <1>2, <1>11 DEF BackCore, DeliverAnswer
<1>12. CASE UNCHANGED <<smain, ssend, sh, sg>>
  BY <1>2, <1>12 DEF BackCore
<1> QED
  BY <1>5, <1>6, <1>7, <1>8, <1>9, <1>10, <1>11, <1>12
  DEF Next, ClientLoop, ServerLoop, ServerHandler, ClientHandler, Deliver, vars,
      svars, Break, GiveUp, Stop, Panic, FailCloses, ReaderFails, Install,
      PingBlocks, PingWritten, Registers, LockForSend, SendBroken,
      BeginReconnect, Exit, Accept, Refused, LockForAnswer,
      AnswerBroken

\* An id is counted with each call back, and with nothing else.
LEMMA IdStep ==
    ASSUME DuplexInv, [Next]_vars
    PROVE  IdCore'
<1>1. /\ sg \in [Calls -> 0..MaxGen] /\ rid \in [Calls -> 0..Cardinality(Reverses)]
      /\ nextId \in [Gens -> 1..(Cardinality(Reverses) + 1)] /\ gen \in Gens
  BY Typed
<1>2. /\ \A g \in Gens : nextId[g] = Cardinality(Asked(g)) + 1
      /\ \A f \in Calls : rid[f] # 0 => rid[f] < nextId[sg[f]]
      /\ \A f, h \in Calls :
           rid[f] # 0 /\ rid[f] = rid[h] /\ sg[f] = sg[h] => f = h
  BY DEF DuplexInv, IdCore
<1>3. /\ Reverses \subseteq Calls /\ IsFiniteSet(Reverses)
      /\ MaxGen \in Nat /\ Gens = 1..MaxGen /\ Cardinality(Reverses) \in Nat
  BY Words
<1>4. \A f \in Calls : rid[f] # 0 => sg[f] \in Gens
  BY <1>1, <1>3 DEF DuplexInv, MethodCore
<1>5. ASSUME NEW f \in Calls, CallBack(f)
      PROVE  IdCore'
  <2> DEFINE g == sg[f]
  <2>1. /\ g \in Gens /\ f \in Reverses /\ rid[f] = 0
        /\ nextId[g] \in 1..Cardinality(Reverses)
        /\ \A h \in Calls : sg[h] = g => rid[h] < nextId[g]
    BY <1>5, IdFresh
  <2>2. /\ rid' = [rid EXCEPT ![f] = nextId[g]]
        /\ nextId' = [nextId EXCEPT ![g] = @ + 1]
        /\ sg' = sg
    BY <1>5 DEF CallBack, IdTaken
  <2>3. rid'[f] = nextId[g] /\ \A h \in Calls : h # f => rid'[h] = rid[h]
    BY <1>1, <2>2
  <2>4. nextId'[g] = nextId[g] + 1 /\ \A k \in Gens : k # g => nextId'[k] = nextId[k]
    BY <1>1, <2>1, <2>2
  <2> HIDE DEF g
  <2>5. ASSUME NEW k \in Gens
        PROVE  nextId'[k] = Cardinality(Asked(k)') + 1
    <3>1. CASE k = g
      <4>1. Asked(k)' = Asked(k) \cup {f} /\ f \notin Asked(k)
        BY <1>3, <2>1, <2>2, <2>3, <3>1 DEF Asked, g
      <4>2. Asked(k) \in SUBSET Reverses
        BY DEF Asked
      <4>3. IsFiniteSet(Asked(k)) /\ Cardinality(Asked(k)) \in Nat
        BY <1>3, <4>2, FS_Subset, FS_CardinalityType
      <4>4. Cardinality(Asked(k)') = Cardinality(Asked(k)) + 1
        BY <4>1, <4>3, FS_AddElement
      <4> QED
        BY <1>2, <2>4, <3>1, <4>4
    <3>2. CASE k # g
      <4>1. Asked(k)' = Asked(k)
        BY <1>3, <2>2, <2>3, <3>2 DEF Asked, g
      <4> QED
        BY <1>2, <2>4, <3>2, <4>1
    <3> QED
      BY <3>1, <3>2
  <2>6. ASSUME NEW h \in Calls, rid'[h] # 0
        PROVE  rid'[h] < nextId'[sg'[h]]
    <3>1. CASE h = f
      BY <1>3, <2>1, <2>2, <2>3, <2>4, <3>1 DEF g
    <3>2. CASE h # f
      <4>1. rid'[h] = rid[h] /\ rid[h] < nextId[sg[h]] /\ sg[h] \in Gens
        BY <1>2, <1>4, <2>3, <2>6, <3>2
      <4>2. nextId[sg[h]] \in Nat /\ rid[h] \in Nat
        BY <1>1, <1>3, <4>1
      <4>3. nextId'[sg[h]] = nextId[sg[h]] \/ nextId'[sg[h]] = nextId[sg[h]] + 1
        BY <2>4, <4>1
      <4> QED
        BY <2>2, <4>1, <4>2, <4>3
    <3> QED
      BY <3>1, <3>2
  <2>7. ASSUME NEW h \in Calls, NEW other \in Calls,
               rid'[h] # 0, rid'[h] = rid'[other], sg'[h] = sg'[other]
        PROVE  h = other
    <3>1. \A k \in Calls : k # f /\ sg[k] = g => rid'[k] # rid'[f]
      BY <1>1, <1>3, <2>1, <2>3
    <3> QED
      BY <1>2, <2>2, <2>3, <2>7, <3>1 DEF g
  <2> QED
    BY <2>5, <2>6, <2>7 DEF IdCore
<1>6. CASE DeliverRequest
  <2>1. csend \in Calls /\ sg[csend] = 0 /\ rid[csend] = 0
    BY <1>6 DEF DeliverRequest, DuplexInv, SendCore, MethodCore
  <2>2. sg' = [sg EXCEPT ![csend] = gen] /\ UNCHANGED <<nextId, rid>>
    BY <1>6 DEF DeliverRequest
  <2>3. \A h \in Calls : rid[h] # 0 => sg'[h] = sg[h]
    BY <1>1, <2>1, <2>2
  <2>4. \A g \in Gens : Asked(g)' = Asked(g)
    BY <1>3, <2>2, <2>3 DEF Asked
  <2> QED
    BY <1>2, <2>2, <2>3, <2>4 DEF IdCore
<1>7. CASE UNCHANGED <<nextId, sg, rid>>
  <2>1. \A g \in Gens : Asked(g)' = Asked(g)
    BY <1>7 DEF Asked
  <2> QED
    BY <1>2, <1>7, <2>1 DEF IdCore
<1> QED
  BY <1>5, <1>6, <1>7
  DEF Next, ClientLoop, ServerLoop, ServerHandler, ClientHandler, Deliver, vars,
      svars, Break, GiveUp, Stop, Panic, FailCloses, ReaderFails, Install,
      PingBlocks, PingWritten, Registers, LockForSend, SendBroken,
      BeginReconnect, Exit, Accept, Refused, LockForAnswer,
      AnswerBroken, CallBackRefused, SAccept, SLockForAnswer,
      SAnswerBroken, SRegisters, SLockForSend, SSendBroken, SExit,
      DeliverCallBack, DeliverCallBackAnswer, DeliverAnswer

\* A call back reaches the client in the step that ends its write.
LEMMA ArrivalStep ==
    ASSUME DuplexInv, [Next]_vars
    PROVE  ArrivalCore'
<1>1. /\ sh \in [Calls -> {"none", "run", "offer", "accepted", "wait",
                           "write", "done"}]
      /\ rid \in [Calls -> 0..Cardinality(Reverses)]
      /\ rh \in [Calls -> {"none", "run", "write", "done"}]
      /\ smain \in [Gens -> {"select", "send", "registered", "write", "exited"}]
      /\ ssend \in [Gens -> Calls \cup {Nobody}] /\ gen \in Gens
  BY Typed
<1>2. /\ \A f \in Calls :
           rid[f] = 0 \/ sh[f] \in {"offer", "accepted"} => rh[f] = "none"
      /\ \A g \in Gens :
           smain[g] \in {"registered", "write"} => rh[ssend[g]] = "none"
  BY DEF DuplexInv, ArrivalCore
<1>3. \A g \in Gens :
        /\ smain[g] = "send" =>
             ssend[g] \in Calls /\ sg[ssend[g]] = g /\ sh[ssend[g]] = "accepted"
        /\ smain[g] \in {"registered", "write"} =>
             ssend[g] \in Calls /\ sg[ssend[g]] = g /\ sh[ssend[g]] = "wait"
  BY DEF DuplexInv, BackCore
<1>4. \A f \in Calls : sh[f] \in {"offer", "accepted", "wait"} => rid[f] # 0
  BY DEF DuplexInv, MethodCore
<1>5. ASSUME NEW f \in Calls, ClientHandler(f)
      PROVE  ArrivalCore'
  <2>1. /\ rh[f] # "none" /\ \E to \in {"write", "done"} :
                               rh' = [rh EXCEPT ![f] = to]
        /\ UNCHANGED <<sh, rid, smain, ssend>>
    BY <1>5 DEF ClientHandler, LockForAnswer, AnswerBroken, svars
  <2>2. \A h \in Calls : rh[h] = "none" => rh'[h] = "none"
    BY <1>1, <2>1
  <2> QED
    BY <1>2, <1>3, <2>1, <2>2 DEF ArrivalCore
<1>6. ASSUME NEW f \in Calls, CallBack(f)
      PROVE  ArrivalCore'
  <2>1. rid[f] = 0
    BY <1>6, IdFresh
  <2>2. /\ sh' = [sh EXCEPT ![f] = "offer"]
        /\ rid' = [rid EXCEPT ![f] = nextId[sg[f]]]
        /\ UNCHANGED <<rh, smain, ssend>>
    BY <1>6 DEF CallBack, cvars
  <2> QED
    BY <1>1, <1>2, <2>1, <2>2 DEF ArrivalCore
<1>7. ASSUME NEW f \in Calls, CallBackRefused(f) \/ SAccept(f)
                                \/ SLockForAnswer(f)
                                \/ SAnswerBroken(f)
      PROVE  ArrivalCore'
  BY <1>1, <1>2, <1>7
  DEF ArrivalCore, CallBackRefused, SAccept, SLockForAnswer,
      SAnswerBroken, Ended, cvars
<1>8. ASSUME NEW g \in Gens, ServerLoop(g)
      PROVE  ArrivalCore'
  BY <1>1, <1>2, <1>3, <1>8
  DEF ArrivalCore, ServerLoop, SRegisters, SLockForSend, SSendBroken, SExit,
      SWritten, Ended, cvars
<1>9. CASE DeliverRequest
  BY <1>1, <1>2, <1>9 DEF ArrivalCore, DeliverRequest
<1>10. CASE DeliverCallBack
  <2> DEFINE f == ssend[gen]
  <2>1. /\ smain[gen] = "write" /\ f \in Calls /\ sg[f] = gen /\ sh[f] = "wait"
        /\ rid[f] # 0
    BY <1>1, <1>3, <1>4, <1>10 DEF DeliverCallBack
  <2>2. /\ smain' = [smain EXCEPT ![gen] = "select"]
        /\ ssend' = [ssend EXCEPT ![gen] = Nobody]
        /\ \E to \in {"run", "done"} : rh' = [rh EXCEPT ![f] = to]
        /\ UNCHANGED <<sh, rid>>
    BY <1>10 DEF DeliverCallBack, SWritten
  <2>3. \A h \in Calls : h # f => rh'[h] = rh[h]
    BY <1>1, <2>2
  <2>4. \A g \in Gens : smain'[g] \in {"registered", "write"} =>
          /\ smain[g] = smain'[g] /\ ssend'[g] = ssend[g]
          /\ ssend[g] # f /\ ssend[g] \in Calls
    BY <1>1, <1>3, <2>1, <2>2
  <2> QED
    BY <1>2, <2>1, <2>2, <2>3, <2>4 DEF ArrivalCore
<1>11. ASSUME NEW f \in Calls, DeliverCallBackAnswer(f)
       PROVE  ArrivalCore'
  <2>1. /\ rh[f] = "write" /\ rh' = [rh EXCEPT ![f] = "done"]
        /\ UNCHANGED <<rid, smain, ssend>>
        /\ \/ UNCHANGED sh
           \/ \E h \in Calls : sh' = [sh EXCEPT ![h] = "run"]
    BY <1>11 DEF DeliverCallBackAnswer, Ended
  <2>2. \A h \in Calls : rh[h] = "none" => rh'[h] = "none"
    BY <1>1, <2>1
  <2>3. \A h \in Calls : sh'[h] \in {"offer", "accepted"} => sh'[h] = sh[h]
    BY <1>1, <2>1
  <2> QED
    BY <1>2, <1>3, <2>1, <2>2, <2>3 DEF ArrivalCore
<1>12. ASSUME NEW f \in Calls, DeliverAnswer(f)
       PROVE  ArrivalCore'
  BY <1>1, <1>2, <1>12 DEF ArrivalCore, DeliverAnswer
<1>13. CASE UNCHANGED <<rh, rid, sh, smain, ssend>>
  BY <1>2, <1>13 DEF ArrivalCore
<1> QED
  BY <1>5, <1>6, <1>7, <1>8, <1>9, <1>10, <1>11, <1>12, <1>13
  DEF Next, ClientLoop, ServerHandler, Deliver, vars, cvars, svars, Break,
      GiveUp, Stop, Panic, FailCloses, ReaderFails, Install, PingBlocks,
      PingWritten, Registers, LockForSend, SendBroken, BeginReconnect, Exit,
      Accept, Refused

-----------------------------------------------------------------------------
(* Whose answer a call back gets.                                          *)

\* An answer is taken once, and by a call back with its id.
LEMMA StaleStep ==
    ASSUME DuplexInv, [Next]_vars
    PROVE  StaleOrOwn'
<1>1. /\ sg \in [Calls -> 0..MaxGen] /\ gen \in Gens
      /\ rid \in [Calls -> 0..Cardinality(Reverses)]
      /\ rh \in [Calls -> {"none", "run", "write", "done"}]
      /\ rres \in [Calls -> Calls \cup {"error", Nobody}]
  BY Typed
<1>2. \A f \in Reverses : rres[f] \in Calls =>
        /\ rh[rres[f]] = "done"
        /\ rres[f] # f => sg[rres[f]] < sg[f]
        /\ \A other \in Reverses : rres[other] = rres[f] => other = f
  BY DEF DuplexInv, StaleOrOwn
<1>3. /\ Nobody \notin Calls /\ "error" \notin Calls /\ Reverses \subseteq Calls
      /\ MaxGen \in Nat /\ Gens = 1..MaxGen
  BY Words
<1>4. \A f \in Calls :
        /\ sg[f] <= gen
        /\ sg[f] = 0 => rid[f] = 0 /\ rh[f] = "none" /\ rres[f] = Nobody
        /\ sh[f] = "wait" => rid[f] # 0
  BY DEF DuplexInv, MethodCore, ArrivalCore
\* An answer that was taken before is kept as it was.
<1>5. ASSUME \A f \in Reverses : rres'[f] \in {rres[f], "error"},
             \A f \in Calls : rh[f] = "done" => rh'[f] = "done",
             UNCHANGED sg
      PROVE  StaleOrOwn'
  <2> SUFFICES ASSUME NEW f \in Reverses, rres'[f] \in Calls
               PROVE  /\ rh'[rres'[f]] = "done"
                      /\ rres'[f] # f => sg'[rres'[f]] < sg'[f]
                      /\ \A other \in Reverses :
                           rres'[other] = rres'[f] => other = f
    BY DEF StaleOrOwn
  <2>1. rres'[f] = rres[f] /\ rres[f] \in Calls
    BY <1>3, <1>5
  <2>2. \A other \in Reverses : rres'[other] = rres'[f] => rres[other] = rres[f]
    BY <1>3, <1>5, <2>1
  <2> QED
    BY <1>2, <1>5, <2>1, <2>2
<1>6. ASSUME NEW f \in Calls, ClientHandler(f)
      PROVE  StaleOrOwn'
  <2>1. /\ rh[f] # "done" /\ \E to \in {"write", "done"} :
                               rh' = [rh EXCEPT ![f] = to]
        /\ UNCHANGED <<sg, rres>>
    BY <1>6 DEF ClientHandler, LockForAnswer, AnswerBroken, svars
  <2> QED
    BY <1>1, <1>5, <2>1
<1>7. CASE DeliverCallBack
  <2>1. smain[gen] = "write" /\ rh[ssend[gen]] = "none" /\ ssend[gen] \in Calls
    BY <1>1, <1>7 DEF DeliverCallBack, DuplexInv, ArrivalCore, BackCore
  <2>2. /\ \E to \in {"run", "done"} : rh' = [rh EXCEPT ![ssend[gen]] = to]
        /\ UNCHANGED <<sg, rres>>
    BY <1>7 DEF DeliverCallBack
  <2> QED
    BY <1>1, <1>5, <2>1, <2>2
<1>8. ASSUME NEW f \in Calls, ServerHandler(f)
      PROVE  StaleOrOwn'
  BY <1>1, <1>3, <1>5, <1>8
  DEF ServerHandler, CallBack, CallBackRefused, SAccept,
      SLockForAnswer, SAnswerBroken, Ended, cvars
<1>9. ASSUME NEW g \in Gens, ServerLoop(g)
      PROVE  StaleOrOwn'
  BY <1>1, <1>3, <1>5, <1>9
  DEF ServerLoop, SRegisters, SLockForSend, SSendBroken, SExit, Ended, cvars
<1>10. CASE DeliverRequest
  <2>1. csend \in Calls /\ sg[csend] = 0
    BY <1>10 DEF DeliverRequest, DuplexInv, SendCore
  <2>2. sg' = [sg EXCEPT ![csend] = gen] /\ UNCHANGED <<rh, rres>>
    BY <1>10 DEF DeliverRequest
  <2>3. \A f \in Reverses : rres[f] \in Calls =>
          f # csend /\ rres[f] # csend
    BY <1>2, <1>3, <1>4, <2>1
  <2>4. \A f \in Reverses : rres[f] \in Calls =>
          sg'[f] = sg[f] /\ sg'[rres[f]] = sg[rres[f]]
    BY <1>1, <1>3, <2>1, <2>2, <2>3
  <2> QED
    BY <1>2, <2>2, <2>4 DEF StaleOrOwn
<1>11. ASSUME NEW f \in Calls, DeliverCallBackAnswer(f)
       PROVE  StaleOrOwn'
  <2>1. /\ rh[f] = "write" /\ rh' = [rh EXCEPT ![f] = "done"]
        /\ UNCHANGED sg
        /\ \/ UNCHANGED rres
           \/ \E h \in Calls : /\ sg[h] = gen /\ sh[h] = "wait" /\ rid[h] = rid[f]
                               /\ rres' = [rres EXCEPT ![h] = f]
    BY <1>11 DEF DeliverCallBackAnswer, Ended
  <2>2. CASE UNCHANGED rres
    BY <1>1, <1>5, <2>1, <2>2
  <2>3. ASSUME NEW h \in Calls, sg[h] = gen, sh[h] = "wait", rid[h] = rid[f],
               rres' = [rres EXCEPT ![h] = f]
        PROVE  StaleOrOwn'
    <3>1. \A other \in Reverses : rres[other] # f
      BY <1>2, <2>1
    <3>2. f # h => sg[f] < sg[h]
      <4>1. SUFFICES ASSUME f # h PROVE sg[f] < sg[h]
        OBVIOUS
      <4>2. sg[f] # sg[h]
        BY <1>4, <2>3, <4>1 DEF DuplexInv, IdCore
      <4> QED
        BY <1>1, <1>3, <1>4, <2>3, <4>2
    <3>3. rres'[h] = f /\ \A other \in Calls : other # h => rres'[other] = rres[other]
      BY <1>1, <2>3
    <3>4. \A other \in Calls : rh[other] = "done" => rh'[other] = "done"
      BY <1>1, <2>1
    <3>5. rh'[f] = "done"
      BY <1>1, <2>1
    <3> QED
      BY <1>2, <1>3, <2>1, <3>1, <3>2, <3>3, <3>4, <3>5 DEF StaleOrOwn
  <2> QED
    BY <2>1, <2>2, <2>3
<1>12. CASE UNCHANGED <<rh, sg, rres>>
  BY <1>2, <1>12 DEF StaleOrOwn
<1> QED
  BY <1>6, <1>7, <1>8, <1>9, <1>10, <1>11, <1>12
  DEF Next, ClientLoop, Deliver, DeliverAnswer, vars, cvars, svars, Break,
      GiveUp, Stop, Panic, FailCloses, ReaderFails, Install, PingBlocks,
      PingWritten, Registers, LockForSend, SendBroken, BeginReconnect, Exit,
      Accept, Refused

-----------------------------------------------------------------------------
(* The theorems.                                                           *)

LEMMA DuplexStep == DuplexInv /\ [Next]_vars => DuplexInv'
<1> SUFFICES ASSUME DuplexInv, [Next]_vars PROVE DuplexInv'
  OBVIOUS
<1>1. ClientTypeOK' /\ ServerTypeOK' /\ OneWriter'
  BY ClientTypeStep, ServerTypeStep, WriterStep
<1>2. SendCore' /\ MethodCore' /\ BackCore' /\ IdCore' /\ ArrivalCore' /\ StaleOrOwn'
  BY SendStep, MethodStep, BackStep, IdStep, ArrivalStep, StaleStep
<1> QED
  BY <1>1, <1>2 DEF DuplexInv, TypeOK

LEMMA DuplexHolds == Spec => []DuplexInv
<1> QED
  BY DuplexInit, DuplexStep, PTL DEF Spec

\* On each side the loop writes a request, or a handler its answer, exactly
\* while it has writeLk: sendRequest and nextWriter never have two writers on
\* a connection, and a writer that failed or was cut off has given it back.
THEOREM OneWriterEach == Spec => []TypeOK
<1>1. DuplexInv => TypeOK
  BY DEF DuplexInv
<1> QED
  BY <1>1, DuplexHolds, PTL

\* handleResponse finds the call back by its id alone: the answer is one that
\* the client has given and nobody else got, and is another call's only when
\* that call was made on an earlier connection.
THEOREM CallBacksNotMixedUp == Spec => []StaleOrOwn
<1>1. DuplexInv => StaleOrOwn
  BY DEF DuplexInv
<1> QED
  BY <1>1, DuplexHolds, PTL
=============================================================================
