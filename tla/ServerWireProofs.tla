-------------------------- MODULE ServerWireProofs --------------------------
(* Theorems about ServerConn, for every value of its constants: the slots  *)
(* and registrations of the channels that methods return, and what the     *)
(* client sees of a call.                                                  *)
EXTENDS ServerConnProofs

-----------------------------------------------------------------------------
(* Slots and registrations.                                                *)

Unregistered == {"unseen", "start", "check", "load", "cas", "run", "register"}
CleanedUp == opc \in {"fail", "failTransport", "dead"}

\* Before the registration a call is not finished, and one that returns a
\* channel has its slot when the method runs.
BeforeRegistration ==
    \A r \in Reqs : hpc[r] \in Unregistered =>
        /\ r \notin Registered /\ r \notin finished /\ accepted[r] = "none"
        /\ r \in ChanReqs /\ hpc[r] \in {"run", "register"} => r \in holders
        /\ hpc[r] = "register" => r \in ChanReqs

\* An accepted call waits for its goroutine to notice, or is left to
\* handleOutChans, until that has ended.
AfterRegistration ==
    /\ \A r \in Reqs : accepted[r] = "yes" /\ ~outDone => hpc[r] \in {"await", "end"}
    /\ \A r \in Registered : accepted[r] = "yes"
    /\ outDone => opc = "dead"

\* finishOnce releases a slot once, and whoever is left with one is
\* registered with a handleOutChans that has not cleaned up.
SlotOwners ==
    /\ finished \cap holders = {}
    /\ \A r \in Reqs : hpc[r] = "panicked" => r \in finished
    /\ \A r \in holders : Ended(r) => accepted[r] = "yes"
    /\ \A r \in holders : accepted[r] = "yes" => r \in Registered /\ ~CleanedUp

\* No call is registered twice.
OneRegistration ==
    \A i \in DOMAIN regs : \A j \in DOMAIN regs : regs[i] = regs[j] => i = j

RegCore == RegistrationsAligned /\ BeforeRegistration /\ AfterRegistration
           /\ SlotOwners /\ OneRegistration

-----------------------------------------------------------------------------
(* The wire.                                                               *)

\* The channel id, and values after it.
Streaming(q) ==
    /\ Len(q) >= 1 /\ q[1].t = "chan"
    /\ \A i \in DOMAIN q : i > 1 => q[i].t = "val"

Writable == tOpen /\ netUp

\* fail() closes the transport before handleOutChans reports its end.
ClosedWhenDone ==
    /\ opc \in {"failTransport", "dead"} => failed
    /\ failed /\ ~failing => ~tOpen
    /\ outDone => ~tOpen

\* What is about to be written is about a channel under its own id, which
\* is registered unless its close is the thing.
OwnChannel ==
    /\ opc \in {"reply", "value", "close"} => cur.chid = cur.src
    /\ opc \in {"reply", "value"} => cur.chid \in Registered
    /\ opc = "close" => cur.chid \notin Registered /\ accepted[cur.chid] = "yes"

\* What the client has seen of a call, at each stage of it.
Seen ==
    /\ \A r \in Reqs : hpc[r] \in Unregistered => log[r] = <<>>
    /\ \A r \in Reqs : hpc[r] \in {"error", "respond"} /\ Writable => log[r] = <<>>
    /\ opc = "reply" => log[cur.chid] = <<>>
    /\ \A r \in Registered : Writable /\ ~(opc = "reply" /\ cur.chid = r) =>
         Streaming(log[r])
    /\ opc = "close" /\ Writable => Streaming(log[cur.chid])

WireCore == WireGrammar /\ ClosedWhenDone /\ OwnChannel /\ Seen

WireInv == ConnInv /\ RegCore /\ WireCore

-----------------------------------------------------------------------------
(* Lemmas about the operators.                                             *)

\* Removal by swap keeps a sequence without repetitions one, and removes the
\* element at i and no other (registrations of handleOutChans).
LEMMA SwapRemoveElements ==
    ASSUME NEW S, NEW q \in Seq(S), NEW i \in DOMAIN q,
           \A j, k \in DOMAIN q : q[j] = q[k] => j = k
    PROVE  LET w == SwapRemove(q, i)
           IN  /\ \A j, k \in DOMAIN w : w[j] = w[k] => j = k
               /\ {w[j] : j \in DOMAIN w} = {q[j] : j \in DOMAIN q} \ {q[i]}
<1> DEFINE n == Len(q)
           w == SwapRemove(q, i)
<1>1. n \in Nat /\ DOMAIN q = 1..n /\ i \in 1..n
  OBVIOUS
<1>2. w = [j \in 1..n - 1 |-> IF j = i THEN q[n] ELSE q[j]]
  BY DEF SwapRemove
<1>3. DOMAIN w = 1..n - 1
  BY <1>2
<1>4. \A j \in 1..n - 1 : w[j] = IF j = i THEN q[n] ELSE q[j]
  BY <1>2
<1> HIDE DEF w, n
<1>5. \A j \in 1..n - 1 : j \in 1..n /\ j # n
  BY <1>1
<1>6. n \in 1..n
  BY <1>1
<1>7. \A j, k \in DOMAIN w : w[j] = w[k] => j = k
  BY <1>1, <1>3, <1>4, <1>5, <1>6
<1>8. \A j \in DOMAIN w : w[j] \in {q[k] : k \in DOMAIN q} \ {q[i]}
  BY <1>1, <1>3, <1>4, <1>5, <1>6
<1>9. ASSUME NEW k \in 1..n, q[k] # q[i] PROVE q[k] \in {w[j] : j \in DOMAIN w}
  <2>1. CASE k = n
    <3>1. i \in 1..n - 1
      BY <1>1, <1>9, <2>1
    <3> QED
      BY <1>3, <1>4, <2>1, <3>1
  <2>2. CASE k # n
    <3>1. k \in 1..n - 1 /\ k # i
      BY <1>1, <1>9, <2>2
    <3> QED
      BY <1>3, <1>4, <3>1
  <2> QED
    BY <2>1, <2>2
<1> QED
  BY <1>1, <1>7, <1>8, <1>9 DEF w

\* A call that has a slot and is not registered finds room: handleOutChans
\* has fewer registrations than maxSubscriptions.
LEMMA RoomForRegistration ==
    ASSUME ConnInv, OneRegistration, Registered \subseteq holders,
           NEW r \in holders, r \notin Registered
    PROVE  Len(regs) < Limit
<1>1. /\ regs \in Seq(Reqs) /\ Len(regs) \in Nat /\ DOMAIN regs = 1..Len(regs)
      /\ Limit \in Nat /\ holders \subseteq Reqs /\ IsFiniteSet(holders)
      /\ Cardinality(holders) <= Limit
  BY FS_Subset, ServerConnAssumption
  DEF ConnInv, TypeOK, SlotsCore, SlotsExact, ServerConnAssumption
<1>2. Registered \in SUBSET (holders \ {r})
  OBVIOUS
<1>3. /\ IsFiniteSet(holders \ {r}) /\ Cardinality(holders) \in Nat
      /\ Cardinality(holders \ {r}) = Cardinality(holders) - 1
  BY <1>1, FS_RemoveElement, FS_CardinalityType
<1>4. IsFiniteSet(Registered) /\ Cardinality(Registered) <= Cardinality(holders) - 1
  BY <1>2, <1>3, FS_Subset
<1>5. regs \in Injection(1..Len(regs), Registered)
  <2>1. regs \in [1..Len(regs) -> Registered]
    BY <1>1 DEF Registered
  <2> QED
    BY <1>1, <2>1 DEF OneRegistration, Injection, IsInjective
<1>6. Cardinality(1..Len(regs)) <= Cardinality(Registered)
  BY <1>4, <1>5, FS_Injection
<1>7. Cardinality(1..Len(regs)) = Len(regs)
  <2>1. \A n \in Nat : Cardinality(1..n) = IF 1 > n THEN 0 ELSE n - 1 + 1
    BY FS_Interval
  <2>2. \A n \in Nat : (IF 1 > n THEN 0 ELSE n - 1 + 1) = n
    OBVIOUS
  <2> QED
    BY ONLY <1>1, <2>1, <2>2
<1>8. Cardinality(Registered) \in Nat
  BY <1>4, FS_CardinalityType
<1> QED
  BY <1>1, <1>3, <1>4, <1>6, <1>7, <1>8

-----------------------------------------------------------------------------
(* Slots and registrations: the invariant is inductive.                    *)

\* Nothing is registered, held or accepted when handleWsConn starts.
LEMMA RegInit == Init => RegCore
<1> SUFFICES ASSUME Init PROVE RegCore
  OBVIOUS
<1>1. Registered = {} /\ DOMAIN regs = {}
  BY DEF Init, Registered
<1>2. RegistrationsAligned /\ OneRegistration
  BY <1>1 DEF Init, RegistrationsAligned, OneRegistration
<1>3. BeforeRegistration /\ AfterRegistration
  BY <1>1 DEF Init, BeforeRegistration, AfterRegistration
<1>4. SlotOwners
  BY DEF Init, SlotOwners
<1> QED
  BY <1>2, <1>3, <1>4 DEF RegCore

\* A step that leaves slots and registrations alone keeps the invariant when
\* handleOutChans, if it moves, does not leave its cleanup.
LEMMA RegFrame ==
    ASSUME ConnInv, RegCore,
           UNCHANGED <<hpc, finished, holders, accepted, regs, cases, outDone>>,
           CleanedUp => CleanedUp', CleanedUp' => CleanedUp,
           opc = "dead" => opc' = "dead"
    PROVE  RegCore'
<1>1. Registered' = Registered
  BY DEF Registered
<1>2. RegistrationsAligned' /\ OneRegistration'
  BY <1>1 DEF RegCore, RegistrationsAligned, OneRegistration, CleanedUp
<1>3. BeforeRegistration' /\ AfterRegistration'
  BY <1>1 DEF RegCore, BeforeRegistration, AfterRegistration
<1>4. SlotOwners'
  BY <1>1 DEF RegCore, SlotOwners, Ended
<1> QED
  BY <1>2, <1>3, <1>4 DEF RegCore

\* The goroutine of a call moves, and touches neither slots nor
\* registrations: it keeps the invariant when an accepted call only waits or
\* ends, and a call that ends without one has no slot.
LEMMA RegMove ==
    ASSUME ConnInv, RegCore, NEW r \in Reqs, NEW from, NEW to,
           Goto(r, from, to),
           UNCHANGED <<finished, holders, accepted, regs, cases, outDone>>,
           CleanedUp => CleanedUp', CleanedUp' => CleanedUp,
           opc = "dead" => opc' = "dead",
           to \in Unregistered => from \in Unregistered,
           to \in {"run", "register"} => from \in {"run", "register"} \/ r \notin ChanReqs,
           to = "register" => r \in ChanReqs,
           to \notin {"await", "end"} => accepted[r] # "yes" \/ outDone,
           to \in {"end", "dropped"} => accepted[r] = "yes" \/ r \notin holders,
           to # "panicked"
    PROVE  RegCore'
<1>1. Registered' = Registered
  BY DEF Registered
<1>2. RegistrationsAligned' /\ OneRegistration'
  BY <1>1 DEF RegCore, RegistrationsAligned, OneRegistration, CleanedUp
<1>3. hpc[r] = from /\ \A q \in Reqs : hpc'[q] = IF q = r THEN to ELSE hpc[q]
  BY DEF Goto, ConnInv, TypeOK
<1>4. BeforeRegistration'
  BY <1>1, <1>3 DEF RegCore, BeforeRegistration, Unregistered
<1>5. AfterRegistration'
  BY <1>1, <1>3 DEF RegCore, AfterRegistration
<1>6. SlotOwners'
  BY <1>1, <1>3 DEF RegCore, SlotOwners, Ended, ConnInv, TypeOK
<1> QED
  BY <1>2, <1>4, <1>5, <1>6 DEF RegCore

\* finish() of calls on a slot whose goroutine passed the registration: those
\* that are not finished keep their slots and registrations.
LEMMA FinishSlots ==
    ASSUME ConnInv, RegCore, NEW F \in SUBSET Reqs, Finish(F)
    PROVE  /\ holders' = holders \ F
           /\ finished' = finished \cup F
           /\ finished' \cap holders' = {}
<1>1. finished \cap holders = {}
  BY DEF RegCore, SlotOwners
<1>2. /\ finished' = finished \cup (F \ finished)
      /\ holders' = holders \ (F \ finished)
  BY DEF Finish
<1> QED
  BY <1>1, <1>2

\* The goroutine of a call ends with finish(): it has no registration, so
\* that its slot has no other owner (done(false) and its panicking twin).
LEMMA RegFinish ==
    ASSUME ConnInv, RegCore, NEW r \in Reqs, FinishCall(r) \/ HandlerPanics(r)
    PROVE  RegCore'
<1>1. /\ Finish({r}) /\ UNCHANGED <<accepted, opc, regs, cases, outDone>>
      /\ \/ Goto(r, "finish", "end")
         \/ Goto(r, "run", "panicked")
  BY DEF FinishCall, HandlerPanics, outVars
<1>2. /\ holders' = holders \ {r} /\ finished' = finished \cup {r}
      /\ finished' \cap holders' = {}
  BY <1>1, FinishSlots
<1>3. Registered' = Registered
  BY <1>1 DEF Registered
<1>4. /\ \A q \in Reqs : q # r => hpc'[q] = hpc[q]
      /\ \/ hpc[r] = "finish" /\ hpc'[r] = "end"
         \/ hpc[r] = "run" /\ hpc'[r] = "panicked"
  BY <1>1 DEF Goto, ConnInv, TypeOK
<1>5. accepted[r] = "yes" => outDone
  BY <1>4 DEF RegCore, AfterRegistration
<1>6. CleanedUp \/ r \notin Registered
  BY <1>5 DEF RegCore, AfterRegistration, CleanedUp
<1>7. RegistrationsAligned' /\ OneRegistration'
  BY <1>1, <1>2, <1>3, <1>6
  DEF RegCore, RegistrationsAligned, OneRegistration, CleanedUp
<1>8. BeforeRegistration'
  BY <1>1, <1>2, <1>3, <1>4 DEF RegCore, BeforeRegistration, Unregistered
<1>9. AfterRegistration'
  BY <1>1, <1>3, <1>4, <1>5 DEF RegCore, AfterRegistration
<1>10. SlotOwners'
  <2>1. holders \subseteq Reqs
    BY DEF ConnInv, TypeOK
  <2> QED
    BY <1>1, <1>2, <1>3, <1>4, <2>1 DEF RegCore, SlotOwners, Ended, CleanedUp
<1> QED
  BY <1>7, <1>8, <1>9, <1>10 DEF RegCore

\* A registration arrives.  Its call has a slot, so there is room, and it is
\* accepted: handleOutChans never refuses anybody.
LEMMA RegRegister ==
    ASSUME ConnInv, RegCore, NEW r \in Reqs, OutRegister(r)
    PROVE  /\ RegCore'
           /\ accepted' = [accepted EXCEPT ![r] = "yes"]
           /\ regs' = Append(regs, r) /\ cases' = Append(cases, r)
           /\ opc' = "reply" /\ cur' = [chid |-> r, src |-> r]
           /\ Registered' = Registered \cup {r}
<1>1. /\ opc = "select" /\ Goto(r, "register", "await")
      /\ UNCHANGED <<finished, holders, outDone>>
  BY DEF OutRegister, slotVars
<1>2. /\ hpc[r] = "register" /\ hpc'[r] = "await"
      /\ \A q \in Reqs : q # r => hpc'[q] = hpc[q]
      /\ holders \subseteq Reqs
  BY <1>1 DEF Goto, ConnInv, TypeOK
<1>3. r \in holders /\ r \notin Registered /\ r \notin finished
  BY <1>2 DEF RegCore, BeforeRegistration, Unregistered
<1>4. Registered \subseteq holders
  BY <1>1 DEF RegCore, RegistrationsAligned
<1>5. Len(regs) < Limit
  BY <1>3, <1>4, RoomForRegistration DEF RegCore
<1>6. ~(Len(regs) >= Limit)
  <2>1. Len(regs) \in Nat /\ Limit \in Nat
    BY ServerConnAssumption DEF ServerConnAssumption, ConnInv, TypeOK
  <2> QED
    BY <1>5, <2>1
<1>7. /\ accepted' = [accepted EXCEPT ![r] = "yes"]
      /\ regs' = Append(regs, r) /\ cases' = Append(cases, r)
      /\ opc' = "reply" /\ cur' = [chid |-> r, src |-> r]
  BY <1>6 DEF OutRegister
<1>8. /\ Len(regs) \in Nat /\ DOMAIN regs = 1..Len(regs)
      /\ DOMAIN regs' = 1..Len(regs) + 1
      /\ \A i \in 1..Len(regs) + 1 :
           regs'[i] = IF i = Len(regs) + 1 THEN r ELSE regs[i]
  <2>1. regs \in Seq(Reqs)
    BY DEF ConnInv, TypeOK
  <2> QED
    BY <1>7, <2>1
<1>9. \A i \in 1..Len(regs) : i \in 1..Len(regs) + 1 /\ i # Len(regs) + 1
  BY <1>8
<1>10. \A i \in 1..Len(regs) + 1 : i # Len(regs) + 1 => i \in 1..Len(regs)
  BY <1>8
<1>11. Len(regs) + 1 \in 1..Len(regs) + 1
  BY <1>8
<1>12. Registered' = Registered \cup {r}
  BY <1>8, <1>9, <1>10, <1>11, Zenon DEF Registered
<1>13. \A q \in Reqs : accepted'[q] = IF q = r THEN "yes" ELSE accepted[q]
  BY <1>7 DEF ConnInv, TypeOK
<1>14. \A i \in 1..Len(regs) : regs[i] # r
  BY <1>3, <1>8 DEF Registered
<1>15. OneRegistration'
  <2>1. \A i, j \in 1..Len(regs) : regs[i] = regs[j] => i = j
    BY <1>8 DEF RegCore, OneRegistration
  <2>2. \A i, j \in 1..Len(regs) + 1 : regs'[i] = regs'[j] => i = j
    BY ONLY <1>8, <1>10, <1>14, <2>1
  <2> QED
    BY <1>8, <2>2 DEF OneRegistration
<1>16. RegistrationsAligned'
  BY <1>1, <1>3, <1>4, <1>7, <1>12, <1>13 DEF RegCore, RegistrationsAligned
<1>17. BeforeRegistration'
  BY <1>1, <1>2, <1>12, <1>13 DEF RegCore, BeforeRegistration, Unregistered
<1>18. AfterRegistration'
  BY <1>1, <1>2, <1>4, <1>12, <1>13 DEF RegCore, AfterRegistration
<1>19. SlotOwners'
  BY <1>1, <1>2, <1>7, <1>12, <1>13 DEF RegCore, SlotOwners, Ended, CleanedUp
<1> QED
  BY <1>7, <1>12, <1>15, <1>16, <1>17, <1>18, <1>19 DEF RegCore

\* A channel was closed: registration and slot of its call go together, and
\* the other registrations keep theirs.
LEMMA RegClosed ==
    ASSUME ConnInv, RegCore, NEW i \in Nat, OutClosed(i)
    PROVE  /\ RegCore'
           /\ regs[i] \in Registered /\ cases[i] = regs[i]
           /\ Registered' = Registered \ {regs[i]}
<1>1. /\ opc = "select" /\ i \in DOMAIN regs /\ cases = regs
      /\ cases' = SwapRemove(regs, i) /\ regs' = SwapRemove(regs, i)
      /\ Finish({regs[i]}) /\ opc' = "close"
      /\ UNCHANGED <<hpc, accepted, outDone>>
  BY DEF OutClosed, RegsWithout, ReportClosed, RegCore, RegistrationsAligned
<1> DEFINE r == regs[i]
<1>2. regs \in Seq(Reqs) /\ r \in Reqs /\ r \in Registered
  <2>1. regs \in Seq(Reqs)
    BY DEF ConnInv, TypeOK
  <2> QED
    BY <1>1, <2>1 DEF Registered
<1>3. \A j, k \in DOMAIN regs : regs[j] = regs[k] => j = k
  BY DEF RegCore, OneRegistration
<1>4. /\ \A j, k \in DOMAIN regs' : regs'[j] = regs'[k] => j = k
      /\ Registered' = Registered \ {r}
  <2>1. LET w == SwapRemove(regs, i)
        IN  /\ \A j, k \in DOMAIN w : w[j] = w[k] => j = k
            /\ {w[j] : j \in DOMAIN w} = {regs[j] : j \in DOMAIN regs} \ {regs[i]}
    BY <1>1, <1>2, <1>3, SwapRemoveElements
  <2>2. Registered' = {regs'[j] : j \in DOMAIN regs'}
    BY DEF Registered
  <2> QED
    BY <1>1, <2>1, <2>2 DEF Registered
<1> HIDE DEF r
<1>5. /\ holders' = holders \ {r} /\ finished' = finished \cup {r}
      /\ finished' \cap holders' = {}
  BY <1>1, <1>2, FinishSlots DEF r
<1>6. accepted[r] = "yes" /\ holders \subseteq Reqs
  BY <1>2 DEF RegCore, AfterRegistration, ConnInv, TypeOK
<1>7. RegistrationsAligned'
  BY <1>1, <1>4, <1>5 DEF RegCore, RegistrationsAligned
<1>8. OneRegistration'
  BY <1>4 DEF OneRegistration
<1>9. BeforeRegistration'
  <2>1. hpc[r] \notin Unregistered
    BY <1>2 DEF RegCore, BeforeRegistration
  <2> QED
    BY <1>1, <1>4, <1>5, <2>1 DEF RegCore, BeforeRegistration
<1>10. AfterRegistration'
  BY <1>1, <1>4 DEF RegCore, AfterRegistration
<1>11. SlotOwners'
  BY <1>1, <1>4, <1>5, <1>6 DEF RegCore, SlotOwners, Ended, CleanedUp
<1> QED
  BY <1>1, <1>2, <1>4, <1>7, <1>8, <1>9, <1>10, <1>11 DEF RegCore, r

\* handleOutChans cleans up: every call that is registered gives its slot
\* back.
LEMMA RegCleanup ==
    ASSUME ConnInv, RegCore, OutCleanup
    PROVE  RegCore'
<1>1. /\ opc = "cleanup" /\ opc' = "fail" /\ Finish(Registered)
      /\ UNCHANGED <<hpc, accepted, regs, cases, outDone>>
  BY DEF OutCleanup, LeftRegistered
<1>2. Registered \in SUBSET Reqs
  BY RegisteredReceived
<1>3. /\ holders' = holders \ Registered /\ finished' = finished \cup Registered
      /\ finished' \cap holders' = {}
  BY <1>1, <1>2, FinishSlots
<1>4. Registered' = Registered
  BY <1>1 DEF Registered
<1>5. RegistrationsAligned' /\ OneRegistration'
  BY <1>1, <1>4 DEF RegCore, RegistrationsAligned, OneRegistration
<1>6. BeforeRegistration'
  BY <1>1, <1>3, <1>4 DEF RegCore, BeforeRegistration
<1>7. AfterRegistration'
  BY <1>1, <1>4 DEF RegCore, AfterRegistration
<1>8. SlotOwners'
  BY <1>1, <1>3, <1>4 DEF RegCore, SlotOwners, Ended
<1> QED
  BY <1>5, <1>6, <1>7, <1>8 DEF RegCore

\* Every step keeps slots and registrations in step.
LEMMA RegStep == ConnInv /\ RegCore /\ [Next]_vars => RegCore'
<1> SUFFICES ASSUME ConnInv, RegCore, [Next]_vars PROVE RegCore'
  OBVIOUS
<1>1. ASSUME NEW r \in Reqs, HandleCall(r) PROVE RegCore'
  <2>1. /\ \/ Goto(r, "unseen", "dropped")
           \/ Goto(r, "unseen", "start")
        /\ UNCHANGED <<finished, holders, accepted, opc, regs, cases, outDone>>
    BY <1>1 DEF HandleCall, Goto, slotVars, outVars
  <2>2. hpc[r] = "unseen"
    BY <2>1 DEF Goto
  <2>3. r \notin holders /\ accepted[r] # "yes"
    BY <2>2 DEF ConnInv, SlotsCore, RegCore, BeforeRegistration, Unregistered
  <2> QED
    BY <2>1, <2>3, RegMove DEF CleanedUp, Unregistered
<1>2. ASSUME NEW r \in Reqs,
             StartHandler(r) \/ ReserveCheck(r) \/ ReserveLoad(r)
      PROVE  RegCore'
  <2>1. /\ \E from \in {"start", "check", "load"} :
             \E to \in {"error", "check", "run", "load", "cas"} :
               Goto(r, from, to) /\ (to = "run" => r \notin ChanReqs)
        /\ UNCHANGED <<finished, holders, accepted, opc, regs, cases, outDone>>
    BY <1>2 DEF StartHandler, ReserveCheck, ReserveLoad, slotVars, outVars
  <2>2. hpc[r] \in Unregistered
    BY <2>1 DEF Goto, Unregistered
  <2>3. accepted[r] # "yes"
    BY <2>2 DEF RegCore, BeforeRegistration
  <2> QED
    BY <2>1, <2>3, RegMove DEF CleanedUp, Unregistered
<1>3. ASSUME NEW r \in Reqs, ReserveCas(r) PROVE RegCore'
  <2>1. UNCHANGED <<finished, accepted, opc, regs, cases, outDone>>
    BY <1>3 DEF ReserveCas, outVars
  <2>2. hpc[r] = "cas"
    BY <1>3 DEF ReserveCas, Goto
  <2>3. accepted[r] = "none" /\ r \notin finished
    BY <2>2 DEF RegCore, BeforeRegistration, Unregistered
  <2>4. CASE Goto(r, "cas", "load") /\ UNCHANGED slotVars
    BY <2>1, <2>3, <2>4, RegMove DEF CleanedUp, Unregistered, slotVars
  <2>5. CASE Goto(r, "cas", "run") /\ holders' = holders \cup {r}
    <3>1. Registered' = Registered
      BY <2>1 DEF Registered
    <3>2. /\ \A q \in Reqs : hpc'[q] = IF q = r THEN "run" ELSE hpc[q]
          /\ holders \subseteq Reqs
      BY <2>5 DEF Goto, ConnInv, TypeOK
    <3>3. RegistrationsAligned' /\ OneRegistration'
      BY <2>1, <2>5, <3>1 DEF RegCore, RegistrationsAligned, OneRegistration
    <3>4. BeforeRegistration'
      BY <2>1, <2>2, <2>5, <3>1, <3>2 DEF RegCore, BeforeRegistration, Unregistered
    <3>5. AfterRegistration'
      BY <2>1, <2>3, <3>1, <3>2 DEF RegCore, AfterRegistration
    <3>6. SlotOwners'
      BY <2>1, <2>3, <2>5, <3>1, <3>2 DEF RegCore, SlotOwners, Ended, CleanedUp
    <3> QED
      BY <3>3, <3>4, <3>5, <3>6 DEF RegCore
  <2> QED
    BY <1>3, <2>4, <2>5 DEF ReserveCas
<1>4. ASSUME NEW r \in Reqs, MethodReturns(r) \/ MethodReturnsChan(r)
      PROVE  RegCore'
  <2>1. /\ \E to \in {"error", "finish", "respond", "register"} :
             Goto(r, "run", to) /\ (to = "register" => r \in ChanReqs)
        /\ opc' = opc \/ (opc = "none" /\ opc' = "select")
        /\ UNCHANGED <<finished, holders, accepted, regs, cases, outDone>>
    BY <1>4 DEF MethodReturns, MethodReturnsChan, slotVars, outVars
  <2>2. hpc[r] \in Unregistered
    BY <2>1 DEF Goto, Unregistered
  <2>3. accepted[r] # "yes"
    BY <2>2 DEF RegCore, BeforeRegistration
  <2> QED
    BY <2>1, <2>3, RegMove DEF CleanedUp, Unregistered
<1>5. ASSUME NEW r \in Reqs, RegisterFails(r) PROVE RegCore'
  <2>1. UNCHANGED <<finished, holders, accepted, opc, regs, cases, outDone>>
    BY <1>5 DEF RegisterFails, slotVars, outVars
  <2>2. CASE Goto(r, "register", "error")
    <3>1. hpc[r] = "register"
      BY <2>2 DEF Goto
    <3>2. accepted[r] # "yes"
      BY <3>1 DEF RegCore, BeforeRegistration, Unregistered
    <3> QED
      BY <2>1, <2>2, <3>2, RegMove DEF CleanedUp, Unregistered
  <2>3. CASE Goto(r, "await", "error") /\ Refused(r)
    <3>1. outDone
      BY <2>3 DEF Refused, RegCore, RegistrationsAligned
    <3> QED
      BY <2>1, <2>3, <3>1, RegMove DEF CleanedUp, Unregistered
  <2> QED
    BY <1>5, <2>2, <2>3 DEF RegisterFails
<1>6. ASSUME NEW r \in Reqs, RegisterAccepted(r) PROVE RegCore'
  <2>1. /\ Goto(r, "await", "end") /\ accepted[r] = "yes"
        /\ UNCHANGED <<finished, holders, accepted, opc, regs, cases, outDone>>
    BY <1>6 DEF RegisterAccepted, slotVars, outVars
  <2> QED
    BY <2>1, RegMove DEF CleanedUp, Unregistered
<1>7. ASSUME NEW r \in Reqs, Respond(r) PROVE RegCore'
  <2>1. /\ Goto(r, "respond", "finish") \/ Goto(r, "error", "finish")
        /\ UNCHANGED <<finished, holders, accepted, opc, regs, cases, outDone>>
    BY <1>7 DEF Respond, slotVars, outVars
  <2>2. hpc[r] \in {"respond", "error"}
    BY <2>1 DEF Goto
  <2>3. accepted[r] # "yes" \/ outDone
    BY <2>2 DEF RegCore, AfterRegistration
  <2> QED
    BY <2>1, <2>3, RegMove DEF CleanedUp, Unregistered
<1>8. ASSUME NEW r \in Reqs, HandlerFails(r) PROVE RegCore'
  <2>1. /\ Goto(r, "panicked", "end")
        /\ UNCHANGED <<finished, holders, accepted, opc, regs, cases, outDone>>
    BY <1>8 DEF HandlerFails, slotVars, outVars
  <2>2. r \notin holders
    BY <2>1 DEF Goto, RegCore, SlotOwners
  <2>3. accepted[r] # "yes" \/ outDone
    BY <2>1 DEF Goto, RegCore, AfterRegistration
  <2> QED
    BY <2>1, <2>2, <2>3, RegMove DEF CleanedUp, Unregistered
<1>9. ASSUME NEW r \in Reqs, FinishCall(r) \/ HandlerPanics(r) PROVE RegCore'
  BY <1>9, RegFinish
<1>10. ASSUME NEW r \in Reqs, OutRegister(r) PROVE RegCore'
  BY <1>10, RegRegister
<1>11. ASSUME NEW i \in 1..Cardinality(Reqs), OutClosed(i) PROVE RegCore'
  <2>1. i \in Nat
    BY FS_CardinalityType, ServerConnAssumption DEF ServerConnAssumption
  <2> QED
    BY <1>11, <2>1, RegClosed
<1>12. CASE OutCleanup
  BY <1>12, RegCleanup
<1>13. CASE OutDone
  <2>1. /\ opc = "failTransport" /\ opc' = "dead" /\ outDone' = TRUE
        /\ UNCHANGED <<hpc, finished, holders, accepted, regs, cases>>
    BY <1>13 DEF OutDone, callVars, slotVars
  <2>2. Registered' = Registered
    BY <2>1 DEF Registered
  <2>3. RegistrationsAligned' /\ OneRegistration'
    BY <2>1, <2>2 DEF RegCore, RegistrationsAligned, OneRegistration
  <2>4. BeforeRegistration' /\ AfterRegistration'
    BY <2>1, <2>2 DEF RegCore, BeforeRegistration, AfterRegistration
  <2>5. SlotOwners'
    BY <2>1, <2>2 DEF RegCore, SlotOwners, Ended, CleanedUp
  <2> QED
    BY <2>3, <2>4, <2>5 DEF RegCore
<1>14. ASSUME NEW i \in 1..Cardinality(Reqs), OutReceive(i) PROVE RegCore'
  <2>1. /\ opc = "select" /\ opc' = "value"
        /\ UNCHANGED <<hpc, finished, holders, accepted, regs, cases, outDone>>
    BY <1>14 DEF OutReceive, callVars, slotVars
  <2> QED
    BY <2>1, RegFrame DEF CleanedUp
<1>15. CASE OutReply \/ OutValue \/ OutClose \/ OutExit \/ OutFail
  <2>1. /\ UNCHANGED <<hpc, finished, holders, accepted, regs, cases, outDone>>
        /\ opc # "dead"
        /\ CleanedUp <=> CleanedUp'
    BY <1>15 DEF OutReply, OutValue, OutClose, OutExit, OutFail, callVars,
       slotVars, CleanedUp
  <2> QED
    BY <2>1, RegFrame
<1>16. ASSUME UNCHANGED <<hpc, finished, slotVars, outVars>> PROVE RegCore'
  BY <1>16, RegFrame DEF slotVars, outVars, CleanedUp
<1>17. ASSUME NEW r \in Reqs, ProducerWrites(r) \/ ProducerCloses(r)
       PROVE  RegCore'
  BY <1>16, <1>17 DEF ProducerWrites, ProducerCloses, callVars
<1>18. ASSUME NEW i \in Ids, HandleCancel(i) PROVE RegCore'
  BY <1>16, <1>18 DEF HandleCancel
<1>19. CASE Main \/ ExecQuit \/ FailTransport \/ CancelParent \/ Break
  BY <1>16, <1>19 DEF Main, MainReturn, MainCancel, MainFail, FailReturns,
     CloseInFlight, Exit, ExecQuit, FailTransport, CancelParent, Break, callVars
<1>20. CASE UNCHANGED vars
  BY <1>16, <1>20 DEF vars, callVars
<1> QED
  BY <1>1, <1>2, <1>3, <1>4, <1>5, <1>6, <1>7, <1>8, <1>9, <1>10, <1>11, <1>12,
     <1>13, <1>14, <1>15, <1>17, <1>18, <1>19, <1>20
  DEF Next, Handler, OutChans

-----------------------------------------------------------------------------
(* The wire: the invariant is inductive.                                   *)

\* The log of a call as WireGrammar describes it.
Grammar(r, q) ==
    /\ \A i \in DOMAIN q :
         /\ q[i].t \in {"result", "chan"} <=> i = 1
         /\ q[i].t = "result" => Len(q) = 1
         /\ q[i].t = "close" => i = Len(q)
    /\ \A i \in DOMAIN q : q[i].src = r

Grammatical == \A r \in Reqs : Grammar(r, log[r])

\* The grammar, log by log.
LEMMA GrammarByLog == TypeOK => (WireGrammar <=> Grammatical)
<1> SUFFICES ASSUME TypeOK PROVE WireGrammar <=> Grammatical
  OBVIOUS
<1>1. ASSUME NEW r \in Reqs
      PROVE  /\ DOMAIN Kinds(log[r]) = DOMAIN log[r]
             /\ Len(Kinds(log[r])) = Len(log[r])
             /\ \A i \in DOMAIN log[r] : Kinds(log[r])[i] = log[r][i].t
  <2>1. log[r] \in Seq(Frames)
    BY DEF TypeOK
  <2>2. Kinds(log[r]) = [i \in 1..Len(log[r]) |-> log[r][i].t]
    BY <2>1 DEF Kinds
  <2>3. \A n \in Nat : \A f : f = [i \in 1..n |-> log[r][i].t] => Len(f) = n
    OBVIOUS
  <2> QED
    BY <2>1, <2>2, <2>3
<1> QED
  BY <1>1 DEF WireGrammar, Grammatical, Grammar

\* The answer of a call, a value after the channel id, and the close of the
\* channel each continue the grammar.
LEMMA GrammarAppend ==
    ASSUME NEW r \in Reqs, NEW q \in Seq(Frames),
           NEW t \in {"result", "chan", "val", "close"},
           Grammar(r, q),
           \/ q = <<>> /\ t \in {"result", "chan"}
           \/ Streaming(q) /\ t \in {"val", "close"}
    PROVE  LET w == Append(q, [t |-> t, src |-> r])
           IN  /\ Grammar(r, w)
               /\ t = "chan" => Streaming(w)
               /\ t = "val" => Streaming(w)
<1> DEFINE w == Append(q, [t |-> t, src |-> r])
<1>1. /\ Len(q) \in Nat /\ DOMAIN q = 1..Len(q)
      /\ DOMAIN w = 1..Len(q) + 1 /\ Len(w) = Len(q) + 1
      /\ \A i \in 1..Len(q) + 1 :
           w[i] = IF i = Len(q) + 1 THEN [t |-> t, src |-> r] ELSE q[i]
  OBVIOUS
<1>2. \A i \in 1..Len(q) + 1 : i # Len(q) + 1 => i \in 1..Len(q)
  BY <1>1
<1> HIDE DEF w
<1>3. CASE q = <<>> /\ t \in {"result", "chan"}
  <2>1. Len(q) = 0 /\ DOMAIN w = {1} /\ Len(w) = 1 /\ w[1] = [t |-> t, src |-> r]
    BY <1>1, <1>3
  <2> QED
    BY <1>3, <2>1 DEF Grammar, Streaming, w
<1>4. CASE Streaming(q) /\ t \in {"val", "close"}
  <2>1. Len(q) >= 1 /\ q[1].t = "chan" /\ \A i \in 1..Len(q) : i > 1 => q[i].t = "val"
    BY <1>1, <1>4 DEF Streaming
  <2>2. /\ w[1].t = "chan" /\ w[Len(q) + 1] = [t |-> t, src |-> r]
        /\ \A i \in 1..Len(q) + 1 : i > 1 /\ i # Len(q) + 1 => w[i].t = "val"
    BY <1>1, <1>2, <2>1
  <2>3. \A i \in 1..Len(q) + 1 : w[i].src = r
    BY <1>1, <1>2 DEF Grammar
  <2>4. ASSUME NEW i \in 1..Len(q) + 1
        PROVE  /\ w[i].t \in {"result", "chan"} <=> i = 1
               /\ w[i].t = "result" => Len(w) = 1
               /\ w[i].t = "close" => i = Len(w)
    <3>1. CASE i = 1
      BY <1>1, <2>1, <2>2, <3>1
    <3>2. CASE i = Len(q) + 1
      BY <1>1, <1>4, <2>1, <2>2, <3>2
    <3>3. CASE i # 1 /\ i # Len(q) + 1
      BY <1>1, <2>1, <2>2, <3>3
    <3> QED
      BY <3>1, <3>2, <3>3
  <2>5. Grammar(r, w)
    BY <1>1, <2>3, <2>4 DEF Grammar
  <2>6. t = "val" => Streaming(w)
    BY <1>1, <2>1, <2>2 DEF Streaming
  <2> QED
    BY <1>4, <2>5, <2>6 DEF w
<1> QED
  BY <1>3, <1>4

\* Nothing has reached anybody when handleWsConn starts.
LEMMA WireInit == Init => WireCore
<1> SUFFICES ASSUME Init PROVE WireCore
  OBVIOUS
<1>1. Registered = {}
  BY DEF Init, Registered
<1>2. TypeOK
  BY ConnInit DEF ConnInv
<1>3. \A r \in Reqs : log[r] = <<>>
  BY DEF Init
<1>4. WireGrammar
  BY <1>2, <1>3, GrammarByLog DEF Grammatical, Grammar
<1>5. ClosedWhenDone /\ OwnChannel /\ Seen
  BY <1>1, <1>3 DEF Init, ClosedWhenDone, OwnChannel, Seen
<1> QED
  BY <1>4, <1>5 DEF WireCore

\* The parts of the connection move in their order: failed, then a closed
\* transport, then the end of handleOutChans.
LEMMA ClosedStep == ConnInv /\ ClosedWhenDone /\ [Next]_vars => ClosedWhenDone'
<1> SUFFICES ASSUME ConnInv, ClosedWhenDone, [Next]_vars PROVE ClosedWhenDone'
  OBVIOUS
<1>1. ASSUME UNCHANGED <<opc, failed, failing, tOpen, outDone>>
      PROVE  ClosedWhenDone'
  BY <1>1 DEF ClosedWhenDone
<1>2. ASSUME NEW r \in Reqs, HandleCall(r) \/ HandlerPanics(r) \/ Handler(r)
      PROVE  ClosedWhenDone'
  <2>1. CASE HandlerFails(r)
    BY <2>1, Zenon DEF HandlerFails, Failing, outVars, ClosedWhenDone
  <2>2. CASE MethodReturnsChan(r)
    BY <2>2 DEF MethodReturnsChan, connVars, ClosedWhenDone
  <2>3. CASE ~HandlerFails(r) /\ ~MethodReturnsChan(r)
    BY <1>1, <1>2, <2>3
    DEF HandleCall, HandlerPanics, Handler, StartHandler, ReserveCheck,
        ReserveLoad, ReserveCas, MethodReturns, RegisterFails,
        RegisterAccepted, Respond, FinishCall, outVars, connVars
  <2> QED
    BY <2>1, <2>2, <2>3
<1>3. ASSUME NEW r \in Reqs,
             ProducerWrites(r) \/ ProducerCloses(r) \/ OutRegister(r)
      PROVE  ClosedWhenDone'
  BY <1>3 DEF ProducerWrites, ProducerCloses, OutRegister, outVars, connVars,
     ClosedWhenDone
<1>4. ASSUME NEW i \in Ids, HandleCancel(i) PROVE ClosedWhenDone'
  BY <1>1, <1>4 DEF HandleCancel, outVars, connVars
<1>5. ASSUME NEW i \in 1..Cardinality(Reqs), OutReceive(i) \/ OutClosed(i)
      PROVE  ClosedWhenDone'
  BY <1>5 DEF OutReceive, OutClosed, ReportClosed, connVars, ClosedWhenDone
<1>6. CASE OutReply \/ OutValue \/ OutClose \/ OutExit \/ OutCleanup
  BY <1>6 DEF OutReply, OutValue, OutClose, OutExit, OutCleanup, connVars,
     ClosedWhenDone
<1>7. CASE OutFail
  BY <1>7, Zenon DEF OutFail, Failing, ClosedWhenDone
<1>8. CASE OutDone
  BY <1>8 DEF OutDone, connVars, ClosedWhenDone
<1>9. CASE Main
  <2>1. CASE MainFail
    BY <2>1, Zenon DEF MainFail, Failing, outVars, ClosedWhenDone
  <2>2. CASE ~MainFail
    BY <1>1, <1>9, <2>2 DEF Main, MainReturn, MainCancel, FailReturns,
       CloseInFlight, Exit, outVars
  <2> QED
    BY <2>1, <2>2
<1>10. CASE FailTransport
  BY <1>10 DEF FailTransport, outVars, ClosedWhenDone
<1>11. CASE ExecQuit \/ CancelParent \/ Break
  BY <1>1, <1>11 DEF ExecQuit, CancelParent, Break, outVars
<1>12. CASE UNCHANGED vars
  BY <1>1, <1>12 DEF vars, outVars, connVars
<1> QED
  BY <1>2, <1>3, <1>4, <1>5, <1>6, <1>7, <1>8, <1>9, <1>10, <1>11, <1>12
  DEF Next, OutChans

\* A frame that reaches the client continues the grammar of its call.
LEMMA GrammarWrite ==
    ASSUME ConnInv, TypeOK', WireGrammar, NEW r \in Reqs,
           NEW t \in {"result", "chan", "val", "close"},
           WriteReaches(r, t, r),
           \/ log[r] = <<>> /\ t \in {"result", "chan"}
           \/ Streaming(log[r]) /\ t \in {"val", "close"}
    PROVE  /\ WireGrammar'
           /\ t \in {"chan", "val"} => Streaming(log'[r])
           /\ \A q \in Reqs : q # r => log'[q] = log[q]
<1>1. TypeOK /\ log \in [Reqs -> Seq(Frames)]
  BY DEF ConnInv, TypeOK
<1>2. /\ log'[r] = Append(log[r], [t |-> t, src |-> r])
      /\ \A q \in Reqs : q # r => log'[q] = log[q]
  BY <1>1 DEF WriteReaches
<1>3. \A q \in Reqs : Grammar(q, log[q])
  BY <1>1, GrammarByLog DEF Grammatical
<1>4. /\ Grammar(r, log'[r])
      /\ t \in {"chan", "val"} => Streaming(log'[r])
  <2>1. log[r] \in Seq(Frames) /\ Grammar(r, log[r])
    BY <1>1, <1>3
  <2>2. LET w == Append(log[r], [t |-> t, src |-> r])
        IN  /\ Grammar(r, w)
            /\ t = "chan" => Streaming(w)
            /\ t = "val" => Streaming(w)
    BY <2>1, GrammarAppend
  <2> QED
    BY <1>2, <2>2
<1>5. \A q \in Reqs : Grammar(q, log'[q])
  BY <1>2, <1>3, <1>4
<1>6. WireGrammar' <=> Grammatical'
  <2>1. TypeOK' => (WireGrammar' <=> Grammatical')
    BY GrammarByLog, PTL
  <2> QED
    BY <2>1
<1>7. Grammatical'
  BY <1>5 DEF Grammatical
<1> QED
  BY <1>2, <1>4, <1>6, <1>7

\* A step that writes nothing keeps the invariant when no call goes back to
\* where its log has to be empty.
LEMMA WireQuiet ==
    ASSUME ConnInv, RegCore, WireCore, TypeOK', ClosedWhenDone',
           UNCHANGED <<log, regs, accepted>>,
           Writable' => Writable,
           \/ UNCHANGED <<opc, cur>>
           \/ /\ opc # "reply" \/ ~(Writable')
              /\ opc' \notin {"reply", "value", "close"},
           \A q \in Reqs : hpc'[q] \in Unregistered => hpc[q] \in Unregistered,
           \A q \in Reqs : hpc'[q] \in {"error", "respond"} =>
               hpc[q] \in Unregistered \cup {"error", "respond"} \/ ~(Writable')
    PROVE  WireCore'
<1>1. Registered' = Registered
  BY DEF Registered
<1>2. WireGrammar'
  BY DEF WireCore, WireGrammar, Kinds
<1>3. OwnChannel'
  BY <1>1 DEF WireCore, OwnChannel
<1>4. Seen'
  BY <1>1 DEF WireCore, Seen, Streaming
<1> QED
  BY <1>2, <1>3, <1>4 DEF WireCore

\* The goroutine of a call answers: nothing reached the client before, and
\* the call is not one that handleOutChans writes about.
LEMMA WireRespond ==
    ASSUME ConnInv, RegCore, WireCore, TypeOK', RegCore', ClosedWhenDone',
           NEW r \in Reqs, Respond(r)
    PROVE  WireCore'
<1>1. /\ Goto(r, "respond", "finish") \/ Goto(r, "error", "finish")
      /\ UNCHANGED <<tOpen, netUp, accepted, opc, regs, cur, outDone>>
      /\ UNCHANGED log \/ WriteReaches(r, "result", r)
  BY DEF Respond, WriteFails, outVars, connVars
<1>2. /\ hpc[r] \in {"error", "respond"} /\ hpc'[r] = "finish"
      /\ \A q \in Reqs : q # r => hpc'[q] = hpc[q]
  BY <1>1 DEF Goto, ConnInv, TypeOK
<1>3. Registered' = Registered /\ (Writable <=> Writable')
  BY <1>1 DEF Registered, Writable
<1>4. CASE UNCHANGED log
  <2>1. \A q \in Reqs :
          /\ hpc'[q] \in Unregistered => hpc[q] \in Unregistered
          /\ hpc'[q] \in {"error", "respond"} => hpc[q] \in {"error", "respond"}
    BY <1>2 DEF Unregistered
  <2> QED
    BY <1>1, <1>3, <1>4, <2>1, WireQuiet
<1>5. CASE WriteReaches(r, "result", r)
  <2>1. Writable
    BY <1>5 DEF WriteReaches, Writable
  <2>2. log[r] = <<>>
    BY <1>2, <2>1 DEF WireCore, Seen
  <2>3. accepted[r] # "yes"
    <3>1. ~outDone
      BY <2>1 DEF Writable, WireCore, ClosedWhenDone
    <3> QED
      BY <1>2, <3>1 DEF RegCore, AfterRegistration
  <2>4. WireGrammar' /\ \A q \in Reqs : q # r => log'[q] = log[q]
    BY <1>5, <2>2, GrammarWrite DEF WireCore
  <2>5. /\ r \notin Registered
        /\ opc \in {"reply", "close"} => cur.chid # r /\ cur.chid \in Reqs
    BY <2>3 DEF RegCore, AfterRegistration, WireCore, OwnChannel, ConnInv,
       StreamsCore
  <2>6. OwnChannel'
    BY <1>1, <1>3 DEF WireCore, OwnChannel
  <2>7. Registered \subseteq Reqs
    BY RegisteredReceived
  <2>8. Seen'
    BY <1>1, <1>2, <1>3, <2>4, <2>5, <2>7 DEF WireCore, Seen, Unregistered, Streaming
  <2> QED
    BY <2>4, <2>6, <2>8 DEF WireCore
<1> QED
  BY <1>1, <1>4, <1>5

\* handleOutChans writes what it holds: the channel id, then values, then
\* the close, each about a call whose goroutine writes nothing.
LEMMA WireOut ==
    ASSUME ConnInv, RegCore, WireCore, TypeOK', RegCore', ClosedWhenDone',
           OutReply \/ OutValue \/ OutClose
    PROVE  WireCore'
<1>1. /\ UNCHANGED <<hpc, tOpen, netUp, accepted, regs, outDone>>
      /\ opc \in {"reply", "value", "close"} /\ opc' \in {"select", "cleanup"}
  BY DEF OutReply, OutValue, OutClose, callVars, connVars
<1> DEFINE r == cur.chid
<1>2. r \in Reqs /\ cur.src = r /\ accepted[r] = "yes"
  BY <1>1 DEF ConnInv, StreamsCore, WireCore, OwnChannel, RegCore,
     AfterRegistration
<1>3. hpc[r] \in {"await", "end"}
  <2>1. ~outDone
    BY <1>1 DEF RegCore, AfterRegistration
  <2> QED
    BY <1>2, <2>1 DEF RegCore, AfterRegistration
<1> HIDE DEF r
<1>4. Registered' = Registered /\ (Writable' <=> Writable)
  BY <1>1 DEF Registered, Writable
<1>5. Registered \subseteq Reqs
  BY RegisteredReceived
<1>6. OwnChannel'
  BY <1>1 DEF OwnChannel
<1>7. ASSUME UNCHANGED log, opc = "reply" => ~Writable PROVE WireCore'
  BY <1>1, <1>4, <1>7, WireQuiet
<1>8. ASSUME NEW t \in {"chan", "val", "close"}, WriteReaches(r, t, r),
             \/ t = "chan" /\ log[r] = <<>>
             \/ t = "val" /\ r \in Registered /\ Streaming(log[r])
             \/ t = "close" /\ r \notin Registered /\ Streaming(log[r]),
             opc = "reply" => t = "chan"
      PROVE  WireCore'
  <2>1. /\ WireGrammar'
        /\ t \in {"chan", "val"} => Streaming(log'[r])
        /\ \A q \in Reqs : q # r => log'[q] = log[q]
    <3>1. \/ log[r] = <<>> /\ t \in {"result", "chan"}
          \/ Streaming(log[r]) /\ t \in {"val", "close"}
      BY <1>8
    <3>2. t \in {"result", "chan", "val", "close"}
      BY <1>8
    <3>3. WireGrammar
      BY DEF WireCore
    <3> QED
      BY <1>2, <1>8, <3>1, <3>2, <3>3, GrammarWrite
  <2>2. Seen'
    <3>1. /\ \A q \in Reqs : hpc'[q] \in Unregistered => log'[q] = <<>>
          /\ \A q \in Reqs : hpc'[q] \in {"error", "respond"} /\ Writable' =>
               log'[q] = <<>>
      BY <1>1, <1>3, <1>4, <2>1 DEF WireCore, Seen, Unregistered
    <3>2. \A q \in Registered : Writable => Streaming(log'[q])
      <4>1. ASSUME NEW q \in Registered, Writable, q # r PROVE Streaming(log'[q])
        BY <1>5, <2>1, <4>1 DEF WireCore, Seen, r
      <4>2. r \in Registered => Streaming(log'[r])
        BY <1>8, <2>1
      <4> QED
        BY <4>1, <4>2
    <3>3. opc' \notin {"reply", "close"}
      BY <1>1
    <3> QED
      BY <1>4, <3>1, <3>2, <3>3 DEF Seen, Streaming
  <2> QED
    BY <1>6, <2>1, <2>2 DEF WireCore
<1>9. CASE OutReply
  <2>1. opc = "reply" /\ (WriteReaches(r, "chan", r) \/ WriteFails)
    BY <1>2, <1>9 DEF OutReply, r
  <2>2. CASE WriteReaches(r, "chan", r)
    BY <1>8, <2>1, <2>2 DEF WireCore, Seen, r
  <2>3. CASE WriteFails
    BY <1>7, <2>3 DEF WriteFails, Writable
  <2> QED
    BY <2>1, <2>2, <2>3
<1>10. CASE OutValue
  <2>1. opc = "value" /\ (WriteReaches(r, "val", r) \/ UNCHANGED log)
    BY <1>2, <1>10 DEF OutValue, WriteLost, WriteFails, r
  <2>2. CASE WriteReaches(r, "val", r)
    <3>1. Writable /\ r \in Registered
      BY <2>1, <2>2 DEF WriteReaches, Writable, WireCore, OwnChannel, r
    <3>2. Streaming(log[r])
      BY <2>1, <3>1 DEF WireCore, Seen
    <3> QED
      BY <1>8, <2>1, <2>2, <3>1, <3>2
  <2> QED
    BY <1>7, <2>1, <2>2
<1>11. CASE OutClose
  <2>1. opc = "close" /\ (WriteReaches(r, "close", r) \/ UNCHANGED log)
    BY <1>2, <1>11 DEF OutClose, WriteFails, r
  <2>2. CASE WriteReaches(r, "close", r)
    <3>1. Writable /\ r \notin Registered
      BY <2>1, <2>2 DEF WriteReaches, Writable, WireCore, OwnChannel, r
    <3>2. Streaming(log[r])
      BY <2>1, <3>1 DEF WireCore, Seen, r
    <3> QED
      BY <1>8, <2>1, <2>2, <3>1, <3>2
  <2> QED
    BY <1>7, <2>1, <2>2
<1> QED
  BY <1>9, <1>10, <1>11

\* handleOutChans takes up a registration, a value or a closed channel.
LEMMA WireSelect ==
    ASSUME ConnInv, RegCore, WireCore, TypeOK', RegCore', ClosedWhenDone',
           \/ \E r \in Reqs : OutRegister(r)
           \/ \E i \in Nat : OutReceive(i) \/ OutClosed(i)
    PROVE  WireCore'
<1>1. /\ opc = "select"
      /\ UNCHANGED <<tOpen, netUp, log>>
  BY DEF OutRegister, OutReceive, OutClosed, connVars
<1>2. (Writable' <=> Writable) /\ WireGrammar'
  BY <1>1 DEF Writable, WireCore, WireGrammar, Kinds
<1>3. \A r \in Registered : Writable => Streaming(log[r])
  BY <1>1 DEF WireCore, Seen
<1>4. ASSUME NEW r \in Reqs, OutRegister(r) PROVE WireCore'
  <2>1. /\ opc' = "reply" /\ cur' = [chid |-> r, src |-> r]
        /\ Registered' = Registered \cup {r}
    BY <1>4, RegRegister
  <2>2. /\ hpc[r] = "register" /\ hpc'[r] = "await"
        /\ \A q \in Reqs : q # r => hpc'[q] = hpc[q]
    BY <1>4 DEF OutRegister, Goto, ConnInv, TypeOK
  <2>3. log[r] = <<>>
    BY <2>2 DEF WireCore, Seen, Unregistered
  <2>4. OwnChannel'
    BY <2>1 DEF OwnChannel
  <2>5. Seen'
    BY <1>1, <1>2, <1>3, <2>1, <2>2, <2>3 DEF WireCore, Seen, Unregistered, Streaming
  <2> QED
    BY <1>2, <2>4, <2>5 DEF WireCore
<1>5. ASSUME NEW i \in Nat, OutReceive(i) PROVE WireCore'
  <2>1. /\ opc' = "value" /\ cur' = [chid |-> regs[i], src |-> cases[i]]
        /\ i \in DOMAIN cases /\ UNCHANGED <<hpc, regs, accepted>>
    BY <1>5 DEF OutReceive, callVars
  <2>2. regs = cases /\ Registered' = Registered
    BY <2>1 DEF RegCore, RegistrationsAligned, Registered
  <2>3. regs[i] \in Registered
    BY <2>1, <2>2 DEF Registered
  <2>4. OwnChannel'
    BY <2>1, <2>2, <2>3 DEF OwnChannel
  <2>5. Seen'
    BY <1>1, <1>2, <1>3, <2>1, <2>2 DEF WireCore, Seen, Streaming
  <2> QED
    BY <1>2, <2>4, <2>5 DEF WireCore
<1>6. ASSUME NEW i \in Nat, OutClosed(i) PROVE WireCore'
  <2>1. /\ regs[i] \in Registered /\ cases[i] = regs[i]
        /\ Registered' = Registered \ {regs[i]}
    BY <1>6, RegClosed
  <2>2. /\ opc' = "close" /\ cur' = [chid |-> regs[i], src |-> cases[i]]
        /\ UNCHANGED <<hpc, accepted>>
    BY <1>6 DEF OutClosed, ReportClosed
  <2>3. accepted[regs[i]] = "yes"
    BY <2>1 DEF RegCore, AfterRegistration
  <2>4. OwnChannel'
    BY <2>1, <2>2, <2>3 DEF OwnChannel
  <2>5. Seen'
    BY <1>1, <1>2, <1>3, <2>1, <2>2 DEF WireCore, Seen, Streaming
  <2> QED
    BY <1>2, <2>4, <2>5 DEF WireCore
<1> QED
  BY <1>4, <1>5, <1>6

\* Every step keeps what the client sees in order.
LEMMA WireStep == WireInv /\ [Next]_vars => WireCore'
<1> SUFFICES ASSUME WireInv, [Next]_vars PROVE WireCore'
  OBVIOUS
<1>0. ConnInv /\ RegCore /\ WireCore /\ ClosedWhenDone
  BY DEF WireInv, WireCore
<1>1. TypeOK' /\ RegCore' /\ ClosedWhenDone'
  BY <1>0, TypeStep, RegStep, ClosedStep
<1>2. ASSUME UNCHANGED <<hpc, accepted, regs, log>>,
             UNCHANGED <<opc, cur>> \/ (opc # "reply" /\ opc' \notin {"reply", "value", "close"}),
             Writable' => Writable
      PROVE  WireCore'
  BY <1>0, <1>1, <1>2, WireQuiet
<1>3. ASSUME NEW r \in Reqs, NEW from, NEW to, Goto(r, from, to),
             UNCHANGED <<accepted, regs, log, tOpen, netUp>>,
             \/ UNCHANGED <<opc, cur>>
             \/ opc # "reply" /\ opc' \notin {"reply", "value", "close"},
             to \in Unregistered => from \in Unregistered,
             to \in {"error", "respond"} => from \in Unregistered \/ ~tOpen
      PROVE  WireCore'
  <2>1. /\ hpc[r] = from /\ \A q \in Reqs : hpc'[q] = IF q = r THEN to ELSE hpc[q]
        /\ Writable' <=> Writable
        /\ ~tOpen => ~Writable
    BY <1>0, <1>3 DEF Goto, ConnInv, TypeOK, Writable
  <2> QED
    BY <1>0, <1>1, <1>3, <2>1, WireQuiet
<1>4. ASSUME NEW r \in Reqs, HandleCall(r) PROVE WireCore'
  <2>1. /\ Goto(r, "unseen", "dropped") \/ Goto(r, "unseen", "start")
        /\ UNCHANGED <<accepted, regs, log, tOpen, netUp, opc, cur>>
    BY <1>4 DEF HandleCall, Goto, outVars, connVars
  <2> QED
    BY <1>3, <2>1 DEF Unregistered
<1>5. ASSUME NEW r \in Reqs,
             \/ StartHandler(r) \/ ReserveCheck(r) \/ ReserveLoad(r) \/ ReserveCas(r)
             \/ MethodReturns(r) \/ RegisterAccepted(r) \/ FinishCall(r)
             \/ HandlerPanics(r) \/ HandlerFails(r)
      PROVE  WireCore'
  <2>1. UNCHANGED <<accepted, regs, log, tOpen, netUp, opc, cur>>
    BY <1>5 DEF StartHandler, ReserveCheck, ReserveLoad, ReserveCas, MethodReturns,
       RegisterAccepted, FinishCall, HandlerPanics, HandlerFails, outVars, connVars
  <2>2. \E from, to : /\ Goto(r, from, to)
                      /\ to \in Unregistered => from \in Unregistered
                      /\ to \in {"error", "respond"} => from \in Unregistered
    BY <1>5 DEF StartHandler, ReserveCheck, ReserveLoad, ReserveCas, MethodReturns,
       RegisterAccepted, FinishCall, HandlerPanics, HandlerFails, Unregistered
  <2> QED
    BY <1>3, <2>1, <2>2
<1>6. ASSUME NEW r \in Reqs, MethodReturnsChan(r) PROVE WireCore'
  <2>1. /\ Goto(r, "run", "finish") \/ Goto(r, "run", "register")
        /\ UNCHANGED <<accepted, regs, log, tOpen, netUp, cur>>
        /\ UNCHANGED opc \/ (opc = "none" /\ opc' = "select")
    BY <1>6 DEF MethodReturnsChan, connVars
  <2> QED
    BY <1>3, <2>1 DEF Unregistered
<1>7. ASSUME NEW r \in Reqs, RegisterFails(r) PROVE WireCore'
  <2>1. /\ \/ Goto(r, "register", "error")
           \/ Goto(r, "await", "error") /\ Refused(r)
        /\ UNCHANGED <<accepted, regs, log, tOpen, netUp, opc, cur>>
    BY <1>7 DEF RegisterFails, outVars, connVars
  <2>2. Refused(r) => ~tOpen
    BY <1>0 DEF Refused, RegCore, RegistrationsAligned, ClosedWhenDone
  <2> QED
    BY <1>3, <2>1, <2>2 DEF Unregistered
<1>8. ASSUME NEW r \in Reqs, Respond(r) PROVE WireCore'
  BY <1>0, <1>1, <1>8, WireRespond
<1>9. ASSUME NEW r \in Reqs, ProducerWrites(r) \/ ProducerCloses(r)
      PROVE  WireCore'
  BY <1>2, <1>9 DEF ProducerWrites, ProducerCloses, callVars, outVars, connVars,
     Writable
<1>10. ASSUME NEW i \in Ids, HandleCancel(i) PROVE WireCore'
  BY <1>2, <1>10 DEF HandleCancel, outVars, connVars, Writable
<1>11. ASSUME NEW r \in Reqs, OutRegister(r) PROVE WireCore'
  BY <1>0, <1>1, <1>11, WireSelect
<1>12. ASSUME NEW i \in 1..Cardinality(Reqs), OutReceive(i) \/ OutClosed(i)
       PROVE  WireCore'
  <2>1. i \in Nat
    BY FS_CardinalityType, ServerConnAssumption DEF ServerConnAssumption
  <2> QED
    BY <1>0, <1>1, <1>12, <2>1, WireSelect
<1>13. CASE OutReply \/ OutValue \/ OutClose
  BY <1>0, <1>1, <1>13, WireOut
<1>14. CASE OutExit \/ OutCleanup \/ OutFail \/ OutDone
  <2>1. /\ UNCHANGED <<hpc, accepted, regs, log, tOpen, netUp>>
        /\ opc # "reply" /\ opc' \notin {"reply", "value", "close"}
    BY <1>14 DEF OutExit, OutCleanup, OutFail, OutDone, callVars, connVars
  <2> QED
    BY <1>2, <2>1 DEF Writable
<1>15. CASE Main \/ ExecQuit \/ FailTransport \/ CancelParent \/ Break
  <2>1. /\ UNCHANGED <<hpc, accepted, regs, log, opc, cur>>
        /\ UNCHANGED tOpen \/ tOpen' = FALSE
        /\ UNCHANGED netUp \/ netUp' = FALSE
    BY <1>15 DEF Main, MainReturn, MainCancel, MainFail, FailReturns,
       CloseInFlight, Exit, ExecQuit, FailTransport, CancelParent, Break,
       callVars, outVars
  <2> QED
    BY <1>2, <2>1 DEF Writable
<1>16. CASE UNCHANGED vars
  BY <1>2, <1>16 DEF vars, callVars, outVars, connVars, Writable
<1> QED
  BY <1>4, <1>5, <1>6, <1>7, <1>8, <1>9, <1>10, <1>11, <1>12, <1>13, <1>14,
     <1>15, <1>16
  DEF Next, Handler, OutChans

\* The invariant holds in every reachable state.
LEMMA WireInvariant == Spec => []WireInv
<1>1. Init => WireInv
  BY ConnInit, RegInit, WireInit DEF WireInv
<1>2. WireInv /\ [Next]_vars => WireInv'
  BY TypeStep, SlotsStep, StreamsStep, CallsStep, RegStep, WireStep
  DEF WireInv, ConnInv
<1> QED
  BY <1>1, <1>2, PTL DEF Spec

-----------------------------------------------------------------------------
\* A slot that reserveSubscription gave away is never forgotten: its owner is
\* a goroutine that has not ended, or a registration of a handleOutChans that
\* will finish it, through every interleaving of hand-over and teardown.
THEOREM SlotsHaveOwners == Spec => []NoSlotLeak
<1>1. WireInv => NoSlotLeak
  BY DEF WireInv, RegCore, SlotOwners, AfterRegistration, NoSlotLeak, CleanedUp
<1> QED
  BY <1>1, WireInvariant, PTL

\* The registrations and the select cases of handleOutChans stay in step
\* under swap-removal, and its own check of maxSubscriptions never refuses a
\* call that reserveSubscription let pass.
THEOREM RegistrationsInStep == Spec => []RegistrationsAligned
<1>1. WireInv => RegistrationsAligned
  BY DEF WireInv, RegCore
<1> QED
  BY <1>1, WireInvariant, PTL

\* Whatever number of calls there is, the client sees of each at most one
\* answer, and values only between the channel id and the close of their own
\* channel (handle, handleChanOut and handleOutChans together).
THEOREM ClientSeesGrammar == Spec => []WireGrammar
<1>1. WireInv => WireGrammar
  BY DEF WireInv, WireCore
<1> QED
  BY <1>1, WireInvariant, PTL
=============================================================================
