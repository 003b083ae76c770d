--------------------------- MODULE HttpCallProofs ---------------------------
(* Theorems about HttpCall, for every value of its constants.              *)
EXTENDS HttpCall, FiniteSetTheorems, SequenceTheorems, TLAPS

-----------------------------------------------------------------------------
(* The inductive invariant.                                                *)

\* Where the handler is: the answer it is about to write is that of the item
\* it is at, and a body that is refused has no items to come to.
PlaceCore ==
    /\ pc = "body" => i = 0
    /\ pc \in {"write", "answer"} => pend.n = i /\ IsAnswer(pend)
    /\ BodyFault # 0 => i = 0 /\ pc \in {"body", "write", "done"}
    /\ BodyFault = 0 /\ pc # "body" => i > 0
    /\ pc = "answer" => InBatch

\* The channels of the map: as many as were made, no two uuids with one, and
\* a POST that offers its body, like a decoder that waits, has that of its
\* uuid.
Made == {u \in Uuids : readers[u] # 0}

ChannelCore ==
    /\ nch = Cardinality(Made)
    /\ \A u1, u2 \in Made : readers[u1] = readers[u2] => u1 = u2
    /\ \A p \in Posts :
         post[p] = "offer" => ch[p] # 0 /\ ch[p] = readers[uuid[p]]
    /\ pc = "meet" => ch[Decoder] # 0 /\ ch[Decoder] = readers[Item(i).uuid]

TypeInv == TypeOK /\ PlaceCore /\ ChannelCore

\* A POST has told that its body was taken, and read, only when it was.
PushCore ==
    /\ PushedToItsCall
    /\ \A p \in Posts : post[p] = "wait" => taken[p] # 0

\* The items whose call has ended, and those whose answer was written too.
Ended == IF pc \in {"write", "answer", "close", "done"} THEN 1..i ELSE 1..(i - 1)
Written == IF pc \in {"close", "done"} THEN 1..i ELSE 1..(i - 1)

\* What the call of an item may come to.
Fates(n) ==
    IF body.items[n].id = "none" THEN {"silent", "refused"}
    ELSE {"result", "refused", "unencodable"} \cup ErrTypes

\* No call ends twice or early, a call whose id was bad ends at once, and at
\* the end every call has ended.
FateCore ==
    /\ \A n \in DOMAIN body.items :
         IF n \in Ended THEN fate[n] \in Fates(n) ELSE fate[n] = "none"
    /\ pc \in {"lookup", "params", "reader", "meet", "call"} => Item(i).id # "bad"
    /\ BodyFault = 0 /\ pc \in {"close", "done"} => i = Len(body.items)

\* An answer tells what the call of its item came to.
Faithful(a) ==
    /\ a.n \in DOMAIN body.items
    /\ a.named = (body.items[a.n].id = "ok")
    /\ a.k = CASE fate[a.n] = "refused" -> "refusal"
               [] fate[a.n] = "result" -> "result"
               [] OTHER -> "error"
    /\ a.k = "refusal" => a.code <= 0
    /\ a.k = "error" => fate[a.n] \in ErrTypes /\ a.code = CodeOf(fate[a.n])

Got == {m \in DOMAIN out : IsAnswer(out[m])}

\* The answers so far are faithful, and those of the items that were
\* written, in their order; nothing is missing unless the client has left.
AnswerCore ==
    BodyFault = 0 =>
      /\ pc \in {"write", "answer"} => Faithful(pend)
      /\ \A m \in Got : Faithful(out[m]) /\ out[m].n \in Written
      /\ \A m1, m2 \in Got : m1 < m2 => out[m1].n < out[m2].n
      /\ ~gone => \A n \in Written :
                    fate[n] \notin {"silent", "unencodable"} =>
                      \E m \in Got : out[m].n = n

\* Not a batch, or one that is refused as a whole.
Plain == ~Batch \/ BodyFault # 0

\* The refusal of a body carries an id only if the body was decoded in part.
RefusalOfBody(a) == a.k = "refusal" /\ (a.named => body.shape = "garbled")

\* What is at place m of a batch that has not ended.
AtPlace(m) ==
    IF m = 1 THEN out[m].k = "open"
    ELSE IF m % 2 = 0 THEN IsAnswer(out[m]) ELSE out[m].k = "comma"

ShapeCore ==
    /\ OutputIsJson
    /\ Plain => /\ ~wrote /\ Len(out) <= 1 /\ (pc # "done" => out = <<>>)
                /\ \A m \in DOMAIN out : IsAnswer(out[m])
    /\ BodyFault # 0 => /\ pc = "write" => RefusalOfBody(pend)
                        /\ \A m \in DOMAIN out : RefusalOfBody(out[m])
    /\ ~Plain /\ pc # "done" =>
         /\ wrote <=> out # <<>>
         /\ \A m \in DOMAIN out : AtPlace(m)
         /\ ~gone => Len(out) % 2 = IF pc = "answer" THEN 1 ELSE 0

ReplyInv == TypeInv /\ FateCore /\ AnswerCore /\ ShapeCore
            /\ StatusAnnouncesRefusal

\* Only the generated function sees something, and once; what it returns,
\* unless its client has left, it makes of a finished answer.
SeenCore ==
    /\ ~body.ours => seen = "unread"
    /\ body.ours /\ gone => seen # "unread"
    /\ seen \notin {"unread", "ErrClient"} => pc = "done"
    /\ CallerSeesOwnOutcome

-----------------------------------------------------------------------------
(* Lemmas about the operators.                                             *)

\* The greatest member of a set of places exists: createError and
\* JSONRPCError.val find the last registration.
LEMMA MaxOfPlaces ==
    ASSUME NEW k \in Nat, NEW S \in SUBSET (1..k), S # {}
    PROVE  Max(S) \in S /\ \A n \in S : n <= Max(S)
<1> DEFINE below == {k - n : n \in S}
<1>1. below \subseteq Nat
  OBVIOUS
<1>2. below # {}
  OBVIOUS
<1>3. PICK least \in below : \A d \in below : ~(<<d, least>> \in OpToRel(<, Nat))
  BY <1>1, <1>2, NatLessThanWellFounded, WFMin
<1>4. \A d \in below : ~(d < least)
  BY <1>1, <1>3 DEF OpToRel
<1>5. PICK n \in S : least = k - n
  BY <1>3
<1>6. \A m \in S : n >= m
  <2> SUFFICES ASSUME NEW m \in S PROVE n >= m
    OBVIOUS
  <2>1. k - m \in below
    OBVIOUS
  <2>2. ~(k - m < k - n)
    BY <1>4, <1>5, <2>1
  <2> QED
    BY <2>2
<1> QED
  BY <1>5, <1>6 DEF Max

\* The registrations are a sequence of types and codes.
LEMMA RegisteredTyped ==
    /\ Len(Registered) \in Nat /\ DOMAIN Registered = 1..Len(Registered)
    /\ \A n \in DOMAIN Registered :
         Registered[n].type \in ErrTypes /\ Registered[n].code \in Nat \ {0, 1}
<1>1. Registered \in Seq([type : ErrTypes, code : Nat \ {0, 1}])
  BY HttpCallAssumption
<1>2. Len(Registered) \in Nat /\ DOMAIN Registered = 1..Len(Registered)
  BY <1>1
<1>3. ASSUME NEW n \in DOMAIN Registered
      PROVE  Registered[n] \in [type : ErrTypes, code : Nat \ {0, 1}]
  BY <1>1, <1>2, ElementOfSeq
<1> QED
  BY <1>2, <1>3

\* The code of an error type is 1, or one it was registered with.
LEMMA CodeIsRegistered ==
    ASSUME NEW t
    PROVE  /\ CodeOf(t) \in Nat
           /\ Registrations(t) = {} => CodeOf(t) = 1
           /\ Registrations(t) # {} =>
                /\ Max(Registrations(t)) \in DOMAIN Registered
                /\ Registered[Max(Registrations(t))].type = t
                /\ CodeOf(t) = Registered[Max(Registrations(t))].code
<1>1. /\ Len(Registered) \in Nat /\ DOMAIN Registered = 1..Len(Registered)
      /\ \A n \in DOMAIN Registered :
           Registered[n].type \in ErrTypes /\ Registered[n].code \in Nat \ {0, 1}
  BY RegisteredTyped
<1>2. Registrations(t) \in SUBSET (1..Len(Registered))
  BY <1>1 DEF Registrations
<1>3. Registrations(t) # {} => Max(Registrations(t)) \in Registrations(t)
  BY <1>1, <1>2, MaxOfPlaces
<1>4. \A n \in DOMAIN Registered : Registered[n].code \in Nat
  BY <1>1
<1> QED
  BY <1>1, <1>3, <1>4 DEF CodeOf, Registrations

\* What an error can become at the client: nothing but the plain error when
\* no type has its code, and else the last type registered with it, or the
\* plain error when its data does not decode.
LEMMA TypesOfCode ==
    ASSUME NEW code \in Int
    PROVE  /\ TypesOf(code) \subseteq {"JSONRPCError"} \cup ErrTypes
           /\ (\A n \in DOMAIN Registered : Registered[n].code # code) =>
                TypesOf(code) = {"JSONRPCError"}
           /\ (\E n \in DOMAIN Registered : Registered[n].code = code) =>
                \E n \in DOMAIN Registered :
                  /\ Registered[n].code = code
                  /\ TypesOf(code) = {Registered[n].type} \cup
                       (IF Registered[n].type \in Fallible THEN {"JSONRPCError"}
                        ELSE {})
<1> DEFINE hits == {n \in DOMAIN Registered : Registered[n].code = code}
<1>1. /\ Len(Registered) \in Nat /\ DOMAIN Registered = 1..Len(Registered)
      /\ \A n \in DOMAIN Registered :
           Registered[n].type \in ErrTypes /\ Registered[n].code \in Nat \ {0, 1}
  BY RegisteredTyped
<1>2. CASE hits = {}
  BY <1>2 DEF TypesOf
<1>3. CASE hits # {}
  <2>1. Max(hits) \in hits
    BY <1>1, <1>3, MaxOfPlaces
  <2>2. /\ Max(hits) \in DOMAIN Registered /\ Registered[Max(hits)].code = code
        /\ Registered[Max(hits)].type \in ErrTypes
    BY <1>1, <2>1
  <2>3. TypesOf(code) = {Registered[Max(hits)].type} \cup
             (IF Registered[Max(hits)].type \in Fallible THEN {"JSONRPCError"}
              ELSE {})
    BY <1>3 DEF TypesOf
  <2> QED
    BY <1>3, <2>2, <2>3
<1> QED
  BY <1>2, <1>3

\* The items of the body are a sequence of requests, and a body that is not
\* refused as a whole has at least one.
LEMMA BodyTyped ==
    ASSUME body \in Bodies
    PROVE  /\ Len(body.items) \in Nat /\ DOMAIN body.items = 1..Len(body.items)
           /\ \A n \in DOMAIN body.items :
                /\ body.items[n].id \in {"none", "ok", "bad"}
                /\ body.items[n].uuid \in Uuids
           /\ BodyFault = 0 => /\ body.shape \in {"object", "array"}
                               /\ Len(body.items) >= 1
           /\ BodyFault \in {0, ParseError, InvalidRequest}
           /\ body.shape = "object" => Len(body.items) = 1
           /\ body.ours => /\ body.shape \in {"unreadable", "toolarge", "object"}
                           /\ Len(body.items) = 1
<1> DEFINE Requests == [id : {"none", "ok", "bad"}, method : STRING, uuid : Uuids]
<1>1. /\ body.shape \in {"unreadable", "toolarge", "blank", "garbled",
                         "object", "array"}
      /\ body.items \in Seq(Requests)
      /\ body.shape = "object" => Len(body.items) = 1
      /\ body.ours => /\ body.shape \in {"unreadable", "toolarge", "object"}
                      /\ Len(body.items) = 1
  BY HttpCallAssumption
<1> HIDE DEF Requests
<1>2. Len(body.items) \in Nat /\ DOMAIN body.items = 1..Len(body.items)
  BY <1>1
<1>3. ASSUME NEW n \in DOMAIN body.items
      PROVE  /\ body.items[n].id \in {"none", "ok", "bad"}
             /\ body.items[n].uuid \in Uuids
  <2>1. body.items[n] \in Requests
    BY <1>1, <1>2, ElementOfSeq
  <2> QED
    BY <2>1 DEF Requests
<1>4. Len(body.items) = 0 => body.items = <<>>
  BY <1>1, EmptySeq
<1>5. BodyFault = 0 => /\ body.shape \in {"object", "array"}
                       /\ Len(body.items) >= 1
  BY <1>1, <1>2, <1>4 DEF BodyFault, Batch, ParseError, InvalidRequest
<1>6. BodyFault \in {0, ParseError, InvalidRequest}
  BY DEF BodyFault
<1> QED
  BY <1>1, <1>2, <1>3, <1>5, <1>6

-----------------------------------------------------------------------------
(* Type correctness.                                                       *)

LEMMA TypeInit == Init => TypeInv
<1> SUFFICES ASSUME Init PROVE TypeInv
  OBVIOUS
<1>1. body \in Bodies
  BY DEF Init
<1>2. /\ Len(body.items) \in Nat /\ DOMAIN body.items = 1..Len(body.items)
      /\ BodyFault \in {0, ParseError, InvalidRequest}
  BY <1>1, BodyTyped
<1>3. IsFiniteSet(Uuids)
  BY HttpCallAssumption
<1>4. Cardinality(Uuids) \in Nat
  BY <1>3, FS_CardinalityType
<1>5. TypeOK
  <2>0. /\ i = 0 /\ pend = NoAnswer /\ out = <<>> /\ nch = 0
        /\ readers = [u \in Uuids |-> 0]
        /\ ch = [p \in Posts \cup {Decoder} |-> 0]
        /\ taken = [p \in Posts |-> 0]
    BY DEF Init
  <2>1. pend \in Answers
    BY <1>2, <2>0 DEF Answers, NoAnswer, Token, Answer
  <2>7. out \in Seq(Answers)
    BY <2>0, EmptySeq
  <2>2. fate \in [DOMAIN body.items ->
                   {"none", "silent", "result", "refused", "unencodable"} \cup ErrTypes]
    BY DEF Init
  <2>3. /\ nch \in 0..Cardinality(Uuids)
        /\ readers \in [Uuids -> 0..nch] /\ ch \in [Posts \cup {Decoder} -> 0..nch]
    BY <1>4, <2>0
  <2>4. i \in 0..Len(body.items) /\ taken \in [Posts -> 0..Len(body.items)]
    BY <1>2, <2>0
  <2> QED
    BY <1>1, <2>1, <2>2, <2>3, <2>4, <2>7 DEF Init, TypeOK, RequestTypeOK, ReaderTypeOK
<1>6. PlaceCore
  <2>1. pc = "body" /\ i = 0 /\ out = <<>>
    BY DEF Init
  <2> QED
    BY <2>1 DEF PlaceCore
<1>7. ChannelCore
  <2>1. Made = {}
    BY DEF Init, Made
  <2> QED
    BY <2>1, FS_EmptySet DEF Init, ChannelCore
<1> QED
  BY <1>5, <1>6, <1>7 DEF TypeInv

\* readersLk: looking up the channel of a uuid, and making it, leaves every
\* other channel where it was and never makes a second one for a uuid.
LEMMA ChannelMade ==
    ASSUME TypeInv, NEW u \in Uuids, ChannelKept(u)
    PROVE  /\ nch' \in 0..Cardinality(Uuids) /\ nch <= nch'
           /\ readers' \in [Uuids -> 0..nch']
           /\ nch' = Cardinality(Made')
           /\ \A u1, u2 \in Made' : readers'[u1] = readers'[u2] => u1 = u2
           /\ ChannelOf(u) \in 1..nch' /\ readers'[u] = ChannelOf(u)
           /\ \A v \in Uuids : readers[v] # 0 => readers'[v] = readers[v]
<1>1. IsFiniteSet(Uuids)
  BY HttpCallAssumption
<1>2. Cardinality(Uuids) \in Nat
  BY <1>1, FS_CardinalityType
<1>3. /\ nch \in 0..Cardinality(Uuids) /\ readers \in [Uuids -> 0..nch]
      /\ nch = Cardinality(Made)
      /\ \A u1, u2 \in Made : readers[u1] = readers[u2] => u1 = u2
  BY DEF TypeInv, TypeOK, ReaderTypeOK, ChannelCore
<1>4. nch \in Nat
  BY <1>2, <1>3
<1>5. CASE readers[u] # 0
  <2>1. UNCHANGED <<readers, nch>>
    BY <1>5 DEF ChannelKept
  <2>2. Made' = Made
    BY <2>1 DEF Made
  <2>3. ChannelOf(u) = readers[u] /\ readers[u] \in 1..nch
    BY <1>3, <1>4, <1>5 DEF ChannelOf
  <2> QED
    BY <1>3, <1>4, <2>1, <2>2, <2>3
<1>6. CASE readers[u] = 0
  <2>1. nch' = nch + 1 /\ readers' = [readers EXCEPT ![u] = nch + 1]
    BY <1>6 DEF ChannelKept
  <2>2. u \notin Made /\ Made \in SUBSET Uuids
    BY <1>6 DEF Made
  <2>3. Made' = Made \cup {u}
    <3>1. \A v \in Uuids : readers'[v] = IF v = u THEN nch + 1 ELSE readers[v]
      BY <1>3, <2>1
    <3>2. nch + 1 # 0
      BY <1>4
    <3> QED
      BY <3>1, <3>2 DEF Made
  <2>4. IsFiniteSet(Made)
    BY <1>1, <2>2, FS_Subset
  <2>5. Cardinality(Made') = nch + 1
    BY <1>3, <2>2, <2>3, <2>4, FS_AddElement
  <2>6. nch + 1 <= Cardinality(Uuids)
    <3>1. Made' \in SUBSET Uuids
      BY <2>2, <2>3
    <3> QED
      BY <1>1, <2>5, <3>1, FS_Subset
  <2>7. nch' \in 0..Cardinality(Uuids) /\ nch <= nch'
    BY <1>2, <1>4, <2>1, <2>6
  <2>8. readers' \in [Uuids -> 0..nch']
    BY <1>3, <1>4, <2>1
  <2>9. ASSUME NEW u1 \in Made', NEW u2 \in Made', readers'[u1] = readers'[u2]
        PROVE  u1 = u2
    <3>1. \A v \in Made : v \in Uuids /\ readers'[v] = readers[v] /\ readers[v] \in 0..nch
      BY <1>3, <2>1, <2>2
    <3>2. readers'[u] = nch + 1
      BY <1>3, <2>1
    <3>3. \A v \in Made : readers'[v] # nch + 1
      BY <1>4, <3>1
    <3> QED
      BY <1>3, <2>3, <2>9, <3>1, <3>2, <3>3
  <2>10. ChannelOf(u) = nch + 1 /\ nch + 1 \in 1..nch'
    BY <1>4, <1>6, <2>1 DEF ChannelOf
  <2>11. readers'[u] = nch + 1 /\ \A v \in Uuids : readers[v] # 0 => readers'[v] = readers[v]
    BY <1>3, <1>6, <2>1
  <2> QED
    BY <2>1, <2>5, <2>7, <2>8, <2>9, <2>10, <2>11
<1> QED
  BY <1>5, <1>6

\* What the handler knows of the item it is at.
LEMMA AtItem ==
    ASSUME TypeInv, BodyFault = 0, pc # "body"
    PROVE  /\ i \in 1..Len(body.items) /\ i \in DOMAIN body.items
           /\ i \in Nat /\ Len(body.items) \in Nat
           /\ Item(i).id \in {"none", "ok", "bad"} /\ Item(i).uuid \in Uuids
<1>1. body \in Bodies /\ i \in 0..Len(body.items) /\ i > 0
  BY DEF TypeInv, TypeOK, RequestTypeOK, PlaceCore
<1>2. /\ Len(body.items) \in Nat /\ DOMAIN body.items = 1..Len(body.items)
      /\ \A n \in DOMAIN body.items :
           /\ body.items[n].id \in {"none", "ok", "bad"}
           /\ body.items[n].uuid \in Uuids
  BY <1>1, BodyTyped
<1>3. i \in DOMAIN body.items
  BY <1>1, <1>2
<1> QED
  BY <1>1, <1>2, <1>3 DEF Item

\* A refused body is never at an item.
LEMMA Underway ==
    ASSUME TypeInv,
           pc \in {"item", "lookup", "params", "reader", "meet", "call", "close",
                   "answer"}
    PROVE  BodyFault = 0
<1>1. PlaceCore
  BY DEF TypeInv
<1> QED
  BY <1>1 DEF PlaceCore

\* No step changes the body, or what is derived from it alone.
LEMMA BodyKept ==
    ASSUME [Next]_vars
    PROVE  /\ body' = body /\ BodyFault' = BodyFault /\ Batch' = Batch
           /\ Answers' = Answers
<1>1. body' = body
  BY DEF Next, vars, reqVars, postVars, Handler, CheckBody, CheckId, Lookup,
     Params, CallPanics, CallReturns, WriteLead, WriteAnswer, Close,
     DecoderLooks, DecoderGivesUp, Meet, ClientReads, ClientGone, PostArrives,
     Consume, PostAnswered, PostGivesUp
<1> QED
  BY <1>1 DEF BodyFault, Batch, Answers

\* The table of readers does not notice what the handler does elsewhere.
LEMMA ReadersKept ==
    ASSUME TypeInv, [Next]_vars, UNCHANGED postVars,
           pc' # "meet" \/ (pc' = pc /\ i' = i)
    PROVE  ReaderTypeOK' /\ ChannelCore'
<1>1. ReaderTypeOK /\ ChannelCore /\ body' = body
  BY BodyKept DEF TypeInv, TypeOK
<1>2. ReaderTypeOK'
  BY <1>1 DEF ReaderTypeOK, postVars
<1>3. Made' = Made
  BY DEF Made, postVars
<1>4. ChannelCore'
  BY <1>1, <1>3 DEF ChannelCore, postVars, Item, Decoder
<1> QED
  BY <1>2, <1>4

\* rpcError: what it leaves behind.
LEMMA RefuseTypes ==
    ASSUME TypeInv, BodyFault = 0, pc # "body", body' = body,
           NEW code \in Int, NEW named \in BOOLEAN, Refuse(code, named)
    PROVE  /\ pc' = "write" /\ pend' = Answer("refusal", i, named, code)
           /\ pend' \in Answers /\ pend'.n = i /\ IsAnswer(pend')
           /\ fate' = [fate EXCEPT ![i] = "refused"]
           /\ fate' \in [DOMAIN body.items ->
                {"none", "silent", "result", "refused", "unencodable"} \cup ErrTypes]
<1>1. i \in DOMAIN body.items /\ i \in 0..Len(body.items)
  BY AtItem
<1>2. fate \in [DOMAIN body.items ->
                 {"none", "silent", "result", "refused", "unencodable"} \cup ErrTypes]
  BY DEF TypeInv, TypeOK, RequestTypeOK
<1>3. /\ pc' = "write" /\ pend' = Answer("refusal", i, named, code)
      /\ fate' = [fate EXCEPT ![i] = "refused"]
  BY DEF Refuse
<1>4. pend' \in Answers
  BY <1>1, <1>3 DEF Answers, Answer
<1>5. pend'.n = i /\ pend'.k = "refusal"
  BY <1>3 DEF Answer
<1>6. fate' \in [DOMAIN body.items ->
                 {"none", "silent", "result", "refused", "unencodable"} \cup ErrTypes]
  BY <1>2, <1>3
<1> QED
  BY <1>3, <1>4, <1>5, <1>6 DEF IsAnswer

\* The handler goes on to the next item, or to the end.
LEMMA NextItemTypes ==
    ASSUME TypeInv, BodyFault = 0, pc # "body", NextItem
    PROVE  \/ pc' = "item" /\ i' = i + 1 /\ i < Len(body.items)
           \/ pc' = "close" /\ i' = i /\ i = Len(body.items)
<1>1. i \in 1..Len(body.items) /\ Len(body.items) \in Nat
  BY AtItem
<1> QED
  BY <1>1 DEF NextItem

\* What remains to be shown of the steps of the handler.
LEMMA PlaceKept ==
    ASSUME TypeInv, [Next]_vars, pc' # "body",
           pc' \in {"write", "answer"} => pend'.n = i' /\ IsAnswer(pend'),
           BodyFault # 0 => i' = 0 /\ pc' \in {"write", "done"},
           BodyFault = 0 => i' > 0,
           pc' = "answer" => Batch /\ pend'.n # 0
    PROVE  PlaceCore'
<1>1. BodyFault' = BodyFault /\ Batch' = Batch /\ Answers' = Answers
  BY BodyKept
<1> QED
  BY <1>1 DEF PlaceCore, InBatch

LEMMA RequestKept ==
    ASSUME TypeInv, [Next]_vars,
           pc' \in {"body", "item", "lookup", "params", "reader", "meet", "call",
                    "write", "answer", "close", "done"},
           i' \in 0..Len(body.items), BodyFault = 0 /\ pc' # "body" => i' > 0,
           BodyFault # 0 => pc' \in {"body", "write", "done"},
           pend' \in Answers, out' \in Seq(Answers),
           status' \in {0, 200, 400, 500}, wrote' \in BOOLEAN, gone' \in BOOLEAN,
           seen' \in {"unread", "nothing", "result", "JSONRPCError",
                      "ErrClient"} \cup ErrTypes,
           fate' \in [DOMAIN body.items ->
             {"none", "silent", "result", "refused", "unencodable"} \cup ErrTypes]
    PROVE  RequestTypeOK'
<1>1. body' = body /\ Answers' = Answers /\ body \in Bodies
  BY BodyKept DEF TypeInv, TypeOK, RequestTypeOK
<1>2. (pc \in {"item", "lookup", "params", "reader", "meet", "call", "close"} => i > 0)'
  OBVIOUS
<1>3. (i \in 0..Len(body.items))'
  BY <1>1
<1>4. (fate \in [DOMAIN body.items ->
         {"none", "silent", "result", "refused", "unencodable"} \cup ErrTypes])'
  BY <1>1
<1>5. (body \in Bodies /\ pend \in Answers /\ out \in Seq(Answers))'
  BY <1>1
<1> QED
  BY <1>2, <1>3, <1>4, <1>5 DEF RequestTypeOK

\* An answer and its fields.
LEMMA AnswerTyped ==
    ASSUME body \in Bodies,
           NEW kind \in {"result", "error", "refusal", "open", "comma", "close", "none"},
           NEW n \in 0..Len(body.items), NEW named \in BOOLEAN, NEW code \in Int
    PROVE  /\ Answer(kind, n, named, code) \in Answers
           /\ Answer(kind, n, named, code).k = kind
           /\ Answer(kind, n, named, code).n = n
           /\ Answer(kind, n, named, code).named = named
           /\ Answer(kind, n, named, code).code = code
  BY DEF Answer, Answers

LEMMA TokenTyped ==
    ASSUME body \in Bodies, NEW kind \in {"open", "comma", "close"}
    PROVE  Token(kind) \in Answers /\ Token(kind).k = kind
<1>1. Len(body.items) \in Nat
  BY BodyTyped
<1>2. 0 \in 0..Len(body.items)
  BY <1>1
<1> QED
  BY <1>2 DEF Token, Answer, Answers

\* The steps of the handler of the request and of its client keep the types
\* of the request.
LEMMA RequestStep ==
    ASSUME TypeInv, [Next]_vars
    PROVE  RequestTypeOK' /\ PlaceCore'
<1>1. /\ RequestTypeOK /\ PlaceCore
      /\ body' = body /\ BodyFault' = BodyFault /\ Batch' = Batch
      /\ Answers' = Answers
  BY BodyKept DEF TypeInv, TypeOK, PlaceCore
<1>2. /\ Len(body.items) \in Nat /\ DOMAIN body.items = 1..Len(body.items)
      /\ BodyFault = 0 => Len(body.items) >= 1
      /\ BodyFault \in {0, ParseError, InvalidRequest}
  BY <1>1, BodyTyped DEF RequestTypeOK
<1>a. BodyFault \in Int
  BY <1>2 DEF ParseError, InvalidRequest
<1>b. /\ body \in Bodies
      /\ pc \in {"body", "item", "lookup", "params", "reader", "meet", "call",
                 "write", "answer", "close", "done"}
      /\ i \in 0..Len(body.items) /\ pend \in Answers /\ out \in Seq(Answers)
      /\ status \in {0, 200, 400, 500} /\ wrote \in BOOLEAN /\ gone \in BOOLEAN
      /\ seen \in {"unread", "nothing", "result", "JSONRPCError",
                   "ErrClient"} \cup ErrTypes
      /\ fate \in [DOMAIN body.items ->
           {"none", "silent", "result", "refused", "unencodable"} \cup ErrTypes]
      /\ BodyFault # 0 => i = 0 /\ pc \in {"body", "write", "done"}
      /\ BodyFault = 0 /\ pc # "body" => i > 0
  BY <1>1 DEF RequestTypeOK, PlaceCore
<1>3. ASSUME UNCHANGED reqVars
      PROVE  RequestTypeOK' /\ PlaceCore'
  <2>1. InBatch' = InBatch
    BY <1>1, <1>3 DEF reqVars, InBatch
  <2> QED
    BY <1>1, <1>b, <1>3, <2>1, RequestKept DEF reqVars, PlaceCore, IsAnswer
<1>4. ASSUME CheckBody
      PROVE  RequestTypeOK' /\ PlaceCore'
  <2>1. pc = "body" /\ i = 0
    BY <1>1, <1>4 DEF CheckBody, PlaceCore
  <2>2. CASE BodyFault # 0
    <3>1. PICK named \in {FALSE, body.shape = "garbled"} :
            pend' = Answer("refusal", 0, named, BodyFault)
      BY <1>4, <2>2 DEF CheckBody
    <3>2. pend' \in Answers /\ pend'.n = 0 /\ IsAnswer(pend')
      <4>1. named \in BOOLEAN
        BY Zenon
      <4>2. 0 \in 0..Len(body.items)
        BY <1>2
      <4> QED
        BY <1>a, <1>b, <3>1, <4>1, <4>2, AnswerTyped DEF IsAnswer
    <3>3. pc' = "write" /\ UNCHANGED <<body, i, status, out, wrote, gone, seen, fate>>
      BY <1>4, <2>2 DEF CheckBody
    <3>4. PlaceCore'
      BY <1>1, <2>1, <2>2, <3>2, <3>3, PlaceKept
    <3>5. RequestTypeOK'
      BY <1>1, <2>2, <3>2, <3>3, <1>b, RequestKept
    <3> QED
      BY <3>4, <3>5
  <2>3. CASE BodyFault = 0
    <3>1. pc' = "item" /\ i' = 1
          /\ UNCHANGED <<body, pend, status, out, wrote, gone, seen, fate>>
      BY <1>4, <2>3 DEF CheckBody
    <3>2. i' \in 0..Len(body.items) /\ i' > 0
      BY <1>2, <2>3, <3>1
    <3>3. PlaceCore'
      BY <1>1, <2>3, <3>1, <3>2, PlaceKept
    <3>4. RequestTypeOK'
      BY <1>1, <2>3, <3>1, <3>2, <1>b, RequestKept
    <3> QED
      BY <3>3, <3>4
  <2> QED
    BY <2>2, <2>3
<1>5. ASSUME BodyFault = 0, pc # "body",
             NEW code \in Int, NEW named \in BOOLEAN, Refuse(code, named),
             UNCHANGED <<i, status, out, wrote, gone, seen>>
      PROVE  RequestTypeOK' /\ PlaceCore'
  <2>1. /\ pc' = "write" /\ pend' \in Answers /\ pend'.n = i /\ IsAnswer(pend')
        /\ fate' \in [DOMAIN body.items ->
             {"none", "silent", "result", "refused", "unencodable"} \cup ErrTypes]
    BY <1>1, <1>5, RefuseTypes
  <2>2. i > 0
    BY <1>1, <1>5 DEF PlaceCore
  <2>3. PlaceCore'
    BY <1>1, <1>5, <2>1, <2>2, PlaceKept
  <2>4. RequestTypeOK'
    BY <1>1, <1>5, <2>1, <1>b, RequestKept
  <2> QED
    BY <2>3, <2>4
<1>6. ASSUME BodyFault = 0, pc # "body",
             pc' \in {"lookup", "params", "reader", "meet", "call"},
             UNCHANGED <<i, pend, status, out, wrote, gone, seen, fate>>
      PROVE  RequestTypeOK' /\ PlaceCore'
  <2>1. i > 0
    BY <1>1, <1>6 DEF PlaceCore
  <2>2. PlaceCore'
    BY <1>1, <1>6, <2>1, PlaceKept
  <2>3. RequestTypeOK'
    BY <1>1, <1>6, <2>1, <1>b, RequestKept
  <2> QED
    BY <2>2, <2>3
<1>7. HasId \in BOOLEAN
  BY DEF HasId
<1>8. ASSUME CheckId
      PROVE  RequestTypeOK' /\ PlaceCore'
  <2>1. BodyFault = 0 /\ pc # "body"
    BY <1>8, Underway DEF CheckId
  <2>2. CASE Refuse(ParseError, FALSE)
    <3>1. ParseError \in Int /\ UNCHANGED <<i, status, out, wrote, gone, seen>>
      BY <1>8 DEF CheckId, ParseError
    <3>2. FALSE \in BOOLEAN
      OBVIOUS
    <3> QED
      BY <1>5, <2>1, <2>2, <3>1, <3>2, Zenon
  <2>3. CASE pc' = "lookup" /\ UNCHANGED <<pend, fate>>
    BY <1>6, <1>8, <2>1, <2>3 DEF CheckId
  <2> QED
    BY <1>8, <2>2, <2>3 DEF CheckId
<1>9. ASSUME Lookup
      PROVE  RequestTypeOK' /\ PlaceCore'
  <2>1. BodyFault = 0 /\ pc # "body"
    BY <1>9, Underway DEF Lookup
  <2>2. CASE Refuse(MethodNotFound, HasId)
    BY <1>5, <1>7, <1>9, <2>1, <2>2 DEF Lookup, MethodNotFound
  <2>3. CASE pc' = "params" /\ UNCHANGED <<pend, fate>>
    BY <1>6, <1>9, <2>1, <2>3 DEF Lookup
  <2> QED
    BY <1>9, <2>2, <2>3 DEF Lookup
<1>10. ASSUME Params
       PROVE  RequestTypeOK' /\ PlaceCore'
  <2>1. BodyFault = 0 /\ pc # "body"
    BY <1>10, Underway DEF Params
  <2>2. ASSUME NEW code \in {ParseError, InvalidParams}, Refuse(code, HasId)
        PROVE  RequestTypeOK' /\ PlaceCore'
    <3>1. code \in Int
      BY DEF ParseError, InvalidParams
    <3> QED
      BY <1>5, <1>7, <1>10, <2>1, <2>2, <3>1 DEF Params
  <2>3. CASE pc' \in {"reader", "call"} /\ UNCHANGED <<pend, fate>>
    BY <1>6, <1>10, <2>1, <2>3 DEF Params
  <2> QED
    BY <1>10, <2>2, <2>3 DEF Params
<1>11. ASSUME CallPanics
       PROVE  RequestTypeOK' /\ PlaceCore'
  <2>1. BodyFault = 0 /\ pc # "body"
    BY <1>11, Underway DEF CallPanics
  <2> QED
    BY <1>5, <1>7, <1>11, <2>1 DEF CallPanics
<1>12. ASSUME DecoderGivesUp
       PROVE  RequestTypeOK' /\ PlaceCore'
  <2>1. BodyFault = 0 /\ pc # "body"
    BY <1>12, Underway DEF DecoderGivesUp
  <2> QED
    BY <1>5, <1>7, <1>12, <2>1 DEF DecoderGivesUp, ParseError
<1>13. ASSUME DecoderLooks
       PROVE  RequestTypeOK' /\ PlaceCore'
  <2>1. BodyFault = 0 /\ pc # "body"
    BY <1>13, Underway DEF DecoderLooks
  <2> QED
    BY <1>6, <1>13, <2>1 DEF DecoderLooks
<1>14. ASSUME NEW p \in Posts, Meet(p)
       PROVE  RequestTypeOK' /\ PlaceCore'
  <2>1. BodyFault = 0 /\ pc # "body"
    BY <1>14, Underway DEF Meet
  <2> QED
    BY <1>6, <1>14, <2>1 DEF Meet
<1>15. ASSUME BodyFault = 0, pc # "body", NextItem,
              UNCHANGED <<pend, gone, seen>>, out' \in Seq(Answers),
              status' \in {0, 200, 400, 500}, wrote' \in BOOLEAN,
              fate' \in [DOMAIN body.items ->
                {"none", "silent", "result", "refused", "unencodable"} \cup ErrTypes]
       PROVE  RequestTypeOK' /\ PlaceCore'
  <2>1. i \in 1..Len(body.items)
    BY <1>15, AtItem
  <2>2. pc' \in {"item", "close"} /\ i' \in 1..Len(body.items)
    BY <1>2, <1>15, <2>1, NextItemTypes
  <2>3. PlaceCore'
    BY <1>1, <1>2, <1>15, <2>2, PlaceKept
  <2>4. i' \in 0..Len(body.items) /\ i' > 0
    BY <1>2, <2>2
  <2>5. RequestTypeOK'
    BY <1>1, <1>15, <2>2, <2>4, <1>b, RequestKept
  <2> QED
    BY <2>3, <2>5
<1>16. ASSUME CallReturns
       PROVE  RequestTypeOK' /\ PlaceCore'
  <2>1. /\ BodyFault = 0 /\ pc # "body"
        /\ UNCHANGED <<status, out, wrote, gone, seen>>
    BY <1>16, Underway DEF CallReturns
  <2>2. i \in DOMAIN body.items /\ i \in 0..Len(body.items) /\ i > 0
    BY <1>2, <2>1, AtItem
  <2>3. ASSUME NEW f \in {"silent", "result", "unencodable"} \cup ErrTypes
        PROVE  [fate EXCEPT ![i] = f] \in [DOMAIN body.items ->
                 {"none", "silent", "result", "refused", "unencodable"} \cup ErrTypes]
    BY <1>b, <1>1, <2>2
  <2>4. ASSUME NEW f \in {"silent", "unencodable"}, fate' = [fate EXCEPT ![i] = f],
               NextItem, UNCHANGED pend
        PROVE  RequestTypeOK' /\ PlaceCore'
    <3>1. fate' \in [DOMAIN body.items ->
                 {"none", "silent", "result", "refused", "unencodable"} \cup ErrTypes]
      BY <2>3, <2>4
    <3> QED
      BY <1>b, <1>1, <1>15, <2>1, <2>4, <3>1
  <2>5. ASSUME NEW kind \in {"result", "error"}, NEW code \in Int,
               NEW f \in {"result"} \cup ErrTypes,
               pend' = Answer(kind, i, HasId, code),
               fate' = [fate EXCEPT ![i] = f], pc' = "write", UNCHANGED i
        PROVE  RequestTypeOK' /\ PlaceCore'
    <3>1. fate' \in [DOMAIN body.items ->
                 {"none", "silent", "result", "refused", "unencodable"} \cup ErrTypes]
      BY <2>3, <2>5
    <3>2. pend' \in Answers /\ pend'.n = i /\ IsAnswer(pend')
      BY <1>b, <1>7, <2>2, <2>5, AnswerTyped DEF IsAnswer
    <3>3. PlaceCore'
      BY <1>1, <2>1, <2>2, <2>5, <3>2, PlaceKept
    <3>4. RequestTypeOK'
      BY <1>1, <2>1, <2>5, <3>1, <3>2, <1>b, RequestKept
    <3> QED
      BY <3>3, <3>4
  <2>6. CASE /\ pend' = Answer("result", i, HasId, 0)
             /\ fate' = [fate EXCEPT ![i] = "result"]
             /\ pc' = "write" /\ UNCHANGED i
    <3>1. 0 \in Int
      OBVIOUS
    <3> QED
      BY <2>5, <2>6, <3>1
  <2>7. CASE /\ \E t \in ErrTypes :
                  /\ pend' = Answer("error", i, HasId, CodeOf(t))
                  /\ fate' = [fate EXCEPT ![i] = t]
             /\ pc' = "write" /\ UNCHANGED i
    <3>1. PICK t \in ErrTypes : /\ pend' = Answer("error", i, HasId, CodeOf(t))
                                /\ fate' = [fate EXCEPT ![i] = t]
      BY <2>7
    <3>2. CodeOf(t) \in Int
      BY CodeIsRegistered
    <3> QED
      BY <2>5, <2>7, <3>1, <3>2
  <2>8. CASE Refuse(0, HasId) /\ UNCHANGED i
    BY <1>5, <1>7, <2>1, <2>8
  <2> QED
    BY <1>16, <2>4, <2>6, <2>7, <2>8 DEF CallReturns
<1>17. ASSUME NEW a \in Answers, out' = Append(out, a)
       PROVE  out' \in Seq(Answers)
  BY <1>b, <1>17, AppendProperties
<1>18. ASSUME NEW t \in {"open", "comma", "close"}
       PROVE  Token(t) \in Answers
  BY <1>b, TokenTyped
<1>19. ASSUME WriteLead
       PROVE  RequestTypeOK' /\ PlaceCore'
  <2>1. pc = "write" /\ InBatch /\ pend.n = i /\ IsAnswer(pend)
        /\ UNCHANGED <<pend, gone, seen, fate>>
    BY <1>1, <1>19 DEF WriteLead, PlaceCore
  <2>2. BodyFault = 0 /\ i > 0
    BY <1>1, <2>1 DEF PlaceCore, InBatch
  <2>3. CASE gone
    BY <1>b, <1>15, <1>19, <2>1, <2>2, <2>3 DEF WriteLead
  <2>4. CASE ~gone
    <3>1. /\ out' = Append(out, Lead) /\ wrote' = TRUE /\ status' = 200
          /\ pc' = "answer" /\ UNCHANGED i
      BY <1>19, <2>4 DEF WriteLead
    <3>2. Lead \in Answers
      BY <1>18 DEF Lead
    <3>3. out' \in Seq(Answers)
      BY <1>17, <3>1, <3>2
    <3>4. IsAnswer(pend') /\ pend'.n = i' /\ Batch /\ pend'.n # 0
      BY <2>1, <2>2, <3>1 DEF InBatch, IsAnswer
    <3>5. PlaceCore'
      BY <1>1, <2>2, <3>1, <3>3, <3>4, PlaceKept
    <3>6. wrote' \in BOOLEAN
      BY <3>1
    <3>7. RequestTypeOK'
      BY <1>1, <2>1, <2>2, <3>1, <3>3, <3>6, <1>b, RequestKept
    <3> QED
      BY <3>5, <3>7
  <2> QED
    BY <2>3, <2>4
<1>20. ASSUME WriteAnswer
       PROVE  RequestTypeOK' /\ PlaceCore'
  <2>1. /\ pc \in {"answer", "write"} /\ pend \in Answers
        /\ UNCHANGED <<pend, wrote, gone, seen, fate>>
    BY <1>b, <1>20 DEF WriteAnswer
  <2>2. /\ out' \in Seq(Answers)
        /\ status' \in {0, 200, 400, 500}
    <3>1. CASE gone
      BY <1>b, <1>20, <3>1 DEF WriteAnswer
    <3>2. CASE ~gone
      BY <1>17, <1>20, <2>1, <3>2 DEF WriteAnswer, StatusFor
    <3> QED
      BY <3>1, <3>2
  <2>3. CASE InBatch
    <3>1. BodyFault = 0 /\ NextItem
      BY <1>1, <1>20, <2>1, <2>3 DEF PlaceCore, InBatch, WriteAnswer
    <3> QED
      BY <1>b, <1>1, <1>15, <2>1, <2>2, <3>1
  <2>4. CASE ~InBatch
    <3>1. pc' = "done" /\ UNCHANGED i
      BY <1>20, <2>4 DEF WriteAnswer
    <3>2. (BodyFault # 0 => i' = 0) /\ (BodyFault = 0 => i' > 0)
      BY <1>1, <2>1, <3>1 DEF PlaceCore
    <3>3. PlaceCore'
      BY <1>1, <2>2, <3>1, <3>2, PlaceKept
    <3>4. RequestTypeOK'
      BY <1>1, <2>1, <2>2, <3>1, <1>b, RequestKept
    <3> QED
      BY <3>3, <3>4
  <2> QED
    BY <2>3, <2>4
<1>21. ASSUME Close
       PROVE  RequestTypeOK' /\ PlaceCore'
  <2>1. /\ BodyFault = 0 /\ pc # "body" /\ pc' = "done" /\ status' = 200
        /\ UNCHANGED <<i, pend, wrote, gone, seen, fate>>
    BY <1>21, Underway DEF Close
  <2>2. out' \in Seq(Answers)
    <3>1. CASE out' = out
      BY <1>b, <1>1, <3>1
    <3>2. CASE out' = Append(out, Token("close"))
      BY <1>17, <1>18, <3>2
    <3> QED
      BY <1>21, <3>1, <3>2 DEF Close
  <2>3. i > 0
    BY <1>1, <2>1 DEF PlaceCore
  <2>4. PlaceCore'
    BY <1>1, <2>1, <2>2, <2>3, PlaceKept
  <2>5. RequestTypeOK'
    BY <1>1, <2>1, <2>2, <1>b, RequestKept
  <2> QED
    BY <2>4, <2>5
<1>22. ASSUME UNCHANGED <<pc, i, pend, status, out, wrote, fate>>,
              gone' \in BOOLEAN,
              seen' \in {"unread", "nothing", "result", "JSONRPCError",
                         "ErrClient"} \cup ErrTypes
       PROVE  RequestTypeOK' /\ PlaceCore'
  <2>1. InBatch' = InBatch
    BY <1>1, <1>22 DEF InBatch
  <2>2. PlaceCore'
    BY <1>1, <1>22, <2>1 DEF PlaceCore, IsAnswer
  <2>3. RequestTypeOK'
    BY <1>1, <1>22, <1>b, RequestKept
  <2> QED
    BY <2>2, <2>3
<1>23. ASSUME ClientReads
       PROVE  RequestTypeOK' /\ PlaceCore'
  <2>1. seen' \in Returns
    BY <1>23 DEF ClientReads
  <2>2. Returns \subseteq {"nothing", "result", "JSONRPCError", "ErrClient"}
                          \cup ErrTypes
    <3>1. CASE out # <<>>
      <4>1. Head(out) = out[1] /\ 1 \in DOMAIN out
        BY <1>b, <3>1, EmptySeq, LenProperties
      <4>2. Head(out).code \in Int
        <5>1. 1 \in 1..Len(out)
          BY <1>b, <4>1
        <5>2. out[1] \in Answers
          BY <1>b, <5>1, ElementOfSeq
        <5> QED
          BY <4>1, <5>2 DEF Answers
      <4> QED
        BY <4>2, TypesOfCode DEF Returns
    <3>2. CASE out = <<>>
      BY <3>2 DEF Returns
    <3> QED
      BY <3>1, <3>2
  <2> QED
    BY <1>b, <1>22, <1>23, <2>1, <2>2 DEF ClientReads
<1>24. ASSUME ClientGone
       PROVE  RequestTypeOK' /\ PlaceCore'
  BY <1>b, <1>22, <1>24 DEF ClientGone
<1> QED
  BY <1>3, <1>4, <1>8, <1>9, <1>10, <1>11, <1>12, <1>13, <1>14, <1>16, <1>19,
     <1>20, <1>21, <1>23, <1>24
  DEF Next, Handler, vars, PostArrives, Consume, PostAnswered, PostGivesUp

\* The steps of POSTs and of the decoder keep the table of readers.
LEMMA ReaderStep ==
    ASSUME TypeInv, [Next]_vars
    PROVE  ReaderTypeOK' /\ ChannelCore'
<1>1. /\ ReaderTypeOK /\ ChannelCore /\ body' = body
      /\ uuid \in [Posts -> Uuids] /\ NoPost \notin Posts
  BY BodyKept, HttpCallAssumption DEF TypeInv, TypeOK
<1>2. /\ nch \in 0..Cardinality(Uuids)
      /\ readers \in [Uuids -> 0..nch] /\ ch \in [Posts \cup {Decoder} -> 0..nch]
      /\ post \in [Posts -> {"idle", "offer", "wait", "ok", "failed"}]
      /\ taken \in [Posts -> 0..Len(body.items)]
      /\ consumed \subseteq {p \in Posts : taken[p] # 0}
  BY <1>1 DEF ReaderTypeOK
<1>3. Cardinality(Uuids) \in Nat /\ Decoder \notin Posts
  BY <1>1, HttpCallAssumption, FS_CardinalityType DEF Decoder
<1>4. \A p \in Posts :
        post[p] = "offer" => ch[p] # 0 /\ ch[p] = readers[uuid[p]]
  BY <1>1 DEF ChannelCore
<1>5. ASSUME UNCHANGED postVars, pc' # "meet" \/ (pc' = pc /\ i' = i)
      PROVE  ReaderTypeOK' /\ ChannelCore'
  BY <1>5, ReadersKept
\* readers and nch are as they were, or have the channel of u.
<1>6. ASSUME NEW u \in Uuids, NEW side \in Posts \cup {Decoder}, ChannelKept(u),
             ch' = [ch EXCEPT ![side] = ChannelOf(u)]
      PROVE  /\ nch' \in 0..Cardinality(Uuids)
             /\ readers' \in [Uuids -> 0..nch']
             /\ ch' \in [Posts \cup {Decoder} -> 0..nch']
             /\ nch' = Cardinality(Made')
             /\ \A u1, u2 \in Made' : readers'[u1] = readers'[u2] => u1 = u2
             /\ ch'[side] # 0 /\ ch'[side] = readers'[u]
             /\ \A other \in Posts \cup {Decoder} : other # side => ch'[other] = ch[other]
             /\ \A v \in Uuids : readers[v] # 0 => readers'[v] = readers[v]
  <2>1. /\ nch' \in 0..Cardinality(Uuids) /\ nch <= nch'
        /\ readers' \in [Uuids -> 0..nch']
        /\ nch' = Cardinality(Made')
        /\ \A u1, u2 \in Made' : readers'[u1] = readers'[u2] => u1 = u2
        /\ ChannelOf(u) \in 1..nch' /\ readers'[u] = ChannelOf(u)
        /\ \A v \in Uuids : readers[v] # 0 => readers'[v] = readers[v]
    BY <1>6, ChannelMade
  <2>2. nch' \in Nat /\ nch \in Nat
    BY <1>2, <1>3, <2>1
  <2>3. \A other \in Posts \cup {Decoder} : ch[other] \in 0..nch'
    BY <1>2, <2>1, <2>2
  <2>4. ch' \in [Posts \cup {Decoder} -> 0..nch']
    BY <1>2, <1>6, <2>1, <2>2, <2>3
  <2>5. ch'[side] = ChannelOf(u) /\ ChannelOf(u) # 0
    BY <1>2, <1>6, <2>1, <2>2
  <2>6. \A other \in Posts \cup {Decoder} : other # side => ch'[other] = ch[other]
    BY <1>2, <1>6
  <2> QED
    BY <2>1, <2>4, <2>5, <2>6
<1>7. ASSUME NEW p \in Posts, PostArrives(p)
      PROVE  ReaderTypeOK' /\ ChannelCore'
  <2>1. /\ post' = [post EXCEPT ![p] = "offer"]
        /\ ch' = [ch EXCEPT ![p] = ChannelOf(uuid[p])] /\ ChannelKept(uuid[p])
        /\ UNCHANGED <<pc, i, consumed, taken>>
    BY <1>7 DEF PostArrives, reqVars
  <2>2. uuid[p] \in Uuids
    BY <1>1
  <2>3. /\ nch' \in 0..Cardinality(Uuids)
        /\ readers' \in [Uuids -> 0..nch']
        /\ ch' \in [Posts \cup {Decoder} -> 0..nch']
        /\ nch' = Cardinality(Made')
        /\ \A u1, u2 \in Made' : readers'[u1] = readers'[u2] => u1 = u2
        /\ ch'[p] # 0 /\ ch'[p] = readers'[uuid[p]]
        /\ \A other \in Posts \cup {Decoder} : other # p => ch'[other] = ch[other]
        /\ \A v \in Uuids : readers[v] # 0 => readers'[v] = readers[v]
    BY <1>6, <2>1, <2>2
  <2>4. ReaderTypeOK'
    BY <1>1, <1>2, <2>1, <2>3 DEF ReaderTypeOK
  <2>5. ASSUME NEW q \in Posts, post'[q] = "offer"
        PROVE  ch'[q] # 0 /\ ch'[q] = readers'[uuid[q]]
    <3>1. CASE q = p
      BY <2>3, <3>1
    <3>2. CASE q # p
      <4>1. post[q] = "offer" /\ ch'[q] = ch[q] /\ uuid[q] \in Uuids
        BY <1>1, <1>2, <2>1, <2>3, <2>5, <3>2
      <4> QED
        BY <1>4, <2>3, <4>1
    <3> QED
      BY <3>1, <3>2
  <2>6. ASSUME pc' = "meet"
        PROVE  ch'[Decoder] # 0 /\ ch'[Decoder] = readers'[body'.items[i'].uuid]
    <3>1. pc = "meet" /\ pc # "body"
      BY <2>1, <2>6
    <3>2. ch[Decoder] # 0 /\ ch[Decoder] = readers[Item(i).uuid]
      BY <1>1, <3>1 DEF ChannelCore
    <3>3. Item(i).uuid \in Uuids
      BY <3>1, Underway, AtItem
    <3>4. ch'[Decoder] = ch[Decoder]
      BY <1>3, <2>3
    <3> QED
      BY <1>1, <2>1, <2>3, <3>2, <3>3, <3>4 DEF Item
  <2>7. ChannelCore'
    BY <2>3, <2>5, <2>6 DEF ChannelCore, Item
  <2> QED
    BY <2>4, <2>7
<1>8. ASSUME DecoderLooks
      PROVE  ReaderTypeOK' /\ ChannelCore'
  <2>1. /\ pc = "reader" /\ pc # "body"
        /\ ch' = [ch EXCEPT ![Decoder] = ChannelOf(Item(i).uuid)]
        /\ ChannelKept(Item(i).uuid)
        /\ UNCHANGED <<i, post, consumed, taken>>
    BY <1>8 DEF DecoderLooks
  <2>2. Item(i).uuid \in Uuids
    BY <2>1, Underway, AtItem
  <2>3. /\ nch' \in 0..Cardinality(Uuids)
        /\ readers' \in [Uuids -> 0..nch']
        /\ ch' \in [Posts \cup {Decoder} -> 0..nch']
        /\ nch' = Cardinality(Made')
        /\ \A u1, u2 \in Made' : readers'[u1] = readers'[u2] => u1 = u2
        /\ ch'[Decoder] # 0 /\ ch'[Decoder] = readers'[Item(i).uuid]
        /\ \A other \in Posts \cup {Decoder} : other # Decoder => ch'[other] = ch[other]
        /\ \A v \in Uuids : readers[v] # 0 => readers'[v] = readers[v]
    BY <1>6, <2>1, <2>2
  <2>4. ReaderTypeOK'
    BY <1>1, <1>2, <2>1, <2>3 DEF ReaderTypeOK
  <2>5. ASSUME NEW q \in Posts, post'[q] = "offer"
        PROVE  ch'[q] # 0 /\ ch'[q] = readers'[uuid[q]]
    <3>1. post[q] = "offer" /\ ch'[q] = ch[q] /\ uuid[q] \in Uuids
      BY <1>1, <1>3, <2>1, <2>3, <2>5
    <3> QED
      BY <1>4, <2>3, <3>1
  <2>6. Item(i)' = Item(i)
    BY <1>1, <2>1 DEF Item
  <2>7. ChannelCore'
    BY <2>1, <2>3, <2>5, <2>6 DEF ChannelCore, Item
  <2> QED
    BY <2>4, <2>7
\* The others change only post, taken, consumed.
<1>9. ASSUME UNCHANGED <<readers, nch, ch>>,
             pc' # "meet" \/ (pc' = pc /\ i' = i),
             post' \in [Posts -> {"idle", "offer", "wait", "ok", "failed"}],
             \A q \in Posts : post'[q] = "offer" => post[q] = "offer",
             taken' \in [Posts -> 0..Len(body.items)],
             consumed' \subseteq {q \in Posts : taken'[q] # 0}
      PROVE  ReaderTypeOK' /\ ChannelCore'
  <2>1. ReaderTypeOK'
    BY <1>1, <1>2, <1>9 DEF ReaderTypeOK
  <2>2. Made' = Made
    BY <1>9 DEF Made
  <2>3. (pc = "meet" => ch[Decoder] # 0 /\ ch[Decoder] = readers[Item(i).uuid])'
    BY <1>1, <1>9 DEF ChannelCore, Item, Decoder
  <2>4. ChannelCore'
    BY <1>1, <1>9, <2>2, <2>3 DEF ChannelCore
  <2> QED
    BY <2>1, <2>4
<1>10. ASSUME NEW p \in Posts, Meet(p)
       PROVE  ReaderTypeOK' /\ ChannelCore'
  <2>1. /\ pc = "meet" /\ pc # "body" /\ pc' = "call"
        /\ taken' = [taken EXCEPT ![p] = i] /\ post' = [post EXCEPT ![p] = "wait"]
        /\ UNCHANGED <<readers, nch, ch, consumed>>
    BY <1>10 DEF Meet
  <2>2. i \in 0..Len(body.items) /\ i # 0
    BY <2>1, Underway, AtItem
  <2>3. taken' \in [Posts -> 0..Len(body.items)]
        /\ consumed' \subseteq {q \in Posts : taken'[q] # 0}
    BY <1>2, <2>1, <2>2
  <2>4. post' \in [Posts -> {"idle", "offer", "wait", "ok", "failed"}]
        /\ \A q \in Posts : post'[q] = "offer" => post[q] = "offer"
    BY <1>2, <2>1
  <2> QED
    BY <1>9, <2>1, <2>3, <2>4
<1>11. ASSUME NEW p \in Posts, Consume(p)
       PROVE  ReaderTypeOK' /\ ChannelCore'
  BY <1>2, <1>9, <1>11 DEF Consume, reqVars
<1>12. ASSUME NEW p \in Posts, PostAnswered(p) \/ PostGivesUp(p)
       PROVE  ReaderTypeOK' /\ ChannelCore'
  <2>1. /\ UNCHANGED <<pc, i, readers, nch, ch, consumed, taken>>
        /\ \E answer \in {"ok", "failed"} : post' = [post EXCEPT ![p] = answer]
    BY <1>12 DEF PostAnswered, PostGivesUp, reqVars
  <2>2. post' \in [Posts -> {"idle", "offer", "wait", "ok", "failed"}]
        /\ \A q \in Posts : post'[q] = "offer" => post[q] = "offer"
    BY <1>2, <2>1
  <2> QED
    BY <1>2, <1>9, <2>1, <2>2
<1>13. ASSUME CheckBody \/ CheckId \/ Lookup \/ Params \/ CallPanics \/ CallReturns
              \/ WriteLead \/ WriteAnswer \/ Close \/ DecoderGivesUp
              \/ ClientReads \/ ClientGone
       PROVE  UNCHANGED postVars /\ (pc' # "meet" \/ (pc' = pc /\ i' = i))
  BY <1>13 DEF CheckBody, CheckId, Lookup, Params, CallPanics, CallReturns,
     WriteLead, WriteAnswer, Close, DecoderGivesUp, ClientReads, ClientGone,
     Refuse, NextItem
<1> QED
  BY <1>5, <1>7, <1>8, <1>10, <1>11, <1>12, <1>13
  DEF Next, Handler, vars, reqVars

\* Every step keeps the types.
LEMMA TypeStep == TypeInv /\ [Next]_vars => TypeInv'
  BY RequestStep, ReaderStep DEF TypeInv, TypeOK

LEMMA TypesHold == Spec => []TypeInv
  BY TypeInit, TypeStep, PTL DEF Spec

\* The variables stay in their ranges: the handler never comes to an item
\* that the body does not have, an answer is always that of an item of the
\* body or of the body, and there are never more channels than uuids
\* (handleReader, ReaderParamDecoder).
THEOREM RequestTyped == Spec => []TypeOK
  BY TypesHold, PTL DEF TypeInv

-----------------------------------------------------------------------------
(* Readers.                                                                *)

\* A POST and a decoder that meet have the same uuid.
LEMMA PushStep == TypeInv /\ PushCore /\ [Next]_vars => PushCore'
<1> SUFFICES ASSUME TypeInv, PushCore, [Next]_vars PROVE PushCore'
  OBVIOUS
<1>1. /\ ChannelCore /\ body' = body
      /\ uuid \in [Posts -> Uuids] /\ NoPost \notin Posts
      /\ readers \in [Uuids -> 0..nch]
      /\ post \in [Posts -> {"idle", "offer", "wait", "ok", "failed"}]
      /\ taken \in [Posts -> 0..Len(body.items)]
  BY BodyKept, HttpCallAssumption DEF TypeInv, TypeOK, ReaderTypeOK
<1>2. \A q \in Posts :
        /\ taken[q] # 0 => body.items[taken[q]].uuid = uuid[q]
        /\ post[q] = "ok" => taken[q] # 0 /\ q \in consumed
        /\ post[q] = "wait" => taken[q] # 0
  BY DEF PushCore, PushedToItsCall
<1>3. ASSUME \A q \in Posts :
               /\ taken'[q] # 0 => body.items[taken'[q]].uuid = uuid[q]
               /\ post'[q] = "ok" => taken'[q] # 0 /\ q \in consumed'
               /\ post'[q] = "wait" => taken'[q] # 0
      PROVE  PushCore'
  BY <1>1, <1>3 DEF PushCore, PushedToItsCall
<1>4. ASSUME NEW p \in Posts, Meet(p)
      PROVE  PushCore'
  <2>1. /\ pc = "meet" /\ pc # "body" /\ post[p] = "offer" /\ ch[p] = ch[Decoder]
        /\ taken' = [taken EXCEPT ![p] = i] /\ post' = [post EXCEPT ![p] = "wait"]
        /\ UNCHANGED consumed
    BY <1>4 DEF Meet, SameChannel
  <2>2. i # 0 /\ Item(i).uuid \in Uuids
    BY <2>1, Underway, AtItem
  <2>3. readers[uuid[p]] = readers[Item(i).uuid] /\ readers[uuid[p]] # 0
    BY <1>1, <2>1 DEF ChannelCore
  <2>4. uuid[p] = Item(i).uuid
    BY <1>1, <2>2, <2>3 DEF ChannelCore, Made
  <2>5. ASSUME NEW q \in Posts
        PROVE  /\ taken'[q] # 0 => body.items[taken'[q]].uuid = uuid[q]
               /\ post'[q] = "ok" => taken'[q] # 0 /\ q \in consumed'
               /\ post'[q] = "wait" => taken'[q] # 0
    BY <1>1, <1>2, <2>1, <2>2, <2>4 DEF Item
  <2> QED
    BY <1>3, <2>5
<1>5. ASSUME NEW p \in Posts, PostArrives(p)
      PROVE  PushCore'
  BY <1>1, <1>2, <1>3, <1>5 DEF PostArrives
<1>6. ASSUME NEW p \in Posts, Consume(p)
      PROVE  PushCore'
  BY <1>1, <1>2, <1>3, <1>6 DEF Consume
<1>7. ASSUME NEW p \in Posts, PostAnswered(p)
      PROVE  PushCore'
  BY <1>1, <1>2, <1>3, <1>7 DEF PostAnswered
<1>8. ASSUME NEW p \in Posts, PostGivesUp(p)
      PROVE  PushCore'
  BY <1>1, <1>2, <1>3, <1>8 DEF PostGivesUp
<1>9. ASSUME UNCHANGED <<post, taken, consumed>>
      PROVE  PushCore'
  BY <1>2, <1>3, <1>9
<1> QED
  BY <1>4, <1>5, <1>6, <1>7, <1>8, <1>9
  DEF Next, Handler, vars, postVars, CheckBody, CheckId, Lookup, Params,
      CallPanics, CallReturns, WriteLead, WriteAnswer, Close, DecoderLooks,
      DecoderGivesUp, ClientReads, ClientGone

\* A POST is told that all is well only when its body went to the call whose
\* parameter named it, and was read, whichever of the two came first, and
\* however many POSTs and calls name a uuid (ReaderParamDecoder).
THEOREM ReadersReachTheirCalls == Spec => []PushedToItsCall
<1>1. Init => PushCore
  BY DEF Init, PushCore, PushedToItsCall
<1>2. PushCore => PushedToItsCall
  BY DEF PushCore
<1> QED
  BY <1>1, <1>2, TypesHold, PushStep, PTL DEF Spec

-----------------------------------------------------------------------------
(* The steps, by what they do to the answers.                              *)

\* Where a call ends.
Calling == {"item", "lookup", "params", "reader", "meet", "call"}

\* Steps of POSTs and of the client.
Beside ==
    /\ UNCHANGED <<pc, i, pend, out, wrote, status, fate>>
    /\ gone => gone'

\* The body is refused as a whole.
BodyRefused ==
    /\ pc = "body" /\ BodyFault # 0 /\ pc' = "write"
    /\ RefusalOfBody(pend') /\ pend'.n = 0 /\ pend'.code = BodyFault
    /\ UNCHANGED <<i, out, wrote, status, gone, fate>>

\* The first item is next.
Begins ==
    /\ pc = "body" /\ BodyFault = 0 /\ pc' = "item" /\ i' = 1
    /\ UNCHANGED <<pend, out, wrote, status, gone, fate>>

\* The call of an item goes on, once its id was found good.
GoesOn ==
    /\ pc \in Calling /\ pc' \in Calling \ {"item"}
    /\ pc = "item" => Item(i).id # "bad"
    /\ UNCHANGED <<i, pend, out, wrote, status, gone, fate>>

\* It ends, with an answer.
EndsWith(f, kind, code) ==
    /\ pc \in Calling /\ pc' = "write"
    /\ \/ f = "refused" /\ kind = "refusal" /\ code <= 0
       \/ f = "result" /\ kind = "result" /\ HasId
       \/ f \in ErrTypes /\ kind = "error" /\ code = CodeOf(f) /\ HasId
    /\ pend' = Answer(kind, i, HasId, code)
    /\ fate' = [fate EXCEPT ![i] = f]
    /\ UNCHANGED <<i, out, wrote, status, gone>>

\* It ends without.
EndsSilent(f) ==
    /\ pc = "call"
    /\ (f = "silent" /\ ~HasId) \/ (f = "unencodable" /\ HasId)
    /\ fate' = [fate EXCEPT ![i] = f]
    /\ NextItem /\ UNCHANGED <<pend, out, wrote, status, gone>>

Ends ==
    \/ \E f \in {"refused", "result"} \cup ErrTypes,
          kind \in {"refusal", "result", "error"}, code \in Int :
         EndsWith(f, kind, code)
    \/ \E f \in {"silent", "unencodable"} : EndsSilent(f)

\* rpcError ends a call, whatever the code.
LEMMA RefuseEnds ==
    ASSUME NEW code \in Int, code <= 0, Refuse(code, HasId), pc \in Calling,
           UNCHANGED <<i, out, wrote, status, gone>>
    PROVE  Ends
<1>1. EndsWith("refused", "refusal", code)
  BY DEF EndsWith, Refuse
<1> QED
  BY <1>1 DEF Ends

\* Every step is one of these.
LEMMA StepKinds ==
    ASSUME [Next]_vars
    PROVE  \/ Beside \/ BodyRefused \/ Begins \/ GoesOn \/ Ends
           \/ WriteLead \/ WriteAnswer \/ Close
<1>1. CASE CheckBody
  <2>1. CASE BodyFault # 0
    <3>1. PICK named \in {FALSE, body.shape = "garbled"} :
            pend' = Answer("refusal", 0, named, BodyFault)
      BY <1>1, <2>1 DEF CheckBody
    <3>2. /\ pend'.k = "refusal" /\ pend'.n = 0 /\ pend'.code = BodyFault
          /\ pend'.named = named
      BY <3>1 DEF Answer
    <3>3. named => body.shape = "garbled"
      BY Zenon
    <3>4. RefusalOfBody(pend')
      BY <3>2, <3>3 DEF RefusalOfBody
    <3> QED
      BY <1>1, <2>1, <3>2, <3>4 DEF CheckBody, BodyRefused
  <2>2. CASE BodyFault = 0
    BY <1>1, <2>2 DEF CheckBody, Begins
  <2> QED
    BY <2>1, <2>2
<1>2. CASE CheckId
  <2>1. pc \in Calling /\ UNCHANGED <<i, out, wrote, status, gone>>
    BY <1>2 DEF CheckId, Calling
  <2>2. CASE Item(i).id = "bad"
    <3>1. HasId = FALSE
      BY <2>2 DEF HasId
    <3>2. Refuse(ParseError, HasId)
      BY <1>2, <2>2, <3>1 DEF CheckId
    <3>3. ParseError \in Int /\ ParseError <= 0
      BY DEF ParseError
    <3> QED
      BY <2>1, <3>2, <3>3, RefuseEnds
  <2>3. CASE Item(i).id # "bad"
    BY <1>2, <2>1, <2>3 DEF CheckId, GoesOn, Calling
  <2> QED
    BY <2>2, <2>3
<1>3. CASE Lookup
  <2>1. CASE Refuse(MethodNotFound, HasId)
    <3>1. MethodNotFound \in Int /\ MethodNotFound <= 0
      BY DEF MethodNotFound
    <3> QED
      BY <1>3, <2>1, <3>1, RefuseEnds DEF Lookup, Calling
  <2>2. CASE pc' = "params" /\ UNCHANGED <<pend, fate>>
    BY <1>3, <2>2 DEF Lookup, GoesOn, Calling
  <2> QED
    BY <1>3, <2>1, <2>2 DEF Lookup
<1>4. CASE Params
  <2>1. ASSUME NEW code \in {ParseError, InvalidParams}, Refuse(code, HasId)
        PROVE  Ends
    <3>1. code \in Int /\ code <= 0
      BY DEF ParseError, InvalidParams
    <3> QED
      BY <1>4, <2>1, <3>1, RefuseEnds DEF Params, Calling
  <2>2. CASE pc' \in {"reader", "call"} /\ UNCHANGED <<pend, fate>>
    BY <1>4, <2>2 DEF Params, GoesOn, Calling
  <2> QED
    BY <1>4, <2>1, <2>2 DEF Params
<1>5. CASE CallPanics
  BY <1>5, RefuseEnds DEF CallPanics, Calling
<1>6. CASE DecoderGivesUp
  <2>1. ParseError \in Int /\ ParseError <= 0
    BY DEF ParseError
  <2> QED
    BY <1>6, <2>1, RefuseEnds DEF DecoderGivesUp, Calling
<1>7. CASE CallReturns
  <2>1. /\ pc = "call" /\ pc \in Calling
        /\ UNCHANGED <<out, wrote, status, gone>>
    BY <1>7 DEF CallReturns, Calling
  <2>2. ASSUME NEW f \in {"silent", "unencodable"},
               (f = "silent" /\ Silent) \/ (f = "unencodable" /\ ~Silent),
               fate' = [fate EXCEPT ![i] = f], NextItem, UNCHANGED pend
        PROVE  Ends
    <3>1. EndsSilent(f)
      BY <2>1, <2>2 DEF EndsSilent, Silent
    <3> QED
      BY <3>1 DEF Ends
  <2>3. ASSUME ~Silent, pend' = Answer("result", i, HasId, 0),
               fate' = [fate EXCEPT ![i] = "result"], pc' = "write", UNCHANGED i
        PROVE  Ends
    <3>1. EndsWith("result", "result", 0)
      BY <2>1, <2>3 DEF EndsWith, Silent
    <3> QED
      BY <3>1 DEF Ends
  <2>4. ASSUME NEW t \in ErrTypes, ~Silent,
               pend' = Answer("error", i, HasId, CodeOf(t)),
               fate' = [fate EXCEPT ![i] = t], pc' = "write", UNCHANGED i
        PROVE  Ends
    <3>1. EndsWith(t, "error", CodeOf(t)) /\ CodeOf(t) \in Int
      BY <2>1, <2>4, CodeIsRegistered DEF EndsWith, Silent
    <3> QED
      BY <3>1 DEF Ends
  <2>5. CASE Refuse(0, HasId) /\ UNCHANGED i
    BY <2>1, <2>5, RefuseEnds
  <2> QED
    BY <1>7, <2>2, <2>3, <2>4, <2>5 DEF CallReturns
<1>8. CASE DecoderLooks
  BY <1>8 DEF DecoderLooks, GoesOn, Calling
<1>9. CASE \E p \in Posts : Meet(p)
  BY <1>9 DEF Meet, GoesOn, Calling
<1>10. CASE ClientReads \/ ClientGone
  BY <1>10 DEF ClientReads, ClientGone, Beside
<1>11. CASE \E p \in Posts : PostArrives(p) \/ Consume(p) \/ PostAnswered(p)
                              \/ PostGivesUp(p)
  BY <1>11 DEF PostArrives, Consume, PostAnswered, PostGivesUp, reqVars, Beside
<1>12. CASE UNCHANGED vars
  BY <1>12 DEF vars, reqVars, Beside
<1> QED
  BY <1>1, <1>2, <1>3, <1>4, <1>5, <1>6, <1>7, <1>8, <1>9, <1>10, <1>11, <1>12
  DEF Next, Handler

\* What these steps have in common to start from.
LEMMA Ready ==
    ASSUME TypeInv, [Next]_vars
    PROVE  /\ PlaceCore /\ PlaceCore'
           /\ body' = body /\ BodyFault' = BodyFault /\ Batch' = Batch
           /\ body \in Bodies /\ i \in 0..Len(body.items) /\ i \in Nat
           /\ Len(body.items) \in Nat /\ DOMAIN body.items = 1..Len(body.items)
           /\ BodyFault = 0 => /\ body.shape \in {"object", "array"}
                               /\ Len(body.items) >= 1
           /\ body.shape = "object" => Len(body.items) = 1
           /\ pend \in Answers /\ out \in Seq(Answers)
           /\ Len(out) \in Nat /\ DOMAIN out = 1..Len(out)
           /\ fate \in [DOMAIN body.items ->
                {"none", "silent", "result", "refused", "unencodable"} \cup ErrTypes]
           /\ ErrTypes \cap {"none", "silent", "result", "refused", "unencodable",
                             "unread", "nothing", "JSONRPCError", "ErrClient"} = {}
<1>1. /\ RequestTypeOK /\ PlaceCore /\ body' = body /\ BodyFault' = BodyFault
      /\ Batch' = Batch
  BY BodyKept DEF TypeInv, TypeOK
<1>2. PlaceCore'
  BY RequestStep
<1>3. /\ body \in Bodies /\ i \in 0..Len(body.items)
      /\ pend \in Answers /\ out \in Seq(Answers)
      /\ fate \in [DOMAIN body.items ->
           {"none", "silent", "result", "refused", "unencodable"} \cup ErrTypes]
  BY <1>1 DEF RequestTypeOK
<1>4. Len(out) \in Nat /\ DOMAIN out = 1..Len(out)
  BY <1>3
<1>5. /\ Len(body.items) \in Nat /\ DOMAIN body.items = 1..Len(body.items)
      /\ BodyFault = 0 => /\ body.shape \in {"object", "array"}
                          /\ Len(body.items) >= 1
      /\ body.shape = "object" => Len(body.items) = 1
  BY <1>3, BodyTyped
<1>6. i \in Nat
  BY <1>3, <1>5
<1> QED
  BY <1>1, <1>2, <1>3, <1>4, <1>5, <1>6, HttpCallAssumption

\* A call ends at the item the handler is at, with an outcome that its id
\* allows.
LEMMA EndsAtItem ==
    ASSUME TypeInv, FateCore, Ends
    PROVE  /\ BodyFault = 0 /\ i \in 1..Len(body.items) /\ i \in DOMAIN body.items
           /\ \E f \in Fates(i) : f # "none" /\ fate' = [fate EXCEPT ![i] = f]
<1>1. pc \in Calling
  BY DEF Ends, EndsWith, EndsSilent, Calling
<1>2. BodyFault = 0 /\ pc # "body"
  BY <1>1, Underway DEF Calling
<1>3. /\ i \in 1..Len(body.items) /\ i \in DOMAIN body.items
      /\ Item(i).id \in {"none", "ok", "bad"}
  BY <1>2, AtItem
<1>4. ErrTypes \cap {"none", "silent", "result", "refused", "unencodable"} = {}
  BY HttpCallAssumption
<1>5. ASSUME NEW f, NEW kind, NEW code, EndsWith(f, kind, code)
      PROVE  f \in Fates(i) /\ f # "none" /\ fate' = [fate EXCEPT ![i] = f]
  BY <1>3, <1>4, <1>5 DEF EndsWith, Fates, HasId, Item
<1>6. ASSUME NEW f, EndsSilent(f)
      PROVE  f \in Fates(i) /\ f # "none" /\ fate' = [fate EXCEPT ![i] = f]
  <2>1. Item(i).id # "bad"
    BY <1>6 DEF EndsSilent, FateCore
  <2> QED
    BY <1>3, <1>6, <2>1 DEF EndsSilent, Fates, HasId, Item
<1> QED
  BY <1>2, <1>3, <1>5, <1>6 DEF Ends

\* Each call ends once, in the order of the items.
LEMMA FateStep == TypeInv /\ FateCore /\ [Next]_vars => FateCore'
<1> SUFFICES ASSUME TypeInv, FateCore, [Next]_vars PROVE FateCore'
  OBVIOUS
<1>1. /\ PlaceCore /\ PlaceCore' /\ body' = body /\ BodyFault' = BodyFault
      /\ i \in Nat /\ i \in 0..Len(body.items)
      /\ Len(body.items) \in Nat /\ DOMAIN body.items = 1..Len(body.items)
      /\ body.shape = "object" => Len(body.items) = 1
      /\ BodyFault = 0 => body.shape \in {"object", "array"}
      /\ fate \in [DOMAIN body.items ->
           {"none", "silent", "result", "refused", "unencodable"} \cup ErrTypes]
  BY Ready
<1>2. /\ \A n \in DOMAIN body.items :
           IF n \in Ended THEN fate[n] \in Fates(n) ELSE fate[n] = "none"
      /\ pc \in {"lookup", "params", "reader", "meet", "call"} => Item(i).id # "bad"
      /\ BodyFault = 0 /\ pc \in {"close", "done"} => i = Len(body.items)
  BY DEF FateCore
<1>3. ASSUME \A n \in DOMAIN body.items :
               IF n \in Ended' THEN fate'[n] \in Fates(n) ELSE fate'[n] = "none",
             pc' \in {"lookup", "params", "reader", "meet", "call"} =>
               body.items[i'].id # "bad",
             BodyFault = 0 /\ pc' \in {"close", "done"} => i' = Len(body.items)
      PROVE  FateCore'
  BY <1>1, <1>3 DEF FateCore, Item, Fates
<1>4. ASSUME Ended' = Ended, fate' = fate,
             pc' \in {"lookup", "params", "reader", "meet", "call"} =>
               body.items[i'].id # "bad",
             BodyFault = 0 /\ pc' \in {"close", "done"} => i' = Len(body.items)
      PROVE  FateCore'
  BY <1>2, <1>3, <1>4
<1>5. CASE Beside
  BY <1>1, <1>2, <1>4, <1>5 DEF Beside, Ended, Item
<1>6. CASE BodyRefused \/ Begins
  <2>1. pc = "body" /\ i = 0 /\ fate' = fate
    BY <1>1, <1>6 DEF BodyRefused, Begins, PlaceCore
  <2>2. Ended = {} /\ Ended' = {}
    BY <1>6, <2>1 DEF BodyRefused, Begins, Ended
  <2> QED
    BY <1>4, <1>6, <2>1, <2>2 DEF BodyRefused, Begins
<1>7. CASE GoesOn
  <2>1. pc \in Calling /\ pc' \in Calling \ {"item"} /\ i' = i /\ fate' = fate
    BY <1>7 DEF GoesOn
  <2>2. Ended' = Ended
    BY <2>1 DEF Ended, Calling
  <2>3. Item(i)' = Item(i) /\ Item(i).id # "bad"
    BY <1>1, <1>2, <1>7, <2>1 DEF GoesOn, Calling, Item
  <2> QED
    BY <1>4, <2>1, <2>2, <2>3 DEF Calling, Item
<1>8. CASE Ends
  <2>1. /\ BodyFault = 0 /\ i \in 1..Len(body.items)
        /\ \E f \in Fates(i) : f # "none" /\ fate' = [fate EXCEPT ![i] = f]
    BY <1>8, EndsAtItem
  <2>2. Ended = 1..(i - 1)
    BY <1>8 DEF Ends, EndsWith, EndsSilent, Calling, Ended
  <2>3. /\ \/ pc' = "write" /\ i' = i
           \/ pc' = "item" /\ i' = i + 1
           \/ pc' = "close" /\ i' = i /\ i = Len(body.items)
    <3>1. CASE NextItem
      BY <1>1, <2>1, <3>1 DEF NextItem
    <3> QED
      BY <1>8, <3>1 DEF Ends, EndsWith, EndsSilent
  <2>4. Ended' = 1..i
    BY <1>1, <2>3 DEF Ended
  <2>5. \A n \in DOMAIN body.items :
          IF n \in 1..i THEN fate'[n] \in Fates(n) ELSE fate'[n] = "none"
    BY <1>1, <1>2, <2>1, <2>2
  <2> QED
    BY <1>1, <1>3, <2>3, <2>4, <2>5
<1>9. CASE WriteLead \/ WriteAnswer \/ Close
  <2>1. pc \in {"write", "answer", "close"} /\ fate' = fate
    BY <1>9 DEF WriteLead, WriteAnswer, Close
  <2>2. \/ pc' \in {"answer", "done"} /\ i' = i
        \/ pc' = "item" /\ i' = i + 1
        \/ pc' = "close" /\ i' = i /\ (i < Len(body.items) => FALSE)
    BY <1>9 DEF WriteLead, WriteAnswer, Close, NextItem
  <2>3. Ended = 1..i /\ Ended' = 1..i
    BY <1>1, <2>1, <2>2 DEF Ended
  <2>4. ASSUME BodyFault = 0, pc' = "done" PROVE i = Len(body.items)
    <3>1. CASE Close
      BY <1>2, <2>4, <3>1 DEF Close
    <3>2. CASE WriteAnswer
      <4>1. ~InBatch /\ i' = i
        BY <2>4, <3>2 DEF WriteAnswer, NextItem
      <4>2. i > 0 /\ pend.n = i
        BY <1>1, <2>1, <2>4, <3>2, <4>1 DEF PlaceCore, WriteAnswer
      <4>3. body.shape # "array"
        BY <1>1, <4>1, <4>2 DEF InBatch, Batch
      <4>4. Len(body.items) = 1
        BY <1>1, <2>4, <4>3
      <4> QED
        BY <1>1, <4>2, <4>4
    <3>3. CASE WriteLead
      BY <2>4, <3>3 DEF WriteLead, NextItem
    <3> QED
      BY <1>9, <3>1, <3>2, <3>3
  <2> QED
    BY <1>1, <1>4, <2>1, <2>2, <2>3, <2>4
<1> QED
  BY <1>5, <1>6, <1>7, <1>8, <1>9, StepKinds

-----------------------------------------------------------------------------
(* The output.                                                             *)

\* A batch whose requests are answered one by one is not refused as a whole.
LEMMA BatchIsWhole ==
    ASSUME TypeInv, pc \in {"write", "answer"}
    PROVE  /\ InBatch <=> ~Plain
           /\ InBatch => BodyFault = 0 /\ pend.n = i /\ i > 0
           /\ IsAnswer(pend)
<1>1. PlaceCore
  BY DEF TypeInv
<1> QED
  BY <1>1 DEF PlaceCore, InBatch, Plain

\* What is at the places of an output with one thing more.
LEMMA Appended ==
    ASSUME TypeInv, NEW a \in Answers, out' = Append(out, a)
    PROVE  /\ Len(out') = Len(out) + 1 /\ Len(out) \in Nat
           /\ DOMAIN out' = 1..(Len(out) + 1) /\ DOMAIN out = 1..Len(out)
           /\ \A m \in DOMAIN out : out'[m] = out[m]
           /\ out'[Len(out) + 1] = a
           /\ out' # <<>> /\ out' \in Seq(Answers) /\ Last(out') = a
<1>1. out \in Seq(Answers)
  BY DEF TypeInv, TypeOK, RequestTypeOK
<1>2. /\ Len(out) \in Nat /\ DOMAIN out = 1..Len(out)
      /\ Append(out, a) \in Seq(Answers) /\ Len(Append(out, a)) = Len(out) + 1
      /\ \A m \in 1..Len(out) : Append(out, a)[m] = out[m]
      /\ Append(out, a)[Len(out) + 1] = a
  BY <1>1, AppendProperties
<1>3. DOMAIN out' = 1..(Len(out) + 1)
  BY <1>2
<1>4. out' # <<>>
  BY <1>2
<1>5. Last(out') = a
  BY <1>2 DEF Last
<1> QED
  BY <1>2, <1>3, <1>4, <1>5

\* The output of a batch that ends with its bracket.
LEMMA BatchIsJson ==
    ASSUME TypeInv, Batch, Len(out) % 2 = 0, out # <<>>,
           \A m \in DOMAIN out : AtPlace(m), out' = Append(out, Token("close")),
           body' = body
    PROVE  OutputIsJson'
<1>1. Token("close") \in Answers /\ Token("close").k = "close"
  BY TokenTyped DEF TypeInv, TypeOK, RequestTypeOK
<1>2. /\ Len(out') = Len(out) + 1 /\ Len(out) \in Nat
      /\ DOMAIN out' = 1..(Len(out) + 1) /\ DOMAIN out = 1..Len(out)
      /\ \A m \in DOMAIN out : out'[m] = out[m]
      /\ Last(out') = Token("close")
  BY <1>1, Appended
<1>3. Len(out) > 0
  <2>1. out \in Seq(Answers)
    BY DEF TypeInv, TypeOK, RequestTypeOK
  <2> QED
    BY <1>2, <2>1, EmptySeq
<1>4. Len(out') # 1 /\ Len(out') % 2 = 1
  BY <1>2, <1>3
<1>5. out'[1].k = "open"
  BY <1>2, <1>3 DEF AtPlace
<1>6. Last(out').k = "close"
  BY <1>1, <1>2
<1>7. ASSUME NEW n \in 2..(Len(out') - 1)
      PROVE  IF n % 2 = 0 THEN IsAnswer(out'[n]) ELSE out'[n].k = "comma"
  BY <1>2 DEF AtPlace
<1>8. Batch'
  BY DEF Batch
<1> QED
  BY <1>4, <1>5, <1>6, <1>7, <1>8 DEF OutputIsJson

\* Nothing is written before the handler has an answer.
LEMMA ShapeKept ==
    ASSUME TypeInv, ShapeCore, [Next]_vars,
           UNCHANGED <<out, wrote>>, gone => gone',
           pc # "done", pc' # "done", gone' \/ (pc = "answer" <=> pc' = "answer"),
           BodyFault # 0 /\ pc' = "write" => RefusalOfBody(pend')
    PROVE  ShapeCore'
<1>1. body' = body /\ BodyFault' = BodyFault /\ Batch' = Batch
  BY BodyKept
<1>2. OutputIsJson'
  BY DEF OutputIsJson, Complete
<1>3. Plain' = Plain
  BY <1>1 DEF Plain
<1>4. (Plain => /\ ~wrote /\ Len(out) <= 1 /\ (pc # "done" => out = <<>>)
                /\ \A m \in DOMAIN out : IsAnswer(out[m]))'
  BY <1>3 DEF ShapeCore, IsAnswer
<1>5. (BodyFault # 0 => /\ pc = "write" => RefusalOfBody(pend)
                        /\ \A m \in DOMAIN out : RefusalOfBody(out[m]))'
  BY <1>1 DEF ShapeCore, RefusalOfBody
<1>6. (~Plain /\ pc # "done" =>
         /\ wrote <=> out # <<>>
         /\ \A m \in DOMAIN out : AtPlace(m)
         /\ ~gone => Len(out) % 2 = IF pc = "answer" THEN 1 ELSE 0)'
  BY <1>3 DEF ShapeCore, AtPlace, IsAnswer
<1> QED
  BY <1>2, <1>4, <1>5, <1>6 DEF ShapeCore

\* Every step keeps the shape of the output.
LEMMA ShapeStep == TypeInv /\ ShapeCore /\ [Next]_vars => ShapeCore'
<1> SUFFICES ASSUME TypeInv, ShapeCore, [Next]_vars PROVE ShapeCore'
  OBVIOUS
<1>1. /\ PlaceCore /\ PlaceCore' /\ body' = body /\ BodyFault' = BodyFault
      /\ Batch' = Batch /\ body \in Bodies
      /\ pend \in Answers /\ out \in Seq(Answers)
      /\ Len(out) \in Nat /\ DOMAIN out = 1..Len(out)
  BY Ready
<1>2. /\ OutputIsJson
      /\ Plain => /\ ~wrote /\ Len(out) <= 1 /\ (pc # "done" => out = <<>>)
                  /\ \A m \in DOMAIN out : IsAnswer(out[m])
      /\ BodyFault # 0 => /\ pc = "write" => RefusalOfBody(pend)
                          /\ \A m \in DOMAIN out : RefusalOfBody(out[m])
      /\ ~Plain /\ pc # "done" =>
           /\ wrote <=> out # <<>>
           /\ \A m \in DOMAIN out : AtPlace(m)
           /\ ~gone => Len(out) % 2 = IF pc = "answer" THEN 1 ELSE 0
  BY DEF ShapeCore
<1>3. Plain' = Plain
  BY <1>1 DEF Plain
<1>4. ASSUME OutputIsJson',
             Plain => /\ ~wrote' /\ Len(out') <= 1 /\ (pc' # "done" => out' = <<>>)
                      /\ \A m \in DOMAIN out' : IsAnswer(out'[m]),
             BodyFault # 0 => /\ pc' = "write" => RefusalOfBody(pend')
                              /\ \A m \in DOMAIN out' : RefusalOfBody(out'[m]),
             ~Plain /\ pc' # "done" =>
               /\ wrote' <=> out' # <<>>
               /\ \A m \in DOMAIN out' : AtPlace(m)'
               /\ ~gone' => Len(out') % 2 = IF pc' = "answer" THEN 1 ELSE 0
      PROVE  ShapeCore'
  BY <1>1, <1>3, <1>4 DEF ShapeCore, RefusalOfBody
<1>5. CASE Beside
  <2>1. UNCHANGED <<pc, pend, out, wrote>> /\ (gone => gone')
    BY <1>5 DEF Beside
  <2>2. CASE pc # "done"
    BY <1>1, <1>2, <2>1, <2>2, ShapeKept DEF RefusalOfBody
  <2>3. CASE pc = "done"
    <3>1. OutputIsJson'
      BY <1>1, <1>2, <2>1 DEF OutputIsJson, Complete, Batch, IsAnswer
    <3> QED
      BY <1>1, <1>2, <1>4, <2>1, <2>3, <3>1 DEF RefusalOfBody, IsAnswer
  <2> QED
    BY <2>2, <2>3
<1>6. CASE BodyRefused
  BY <1>6, ShapeKept DEF BodyRefused
<1>7. CASE Begins
  BY <1>7, ShapeKept DEF Begins
<1>8. CASE GoesOn
  BY <1>8, ShapeKept, Underway DEF GoesOn, Calling
<1>9. CASE Ends
  <2>1. /\ UNCHANGED <<out, wrote, gone>> /\ pc \in Calling
        /\ pc' \in {"write", "item", "close"}
    BY <1>9 DEF Ends, EndsWith, EndsSilent, NextItem, Calling
  <2>2. BodyFault = 0
    BY <2>1, Underway DEF Calling
  <2> QED
    BY <2>1, <2>2, ShapeKept DEF Calling
<1>10. CASE WriteLead
  <2>1. pc = "write" /\ InBatch /\ UNCHANGED <<pend, gone>>
    BY <1>10 DEF WriteLead
  <2>2. ~Plain /\ BodyFault = 0
    BY <2>1, BatchIsWhole
  <2>3. CASE gone
    <3>1. UNCHANGED <<out, wrote>> /\ pc' # "done"
      BY <1>10, <2>3 DEF WriteLead, NextItem
    <3> QED
      BY <2>1, <2>2, <2>3, <3>1, ShapeKept
  <2>4. CASE ~gone
    <3>1. out' = Append(out, Lead) /\ wrote' /\ pc' = "answer"
      BY <1>10, <2>4 DEF WriteLead
    <3>2. /\ Lead \in Answers
          /\ Lead.k = IF wrote THEN "comma" ELSE "open"
      BY <1>1, TokenTyped DEF Lead
    <3>3. /\ Len(out') = Len(out) + 1 /\ DOMAIN out' = 1..(Len(out) + 1)
          /\ \A m \in DOMAIN out : out'[m] = out[m]
          /\ out'[Len(out) + 1] = Lead /\ out' # <<>>
      BY <3>1, <3>2, Appended
    <3>4. wrote <=> Len(out) # 0
      BY <1>1, <1>2, <2>1, <2>2, EmptySeq
    <3>5. Len(out) % 2 = 0 /\ Len(out') % 2 = 1
      BY <1>1, <1>2, <2>1, <2>2, <2>4, <3>3
    <3>6. ASSUME NEW m \in DOMAIN out' PROVE AtPlace(m)'
      <4>1. CASE m \in DOMAIN out
        BY <1>2, <2>1, <2>2, <3>3, <4>1 DEF AtPlace, IsAnswer
      <4>2. CASE m = Len(out) + 1
        BY <1>1, <3>2, <3>3, <3>4, <3>5, <4>2 DEF AtPlace
      <4> QED
        BY <1>1, <3>3, <4>1, <4>2
    <3>7. OutputIsJson'
      BY <3>1 DEF OutputIsJson, Complete
    <3> QED
      BY <1>4, <2>2, <3>1, <3>3, <3>5, <3>6, <3>7
  <2> QED
    BY <2>3, <2>4
<1>11. CASE WriteAnswer
  <2>1. pc \in {"write", "answer"} /\ UNCHANGED <<pend, wrote, gone>>
    BY <1>11 DEF WriteAnswer
  <2>2. CASE InBatch
    <3>1. ~Plain /\ BodyFault = 0 /\ IsAnswer(pend) /\ pc = "answer" /\ NextItem
      BY <1>11, <2>1, <2>2, BatchIsWhole DEF WriteAnswer
    <3>2. pc' \in {"item", "close"}
      BY <3>1 DEF NextItem
    <3>3. CASE gone
      <4>1. UNCHANGED <<out, wrote>>
        BY <1>11, <3>3 DEF WriteAnswer
      <4> QED
        BY <2>1, <3>1, <3>2, <3>3, <4>1, ShapeKept
    <3>4. CASE ~gone
      <4>1. out' = Append(out, pend)
        BY <1>11, <3>4 DEF WriteAnswer
      <4>2. /\ Len(out') = Len(out) + 1 /\ DOMAIN out' = 1..(Len(out) + 1)
            /\ \A m \in DOMAIN out : out'[m] = out[m]
            /\ out'[Len(out) + 1] = pend /\ out' # <<>>
        BY <1>1, <4>1, Appended
      <4>3. Len(out) % 2 = 1 /\ Len(out') % 2 = 0 /\ wrote
        <5>1. Len(out) % 2 = 1
          BY <1>2, <2>1, <3>1, <3>4
        <5>2. out # <<>>
          BY <1>1, <5>1, EmptySeq
        <5> QED
          BY <1>1, <1>2, <3>1, <4>2, <5>1, <5>2
      <4>4. ASSUME NEW m \in DOMAIN out' PROVE AtPlace(m)'
        <5>1. CASE m \in DOMAIN out
          BY <1>2, <2>1, <3>1, <4>2, <5>1 DEF AtPlace, IsAnswer
        <5>2. CASE m = Len(out) + 1
          <6>1. m % 2 = 0 /\ m # 1
            BY <1>1, <4>2, <4>3, <5>2
          <6> QED
            BY <3>1, <4>2, <5>2, <6>1 DEF AtPlace, IsAnswer
        <5> QED
          BY <1>1, <4>2, <5>1, <5>2
      <4>5. OutputIsJson'
        BY <3>2 DEF OutputIsJson, Complete
      <4> QED
        BY <1>4, <2>1, <3>1, <3>2, <4>2, <4>3, <4>4, <4>5
    <3> QED
      BY <3>3, <3>4
  <2>3. CASE ~InBatch
    <3>1. Plain /\ pc = "write" /\ pc' = "done" /\ IsAnswer(pend)
      BY <1>11, <2>1, <2>3, BatchIsWhole DEF WriteAnswer
    <3>2. ~wrote /\ out = <<>>
      BY <1>2, <3>1
    <3>3. CASE gone
      <4>1. UNCHANGED <<out, wrote>>
        BY <1>11, <3>3 DEF WriteAnswer
      <4>2. OutputIsJson'
        BY <2>1, <3>3 DEF OutputIsJson, Complete
      <4> QED
        BY <1>2, <1>4, <3>1, <3>2, <4>1, <4>2
    <3>4. CASE ~gone
      <4>1. out' = Append(out, pend)
        BY <1>11, <3>4 DEF WriteAnswer
      <4>2. /\ Len(out') = Len(out) + 1 /\ DOMAIN out' = 1..(Len(out) + 1)
            /\ out'[Len(out) + 1] = pend
        BY <1>1, <4>1, Appended
      <4>3. Len(out') = 1 /\ out'[1] = pend /\ \A m \in DOMAIN out' : out'[m] = pend
        BY <3>2, <4>2
      <4>4. OutputIsJson'
        BY <3>1, <4>3 DEF OutputIsJson, IsAnswer
      <4>5. BodyFault # 0 => RefusalOfBody(pend)
        BY <1>2, <3>1
      <4> QED
        BY <1>4, <2>1, <3>1, <3>2, <4>3, <4>4, <4>5
    <3> QED
      BY <3>3, <3>4
  <2> QED
    BY <2>2, <2>3
<1>12. CASE Close
  <2>1. /\ pc = "close" /\ pc' = "done" /\ UNCHANGED <<wrote, gone>>
        /\ out' = IF wrote /\ ~gone THEN Append(out, Token("close")) ELSE out
    BY <1>12 DEF Close
  <2>2. BodyFault = 0
    BY <2>1, Underway
  <2>3. CASE Plain
    <3>1. ~wrote' /\ out' = <<>>
      BY <1>2, <2>1, <2>3
    <3>2. OutputIsJson'
      BY <3>1 DEF OutputIsJson
    <3> QED
      BY <1>4, <2>1, <2>2, <2>3, <3>1, <3>2
  <2>4. CASE ~Plain
    <3>1. OutputIsJson'
      <4>1. CASE gone
        BY <2>1, <4>1 DEF OutputIsJson, Complete
      <4>2. CASE ~gone /\ ~wrote
        <5>1. out' = <<>>
          BY <1>2, <2>1, <2>4, <4>2
        <5> QED
          BY <5>1 DEF OutputIsJson
      <4>3. CASE ~gone /\ wrote
        BY <1>1, <1>2, <2>1, <2>4, <4>3, BatchIsJson DEF Plain
      <4> QED
        BY <4>1, <4>2, <4>3
    <3> QED
      BY <1>4, <2>1, <2>2, <2>4, <3>1
  <2> QED
    BY <2>3, <2>4
<1> QED
  BY <1>5, <1>6, <1>7, <1>8, <1>9, <1>10, <1>11, <1>12, StepKinds

\* Only a refusal that is the whole output is sent with a status of its own.
LEMMA StatusStep ==
    TypeInv /\ ShapeCore /\ StatusAnnouncesRefusal /\ [Next]_vars
      => StatusAnnouncesRefusal'
<1> SUFFICES ASSUME TypeInv, ShapeCore, StatusAnnouncesRefusal, [Next]_vars
             PROVE  StatusAnnouncesRefusal'
  OBVIOUS
<1>1. /\ pend \in Answers /\ out \in Seq(Answers) /\ body \in Bodies
      /\ Len(out) \in Nat /\ DOMAIN out = 1..Len(out)
  BY Ready
<1>2. /\ Plain => /\ ~wrote /\ Len(out) <= 1 /\ (pc # "done" => out = <<>>)
                  /\ \A m \in DOMAIN out : IsAnswer(out[m])
      /\ ~Plain /\ pc # "done" => (wrote <=> out # <<>>)
  BY DEF ShapeCore
<1>3. CASE pc' # "done" \/ gone'
  BY <1>3 DEF StatusAnnouncesRefusal, Complete
<1>4. CASE Beside
  BY <1>4 DEF StatusAnnouncesRefusal, Complete, Beside
<1>5. CASE WriteAnswer /\ pc' = "done" /\ ~gone'
  <2>1. /\ ~InBatch /\ pc = "write" /\ ~gone
        /\ out' = Append(out, pend) /\ status' = StatusFor
    BY <1>5 DEF WriteAnswer, NextItem
  <2>2. out = <<>>
    BY <1>2, <2>1, BatchIsWhole
  <2>3. Len(out') = Len(out) + 1 /\ out'[Len(out) + 1] = pend
    BY <1>1, <2>1, Appended
  <2>4. Len(out') = 1 /\ out'[1] = pend
    BY <2>2, <2>3
  <2>5. StatusFor # 200 <=> pend.k = "refusal"
    BY <2>1 DEF StatusFor
  <2> QED
    BY <2>1, <2>4, <2>5 DEF StatusAnnouncesRefusal
<1>6. CASE Close
  <2>1. /\ pc = "close" /\ status' = 200
        /\ out' = IF wrote /\ ~gone THEN Append(out, Token("close")) ELSE out
    BY <1>6 DEF Close
  <2>2. CASE wrote /\ ~gone
    <3>1. Token("close") \in Answers /\ out' = Append(out, Token("close"))
      BY <1>1, <2>1, <2>2, TokenTyped
    <3>2. Len(out') = Len(out) + 1
      BY <3>1, Appended
    <3>3. Len(out) # 0
      BY <1>1, <1>2, <2>1, <2>2, EmptySeq
    <3>4. Len(out') # 1
      BY <1>1, <3>2, <3>3
    <3> QED
      BY <2>1, <3>4 DEF StatusAnnouncesRefusal
  <2>3. CASE ~wrote /\ ~gone
    <3>1. out' = <<>>
      BY <1>2, <2>1, <2>3
    <3>2. Len(out') # 1
      BY <3>1
    <3> QED
      BY <2>1, <3>2 DEF StatusAnnouncesRefusal
  <2>4. CASE gone
    BY <1>3, <1>6, <2>4 DEF Close
  <2> QED
    BY <2>2, <2>3, <2>4
<1>7. CASE BodyRefused \/ Begins \/ GoesOn \/ Ends \/ WriteLead
  BY <1>3, <1>7 DEF BodyRefused, Begins, GoesOn, Ends, EndsWith, EndsSilent,
     WriteLead, NextItem, Calling
<1> QED
  BY <1>3, <1>4, <1>5, <1>6, <1>7, StepKinds

-----------------------------------------------------------------------------
(* The answers.                                                            *)

\* A step that writes no answer keeps those that are written, if it leaves
\* the outcome of their calls alone, and if the items it passes over have no
\* answer, or nobody reads it.
LEMMA AnswersKept ==
    ASSUME TypeInv, AnswerCore, [Next]_vars, BodyFault = 0,
           Got' = Got, \A m \in Got : out'[m] = out[m],
           Written \subseteq Written', \A n \in Written : fate'[n] = fate[n],
           \A n \in Written' \ Written :
             gone' \/ fate'[n] \in {"silent", "unencodable"},
           gone => gone',
           pc' \in {"write", "answer"} => Faithful(pend)'
    PROVE  AnswerCore'
<1>1. body' = body /\ BodyFault' = BodyFault
  BY BodyKept
<1>2. /\ \A m \in Got : Faithful(out[m]) /\ out[m].n \in Written
      /\ \A m1, m2 \in Got : m1 < m2 => out[m1].n < out[m2].n
      /\ ~gone => \A n \in Written :
                    fate[n] \notin {"silent", "unencodable"} =>
                      \E m \in Got : out[m].n = n
  BY DEF AnswerCore
<1>3. ASSUME NEW m \in Got' PROVE Faithful(out[m])' /\ out'[m].n \in Written'
  <2>1. /\ out'[m] = out[m] /\ Faithful(out[m]) /\ out[m].n \in Written
        /\ fate'[out[m].n] = fate[out[m].n]
    BY <1>2
  <2> QED
    BY <1>1, <2>1 DEF Faithful
<1>4. \A m1, m2 \in Got' : m1 < m2 => out'[m1].n < out'[m2].n
  BY <1>2
<1>5. ASSUME ~gone', NEW n \in Written', fate'[n] \notin {"silent", "unencodable"}
      PROVE  \E m \in Got' : out'[m].n = n
  <2>1. n \in Written /\ fate'[n] = fate[n] /\ ~gone
    BY <1>5
  <2> QED
    BY <1>2, <1>5, <2>1
<1> QED
  BY <1>3, <1>4, <1>5 DEF AnswerCore

\* A bracket or a comma is no answer.
LEMMA NoAnswerAdded ==
    ASSUME TypeInv, NEW kind \in {"open", "comma", "close"},
           out' = Append(out, Token(kind))
    PROVE  Got' = Got /\ \A m \in Got : out'[m] = out[m]
<1>1. Token(kind) \in Answers /\ Token(kind).k = kind
  BY TokenTyped DEF TypeInv, TypeOK, RequestTypeOK
<1>2. /\ DOMAIN out' = 1..(Len(out) + 1) /\ DOMAIN out = 1..Len(out)
      /\ \A m \in DOMAIN out : out'[m] = out[m] /\ Len(out) \in Nat
      /\ out'[Len(out) + 1] = Token(kind)
  BY <1>1, Appended
<1>3. ~IsAnswer(out'[Len(out) + 1])
  BY <1>1, <1>2 DEF IsAnswer
<1>4. Got' = {m \in DOMAIN out' : IsAnswer(out'[m])}
  BY DEF Got, IsAnswer
<1>5. DOMAIN out' = DOMAIN out \cup {Len(out) + 1}
  <2>1. Len(out) \in Nat
    BY Appended, <1>1
  <2> QED
    BY <1>2, <2>1
<1>6. Got' = Got
  BY <1>2, <1>3, <1>4, <1>5 DEF Got
<1> QED
  BY <1>2, <1>6 DEF Got

\* What a call ends with tells what it came to.
LEMMA EndIsFaithful ==
    ASSUME TypeInv, FateCore, Ends, body' = body, pc' = "write"
    PROVE  Faithful(pend)'
<1>1. /\ pc \in Calling
      /\ \E f \in {"refused", "result"} \cup ErrTypes,
            kind \in {"refusal", "result", "error"}, code \in Int :
           EndsWith(f, kind, code)
  BY DEF Ends, EndsWith, EndsSilent, Calling, NextItem
<1>2. PICK f \in {"refused", "result"} \cup ErrTypes,
           kind \in {"refusal", "result", "error"}, code \in Int :
        EndsWith(f, kind, code)
  BY <1>1
<1>3. i \in DOMAIN body.items
  BY EndsAtItem
<1>4. /\ pend'.k = kind /\ pend'.n = i /\ pend'.named = HasId /\ pend'.code = code
      /\ fate' = [fate EXCEPT ![i] = f]
  BY <1>2 DEF EndsWith, Answer
<1>5. fate'[i] = f
  <2>1. fate \in [DOMAIN body.items ->
          {"none", "silent", "result", "refused", "unencodable"} \cup ErrTypes]
    BY DEF TypeInv, TypeOK, RequestTypeOK
  <2> QED
    BY <1>3, <1>4, <2>1
<1>6. /\ f = "refused" => kind = "refusal" /\ code <= 0
      /\ f = "result" => kind = "result"
      /\ f \in ErrTypes => kind = "error" /\ code = CodeOf(f)
      /\ f \in ErrTypes => f # "refused" /\ f # "result"
  BY <1>2, HttpCallAssumption DEF EndsWith
<1>7. /\ kind = CASE f = "refused" -> "refusal"
                  [] f = "result" -> "result"
                  [] OTHER -> "error"
      /\ kind = "refusal" => code <= 0
      /\ kind = "error" => f \in ErrTypes /\ code = CodeOf(f)
  BY <1>6
<1>8. pend'.named = (body.items[i].id = "ok")
  BY <1>4 DEF HasId, Item
<1> QED
  BY <1>3, <1>4, <1>5, <1>7, <1>8 DEF Faithful

\* Every step keeps the answers right.
LEMMA AnswerStep ==
    TypeInv /\ FateCore /\ AnswerCore /\ ShapeCore /\ [Next]_vars => AnswerCore'
<1> SUFFICES ASSUME TypeInv, FateCore, AnswerCore, ShapeCore, [Next]_vars
             PROVE  AnswerCore'
  OBVIOUS
<1>1. /\ PlaceCore /\ PlaceCore' /\ body' = body /\ BodyFault' = BodyFault
      /\ pend \in Answers /\ out \in Seq(Answers) /\ i \in Nat
      /\ Len(out) \in Nat /\ DOMAIN out = 1..Len(out)
      /\ DOMAIN body.items = 1..Len(body.items) /\ Len(body.items) \in Nat
      /\ fate \in [DOMAIN body.items ->
           {"none", "silent", "result", "refused", "unencodable"} \cup ErrTypes]
  BY Ready
<1>2. BodyFault = 0 =>
        /\ pc \in {"write", "answer"} => Faithful(pend)
        /\ \A m \in Got : Faithful(out[m]) /\ out[m].n \in Written
        /\ \A m1, m2 \in Got : m1 < m2 => out[m1].n < out[m2].n
        /\ ~gone => \A n \in Written :
                      fate[n] \notin {"silent", "unencodable"} =>
                        \E m \in Got : out[m].n = n
  BY DEF AnswerCore
<1>3. CASE BodyFault # 0
  BY <1>1, <1>3 DEF AnswerCore
<1>4. ASSUME out' = out
      PROVE  Got' = Got /\ \A m \in Got : out'[m] = out[m]
  BY <1>4 DEF Got, IsAnswer
<1>5. ASSUME UNCHANGED <<pend, fate>>, Faithful(pend)
      PROVE  Faithful(pend)'
  BY <1>1, <1>5 DEF Faithful
<1>6. CASE BodyFault = 0 /\ Beside
  <2>1. /\ UNCHANGED <<pc, i, pend, out, fate>> /\ (gone => gone')
        /\ Written' = Written
    BY <1>6 DEF Beside, Written
  <2>2. pc' \in {"write", "answer"} => Faithful(pend)'
    BY <1>2, <1>5, <1>6, <2>1
  <2> QED
    BY <1>4, <1>6, <2>1, <2>2, AnswersKept
<1>7. CASE BodyFault = 0 /\ Begins
  <2>1. /\ UNCHANGED <<pend, out, gone, fate>> /\ pc = "body" /\ pc' = "item"
        /\ i = 0 /\ i' = 1
    BY <1>1, <1>7 DEF Begins, PlaceCore
  <2>2. Written = {} /\ Written' = {}
    BY <2>1 DEF Written
  <2> QED
    BY <1>4, <1>7, <2>1, <2>2, AnswersKept
<1>8. CASE BodyFault = 0 /\ GoesOn
  <2>1. /\ UNCHANGED <<i, pend, out, gone, fate>> /\ pc \in Calling /\ pc' \in Calling
    BY <1>8 DEF GoesOn
  <2>2. Written' = Written
    BY <2>1 DEF Written, Calling
  <2> QED
    BY <1>4, <1>8, <2>1, <2>2, AnswersKept DEF Calling
<1>9. CASE BodyFault = 0 /\ Ends
  <2>1. pc \in Calling /\ UNCHANGED <<out, gone>>
    BY <1>9 DEF Ends, EndsWith, EndsSilent, Calling
  <2>2. Written = 1..(i - 1) /\ i \in DOMAIN body.items
    BY <1>9, <2>1, EndsAtItem DEF Written, Calling
  <2>3. \A n \in Written : fate'[n] = fate[n]
    <3>1. \E f \in Fates(i) : f # "none" /\ fate' = [fate EXCEPT ![i] = f]
      BY <1>9, EndsAtItem
    <3>2. i \notin Written /\ Written \subseteq DOMAIN body.items
      BY <1>1, <2>2
    <3> QED
      BY <1>1, <3>1, <3>2
  <2>4. ASSUME NEW f \in {"refused", "result"} \cup ErrTypes,
               NEW kind \in {"refusal", "result", "error"}, NEW code \in Int,
               EndsWith(f, kind, code)
        PROVE  AnswerCore'
    <3>1. pc' = "write" /\ i' = i
      BY <2>4 DEF EndsWith
    <3>2. Written' = Written
      BY <2>2, <3>1 DEF Written
    <3>3. Faithful(pend)'
      BY <1>1, <1>9, <3>1, EndIsFaithful
    <3> QED
      BY <1>4, <1>9, <2>1, <2>3, <3>2, <3>3, AnswersKept
  <2>5. ASSUME NEW f \in {"silent", "unencodable"}, EndsSilent(f)
        PROVE  AnswerCore'
    <3>1. fate' = [fate EXCEPT ![i] = f] /\ NextItem
      BY <2>5 DEF EndsSilent
    <3>2. \/ pc' = "item" /\ i' = i + 1
          \/ pc' = "close" /\ i' = i
      BY <3>1 DEF NextItem
    <3>3. Written' = 1..i
      BY <1>1, <3>2 DEF Written
    <3>4. Written \subseteq Written' /\ Written' \ Written \subseteq {i}
      BY <1>1, <2>2, <3>3
    <3>5. fate'[i] \in {"silent", "unencodable"}
      BY <1>1, <2>2, <3>1
    <3> QED
      BY <1>4, <1>9, <2>1, <2>3, <3>2, <3>4, <3>5, AnswersKept
  <2> QED
    BY <1>9, <2>4, <2>5 DEF Ends
<1>10. CASE BodyFault = 0 /\ WriteLead
  <2>1. pc = "write" /\ UNCHANGED <<pend, gone, fate>> /\ Written = 1..(i - 1)
    BY <1>10 DEF WriteLead, Written
  <2>2. CASE gone
    <3>1. /\ out' = out
          /\ \/ pc' = "item" /\ i' = i + 1
             \/ pc' = "close" /\ i' = i
      BY <1>10, <2>2 DEF WriteLead, NextItem
    <3>2. Written' = 1..i
      BY <1>1, <3>1 DEF Written
    <3>3. Written \subseteq Written'
      BY <1>1, <2>1, <3>2
    <3> QED
      BY <1>4, <1>10, <2>1, <2>2, <3>1, <3>3, AnswersKept
  <2>3. CASE ~gone
    <3>1. pc' = "answer" /\ i' = i /\ out' = Append(out, Lead)
      BY <1>10, <2>3 DEF WriteLead
    <3>2. Got' = Got /\ \A m \in Got : out'[m] = out[m]
      BY <3>1, NoAnswerAdded DEF Lead
    <3>3. Written' = Written
      BY <2>1, <3>1 DEF Written
    <3>4. Faithful(pend)'
      BY <1>2, <1>5, <1>10, <2>1
    <3> QED
      BY <1>10, <2>1, <3>1, <3>2, <3>3, <3>4, AnswersKept
  <2> QED
    BY <2>2, <2>3
<1>11. CASE BodyFault = 0 /\ WriteAnswer
  <2>1. /\ pc \in {"write", "answer"} /\ UNCHANGED <<pend, gone, fate>>
        /\ Written = 1..(i - 1)
    BY <1>11 DEF WriteAnswer, Written
  <2>2. \/ pc' = "item" /\ i' = i + 1
        \/ pc' \in {"close", "done"} /\ i' = i
    BY <1>11 DEF WriteAnswer, NextItem
  <2>3. Written' = 1..i
    BY <1>1, <2>2 DEF Written
  <2>4. pend.n = i /\ IsAnswer(pend) /\ Faithful(pend) /\ i > 0
    BY <1>1, <1>2, <1>11, <2>1 DEF PlaceCore
  <2>5. Written \subseteq Written' /\ Written' = Written \cup {i}
    BY <1>1, <2>1, <2>3, <2>4
  <2>6. CASE gone
    <3>1. out' = out
      BY <1>11, <2>6 DEF WriteAnswer
    <3> QED
      BY <1>4, <1>11, <2>1, <2>2, <2>5, <2>6, <3>1, AnswersKept
  <2>7. CASE ~gone
    <3>1. out' = Append(out, pend)
      BY <1>11, <2>7 DEF WriteAnswer
    <3>2. /\ DOMAIN out' = 1..(Len(out) + 1)
          /\ \A m \in DOMAIN out : out'[m] = out[m]
          /\ out'[Len(out) + 1] = pend
      BY <1>1, <3>1, Appended
    <3>3. Got' = Got \cup {Len(out) + 1}
      <4>1. Got' = {m \in DOMAIN out' : IsAnswer(out'[m])}
        BY DEF Got, IsAnswer
      <4>2. DOMAIN out' = DOMAIN out \cup {Len(out) + 1}
        BY <1>1, <3>2
      <4> QED
        BY <2>4, <3>2, <4>1, <4>2 DEF Got
    <3>4. \A m \in Got : m \in 1..Len(out) /\ out'[m] = out[m]
      BY <1>1, <3>2 DEF Got
    <3>5. ASSUME NEW m \in Got' PROVE Faithful(out[m])' /\ out'[m].n \in Written'
      <4>1. CASE m \in Got
        <5>1. Faithful(out[m]) /\ out'[m] = out[m] /\ out[m].n \in Written
          BY <1>2, <1>11, <3>4, <4>1
        <5> QED
          BY <1>1, <2>1, <2>5, <5>1 DEF Faithful
      <4>2. CASE m = Len(out) + 1
        BY <1>1, <2>1, <2>4, <2>5, <3>2, <4>2 DEF Faithful
      <4> QED
        BY <3>3, <4>1, <4>2
    <3>6. ASSUME NEW m1 \in Got', NEW m2 \in Got', m1 < m2
          PROVE  out'[m1].n < out'[m2].n
      <4>1. m1 \in Got
        BY <1>1, <3>3, <3>4, <3>6
      <4>2. CASE m2 \in Got
        BY <1>2, <1>11, <3>4, <3>6, <4>1, <4>2
      <4>3. CASE m2 = Len(out) + 1
        <5>1. out'[m1].n \in 1..(i - 1) /\ out'[m2].n = i
          BY <1>2, <1>11, <2>1, <2>4, <3>2, <3>4, <4>1, <4>3
        <5> QED
          BY <1>1, <5>1
      <4> QED
        BY <3>3, <4>2, <4>3
    <3>7. ASSUME NEW n \in Written', fate'[n] \notin {"silent", "unencodable"}
          PROVE  \E m \in Got' : out'[m].n = n
      <4>1. CASE n \in Written
        BY <1>2, <1>11, <2>1, <2>7, <3>3, <3>4, <3>7, <4>1
      <4>2. CASE n = i
        BY <2>4, <3>2, <3>3, <4>2
      <4> QED
        BY <2>5, <4>1, <4>2
    <3> QED
      BY <2>2, <3>5, <3>6, <3>7 DEF AnswerCore
  <2> QED
    BY <2>6, <2>7
<1>12. CASE BodyFault = 0 /\ Close
  <2>1. /\ pc = "close" /\ pc' = "done" /\ UNCHANGED <<i, pend, gone, fate>>
        /\ out' = IF wrote /\ ~gone THEN Append(out, Token("close")) ELSE out
    BY <1>12 DEF Close
  <2>2. Got' = Got /\ \A m \in Got : out'[m] = out[m]
    BY <1>4, <2>1, NoAnswerAdded
  <2>3. Written' = Written
    BY <2>1 DEF Written
  <2> QED
    BY <1>12, <2>1, <2>2, <2>3, AnswersKept
<1>13. CASE BodyRefused
  BY <1>3, <1>13 DEF BodyRefused
<1> QED
  BY <1>3, <1>6, <1>7, <1>8, <1>9, <1>10, <1>11, <1>12, <1>13, StepKinds

-----------------------------------------------------------------------------
(* The request as a whole.                                                 *)

\* Nothing is written, and no call has ended, at the start.
LEMMA ReplyInit == Init => ReplyInv
<1> SUFFICES ASSUME Init PROVE ReplyInv
  OBVIOUS
<1>1. TypeInv
  BY TypeInit
<1>2. /\ pc = "body" /\ i = 0 /\ out = <<>> /\ wrote = FALSE
      /\ fate = [n \in DOMAIN body.items |-> "none"]
  BY DEF Init
<1>3. Ended = {} /\ Written = {} /\ Got = {} /\ Len(out) = 0
  BY <1>2 DEF Ended, Written, Got
<1>4. FateCore
  BY <1>2, <1>3 DEF FateCore
<1>5. AnswerCore
  BY <1>2, <1>3 DEF AnswerCore
<1>6. ShapeCore
  BY <1>2, <1>3 DEF ShapeCore, OutputIsJson, Complete
<1>7. StatusAnnouncesRefusal
  BY <1>2 DEF StatusAnnouncesRefusal, Complete
<1> QED
  BY <1>1, <1>4, <1>5, <1>6, <1>7 DEF ReplyInv

LEMMA ReplyHolds == Spec => []ReplyInv
<1>1. ReplyInv /\ [Next]_vars => ReplyInv'
  BY TypeStep, FateStep, AnswerStep, ShapeStep, StatusStep DEF ReplyInv
<1> QED
  BY <1>1, ReplyInit, PTL DEF Spec

\* The output is one JSON text, whatever the requests of a batch come to,
\* and however long the batch is (batchItemWriter, handleReader).
THEOREM OutputAlwaysJson == Spec => []OutputIsJson
<1>1. ReplyInv => OutputIsJson
  BY DEF ReplyInv, ShapeCore
<1> QED
  BY <1>1, ReplyHolds, PTL

\* A client may take a status other than 200 for the refusal of its request
\* (rpcError, httpClient).
THEOREM StatusMeansRefusal == Spec => []StatusAnnouncesRefusal
<1>1. ReplyInv => StatusAnnouncesRefusal
  BY DEF ReplyInv
<1> QED
  BY <1>1, ReplyHolds, PTL

\* At the end every call has ended, and the answers are those that are due.
LEMMA AnswersComplete == ReplyInv => AnswersMatchRequests
<1> SUFFICES ASSUME ReplyInv, Complete, BodyFault = 0 PROVE AnswersMatchRequests
  BY DEF AnswersMatchRequests
<1>1. /\ TypeInv /\ FateCore /\ AnswerCore /\ pc = "done" /\ ~gone
  BY DEF ReplyInv, Complete
<1>2. body \in Bodies
  BY <1>1 DEF TypeInv, TypeOK, RequestTypeOK
<1>3. DOMAIN body.items = 1..Len(body.items) /\ i = Len(body.items)
  BY <1>1, <1>2, BodyTyped DEF FateCore
<1>4. Ended = DOMAIN body.items /\ Written = DOMAIN body.items
  BY <1>1, <1>3 DEF Ended, Written
<1>5. \A n \in DOMAIN body.items : fate[n] \in Fates(n)
  BY <1>1, <1>4 DEF FateCore
<1>6. /\ \A m \in Got : Faithful(out[m]) /\ out[m].n \in DOMAIN body.items
      /\ \A m1, m2 \in Got : m1 < m2 => out[m1].n < out[m2].n
      /\ \A n \in DOMAIN body.items :
           fate[n] \notin {"silent", "unencodable"} => \E m \in Got : out[m].n = n
  BY <1>1, <1>4 DEF AnswerCore
<1>7. ASSUME NEW m \in Got
      PROVE  fate[out[m].n] \notin {"silent", "unencodable"}
  <2>1. IsAnswer(out[m]) /\ Faithful(out[m])
    BY <1>6 DEF Got
  <2>2. out[m].k = "error" => fate[out[m].n] \in ErrTypes
    BY <2>1 DEF Faithful
  <2>3. ErrTypes \cap {"silent", "unencodable"} = {}
    BY HttpCallAssumption
  <2>4. out[m].k = CASE fate[out[m].n] = "refused" -> "refusal"
                     [] fate[out[m].n] = "result" -> "result"
                     [] OTHER -> "error"
    BY <2>1 DEF Faithful
  <2> QED
    BY <2>2, <2>3, <2>4
<1>8. {out[m].n : m \in Got} =
        {n \in DOMAIN body.items : fate[n] \notin {"silent", "unencodable"}}
  BY <1>6, <1>7
<1>9. \A n \in DOMAIN body.items :
        fate[n] \in (IF body.items[n].id = "none" THEN {"silent", "refused"}
                     ELSE {"result", "refused", "unencodable"} \cup ErrTypes)
  BY <1>5 DEF Fates
<1>10. \A m \in Got :
         /\ out[m].named = (body.items[out[m].n].id = "ok")
         /\ out[m].k = CASE fate[out[m].n] = "refused" -> "refusal"
                         [] fate[out[m].n] = "result" -> "result"
                         [] OTHER -> "error"
  BY <1>6 DEF Faithful
<1> QED
  BY <1>6, <1>8, <1>9, <1>10 DEF AnswersMatchRequests, Got

\* The answers of a request, or of a batch of any length, are those of its
\* items: each in its place, once, with the id and the outcome of its call,
\* and none for a notification that was not refused (handleReader, handle).
THEOREM AnswersAreDue == Spec => []AnswersMatchRequests
  BY ReplyHolds, AnswersComplete, PTL

-----------------------------------------------------------------------------
(* The caller.                                                             *)

\* What an error type becomes at the client: itself when no other type took
\* over its code, and the plain error when it has none.
LEMMA ErrorArrives ==
    ASSUME NEW f \in ErrTypes, NEW t \in TypesOf(CodeOf(f))
    PROVE  /\ Registrations(f) = {} => t = "JSONRPCError"
           /\ /\ Registrations(f) # {}
              /\ \A n \in DOMAIN Registered :
                   Registered[n].code = Registered[Max(Registrations(f))].code
                     => Registered[n].type = f
              => t \in {f} \cup (IF f \in Fallible THEN {"JSONRPCError"} ELSE {})
<1>1. CodeOf(f) \in Int
  BY CodeIsRegistered
<1>2. CASE Registrations(f) = {}
  <2>1. CodeOf(f) = 1
    BY <1>2, CodeIsRegistered
  <2>2. \A n \in DOMAIN Registered : Registered[n].code # CodeOf(f)
    BY <2>1, RegisteredTyped
  <2> QED
    BY <1>1, <1>2, <2>2, TypesOfCode
<1>3. CASE /\ Registrations(f) # {}
           /\ \A n \in DOMAIN Registered :
                Registered[n].code = Registered[Max(Registrations(f))].code
                  => Registered[n].type = f
  <2>1. /\ Max(Registrations(f)) \in DOMAIN Registered
        /\ CodeOf(f) = Registered[Max(Registrations(f))].code
    BY <1>3, CodeIsRegistered
  <2>2. PICK n \in DOMAIN Registered :
          /\ Registered[n].code = CodeOf(f)
          /\ TypesOf(CodeOf(f)) = {Registered[n].type} \cup
               (IF Registered[n].type \in Fallible THEN {"JSONRPCError"} ELSE {})
    BY <1>1, <2>1, TypesOfCode
  <2>3. Registered[n].type = f
    BY <1>3, <2>1, <2>2
  <2> QED
    BY <1>3, <2>2, <2>3
<1> QED
  BY <1>2, <1>3

\* The generated function makes of a finished answer the outcome of its call.
LEMMA ReadsOwnOutcome ==
    ASSUME ReplyInv, Complete, body.ours, NEW s \in Returns,
           s \notin {"nothing", "ErrClient"}
    PROVE  /\ fate[1] = "result" \/ fate[1] = "refused" \/ fate[1] \in ErrTypes
           /\ fate[1] = "result" => s = "result"
           /\ fate[1] = "refused" => s = "JSONRPCError"
           /\ fate[1] \in ErrTypes => s \in TypesOf(CodeOf(fate[1]))
<1>1. /\ TypeInv /\ AnswerCore /\ ShapeCore /\ pc = "done"
      /\ body \in Bodies /\ out \in Seq(Answers)
  BY DEF ReplyInv, Complete, TypeInv, TypeOK, RequestTypeOK
<1>2. /\ body.shape \in {"unreadable", "toolarge", "object"} /\ ~Batch
      /\ DOMAIN body.items = {1}
  BY <1>1, BodyTyped DEF Batch
<1>3. /\ Item(1).id # "none" /\ out # <<>> /\ Head(out).named
      /\ s \in IF Head(out).k = "result" THEN {"result", "ErrClient"}
               ELSE TypesOf(Head(out).code)
  BY DEF Returns
<1>4. Head(out) = out[1] /\ 1 \in DOMAIN out /\ out[1] \in Answers
  <2>1. 1 \in 1..Len(out)
    BY <1>1, <1>3, EmptySeq
  <2> QED
    BY <1>1, <1>3, <2>1, ElementOfSeq
<1>5. BodyFault = 0
  <2>1. SUFFICES ASSUME BodyFault # 0 PROVE FALSE
    OBVIOUS
  <2>2. RefusalOfBody(out[1])
    BY <1>1, <1>4, <2>1 DEF ShapeCore
  <2> QED
    BY <1>2, <1>3, <1>4, <2>2 DEF RefusalOfBody
<1>6. IsAnswer(out[1])
  BY <1>1, <1>2, <1>4 DEF ShapeCore, Plain
<1>7. Faithful(out[1]) /\ out[1].n = 1
  <2>1. Faithful(out[1])
    BY <1>1, <1>4, <1>5, <1>6 DEF AnswerCore, Got
  <2>2. out[1].n \in DOMAIN body.items
    BY <2>1 DEF Faithful
  <2> QED
    BY <1>2, <2>1, <2>2
<1>8. /\ out[1].k = CASE fate[1] = "refused" -> "refusal"
                      [] fate[1] = "result" -> "result"
                      [] OTHER -> "error"
      /\ out[1].k = "refusal" => out[1].code <= 0
      /\ out[1].k = "error" => fate[1] \in ErrTypes /\ out[1].code = CodeOf(fate[1])
  BY <1>7 DEF Faithful
<1>9. ErrTypes \cap {"result", "refused"} = {}
  BY HttpCallAssumption
<1>10. CASE fate[1] = "result"
  BY <1>3, <1>4, <1>8, <1>9, <1>10
<1>11. CASE fate[1] = "refused"
  <2>1. out[1].k = "refusal" /\ out[1].code <= 0
    BY <1>8, <1>11
  <2>2. out[1].code \in Int
    BY <1>4 DEF Answers
  <2>3. \A n \in DOMAIN Registered : Registered[n].code # out[1].code
    BY <2>1, <2>2, RegisteredTyped
  <2>4. TypesOf(out[1].code) = {"JSONRPCError"}
    BY <2>2, <2>3, TypesOfCode
  <2> QED
    BY <1>3, <1>4, <1>9, <1>11, <2>1, <2>4
<1>12. CASE fate[1] # "result" /\ fate[1] # "refused"
  BY <1>3, <1>4, <1>8, <1>12
<1> QED
  BY <1>10, <1>11, <1>12

\* Nothing but a step of the client changes what it has seen, and after the
\* end of the request no call comes to anything else.
LEMMA SeenStep == ReplyInv /\ SeenCore /\ [Next]_vars => SeenCore'
<1> SUFFICES ASSUME ReplyInv, SeenCore, [Next]_vars PROVE SeenCore'
  OBVIOUS
<1>1. body' = body
  BY BodyKept
<1>2. /\ ~body.ours => seen = "unread"
      /\ body.ours /\ gone => seen # "unread"
      /\ seen \notin {"unread", "ErrClient"} => pc = "done"
      /\ CallerSeesOwnOutcome
  BY DEF SeenCore
<1>3. pc = "done" => pc' = "done" /\ fate' = fate
  BY StepKinds DEF Beside, BodyRefused, Begins, GoesOn, Ends, EndsWith,
     EndsSilent, Calling, WriteLead, WriteAnswer, Close
<1>4. CASE ClientReads
  <2>1. /\ body.ours /\ pc = "done" /\ seen = "unread" /\ seen' \in Returns
        /\ UNCHANGED <<pc, gone, fate>>
    BY <1>4 DEF ClientReads
  <2>2. Complete
    BY <1>2, <2>1 DEF Complete
  <2>3. CallerSeesOwnOutcome'
    <3>1. CASE seen' \in {"nothing", "ErrClient"}
      BY <3>1 DEF CallerSeesOwnOutcome
    <3>2. CASE seen' \notin {"nothing", "ErrClient"}
      <4>1. /\ fate[1] = "result" \/ fate[1] = "refused" \/ fate[1] \in ErrTypes
            /\ fate[1] = "result" => seen' = "result"
            /\ fate[1] = "refused" => seen' = "JSONRPCError"
            /\ fate[1] \in ErrTypes => seen' \in TypesOf(CodeOf(fate[1]))
        BY <2>1, <2>2, <3>2, ReadsOwnOutcome
      <4>2. ErrTypes \cap {"result", "refused"} = {}
        BY HttpCallAssumption
      <4>3. CASE fate[1] \in ErrTypes
        <5>1. fate'[1] \in ErrTypes /\ seen' \in TypesOf(CodeOf(fate'[1]))
              /\ fate'[1] # "result" /\ fate'[1] # "refused"
          BY <2>1, <4>1, <4>2, <4>3
        <5> QED
          BY <5>1, ErrorArrives DEF CallerSeesOwnOutcome
      <4>4. CASE fate[1] \in {"result", "refused"}
        BY <2>1, <4>1, <4>2, <4>4 DEF CallerSeesOwnOutcome
      <4> QED
        BY <4>1, <4>3, <4>4
    <3> QED
      BY <3>1, <3>2
  <2>4. seen' # "unread"
    <3>1. out # <<>> => Head(out) \in Answers
      BY DEF ReplyInv, TypeInv, TypeOK, RequestTypeOK
    <3>2. Returns \subseteq {"nothing", "result", "JSONRPCError", "ErrClient"}
                            \cup ErrTypes
      BY <3>1, TypesOfCode DEF Returns, Answers
    <3> QED
      BY <2>1, <3>2, HttpCallAssumption
  <2> QED
    BY <1>1, <2>1, <2>3, <2>4 DEF SeenCore
<1>5. CASE ClientGone
  <2>1. /\ pc # "done" /\ seen' = IF body.ours THEN "ErrClient" ELSE seen
        /\ pc' = pc
    BY <1>5 DEF ClientGone
  <2>2. seen' \in {"unread", "ErrClient"}
    BY <1>2, <2>1
  <2>3. CallerSeesOwnOutcome'
    BY <2>2 DEF CallerSeesOwnOutcome
  <2> QED
    BY <1>1, <1>2, <2>1, <2>2, <2>3 DEF SeenCore
<1>6. CASE UNCHANGED <<seen, gone>>
  <2>1. CASE seen \in {"unread", "ErrClient"}
    <3>1. CallerSeesOwnOutcome'
      BY <1>6, <2>1 DEF CallerSeesOwnOutcome
    <3> QED
      BY <1>1, <1>2, <1>6, <2>1, <3>1 DEF SeenCore
  <2>2. CASE seen \notin {"unread", "ErrClient"}
    <3>1. pc = "done" /\ pc' = "done" /\ fate' = fate
      BY <1>2, <1>3, <2>2
    <3>2. CallerSeesOwnOutcome'
      BY <1>2, <1>6, <3>1 DEF CallerSeesOwnOutcome
    <3> QED
      BY <1>1, <1>2, <1>6, <3>1, <3>2 DEF SeenCore
  <2> QED
    BY <2>1, <2>2
<1> QED
  BY <1>4, <1>5, <1>6
  DEF Next, Handler, vars, reqVars, CheckBody, CheckId, Lookup, Params,
      CallPanics, CallReturns, WriteLead, WriteAnswer, Close, DecoderLooks,
      DecoderGivesUp, Meet, PostArrives, Consume, PostAnswered, PostGivesUp

\* The caller of a generated function sees the outcome of its own call, in
\* the type that the server returned when no other type took over its code,
\* or the ErrClient of a failed exchange (createError, JSONRPCError.val,
\* processResponse).
THEOREM CallerSeesOutcome == Spec => []CallerSeesOwnOutcome
<1>1. Init => SeenCore
  BY DEF Init, SeenCore, CallerSeesOwnOutcome
<1>2. SeenCore => CallerSeesOwnOutcome
  BY DEF SeenCore
<1> QED
  BY <1>1, <1>2, ReplyHolds, SeenStep, PTL DEF Spec
=============================================================================
