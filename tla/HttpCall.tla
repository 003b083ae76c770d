------------------------------ MODULE HttpCall ------------------------------
(***************************************************************************)
(* One request to the HTTP side of a go-jsonrpc server: the checks of its  *)
(* body, single requests and batches (handler.go: handleReader,            *)
(* batchWriter), the call of a method with every early return (handle,     *)
(* doCall), the answers (rpcError, createError, response) and what the     *)
(* generated function of an HTTP client makes of them (client.go:          *)
(* httpClient, processResponse, processError; errors.go; response.go).     *)
(* With it runs the server half of httpio, which a method with an          *)
(* io.Reader parameter needs: the body of the reader comes in a POST of    *)
(* its own, and meets the call under a uuid.                               *)
(*                                                                         *)
(* Requests over HTTP share nothing but the table of readers, so that one  *)
(* of them, next to the POSTs, is the whole system.  Bodies and answers    *)
(* are abstract: a body has a shape and items, an answer the place of its  *)
(* item in the body, whether it carries the id of the item, and a code.    *)
(* A body that is "ours" was sent by a generated function.                 *)
(***************************************************************************)
EXTENDS Integers, Sequences, FiniteSets, SequencesExt

CONSTANTS
    Bodies,         \* the request bodies, see HttpCallAssumption
    Methods,        \* the kind of each registered method
    Aliases,        \* aliasedMethods: alias to name
    ErrTypes,       \* the error types that methods return
    Fallible,       \* those that carry data, which may fail to decode
    Registered,     \* the calls of Errors.Register, in order, on both sides
    Uuids,          \* what reader parameters and POSTs name
    Posts,          \* the POSTs that push a reader
    uuid,           \* the uuid of each of them
    NoPost          \* no POST

ASSUME HttpCallAssumption ==
    /\ \A n \in DOMAIN Methods : Methods[n] \in {"plain", "chan", "reader"}
    /\ Registered \in Seq([type : ErrTypes, code : Nat \ {0, 1}])
    /\ ErrTypes \cap {"none", "silent", "result", "refused", "unencodable",
                     "unread", "nothing", "JSONRPCError", "ErrClient"} = {}
    /\ IsFiniteSet(Uuids) /\ uuid \in [Posts -> Uuids] /\ NoPost \notin Posts
    /\ \A b \in Bodies :
         /\ b.shape \in {"unreadable", "toolarge", "blank", "garbled",
                         "object", "array"}
         /\ b.items \in Seq([id : {"none", "ok", "bad"}, method : STRING,
                             uuid : Uuids])
         /\ b.shape = "object" => Len(b.items) = 1
         /\ b.ours => /\ b.shape \in {"unreadable", "toolarge", "object"}
                      /\ Len(b.items) = 1

VARIABLES
    body,           \* the body of the request
    pc, i,          \* where the handler is, and at which item
    pend,           \* the answer it is about to write
    status,         \* the HTTP status, 0 until it is sent
    out,            \* what was written: brackets, commas and answers
    wrote,          \* batchWriter.wrote
    gone,           \* the client disconnected: writes fail, the context is done
    seen,           \* what the generated function returned
    fate,           \* history: how the call of each item ended
    \* reader parameters
    readers,        \* uuid to channel: the map, with its channels numbered
    nch,            \* channels made so far
    ch,             \* the channel each POST, and the decoder, looked up
    post,           \* where the handler of each POST is
    consumed,       \* POSTs whose body was read to its end, failed or closed
    taken           \* the item whose call got the body of each POST, or 0

reqVars  == <<body, pc, i, pend, status, out, wrote, gone, seen, fate>>
postVars == <<readers, nch, ch, post, consumed, taken>>

vars == <<reqVars, postVars>>

-----------------------------------------------------------------------------
ParseError == -32700
InvalidRequest == -32600
MethodNotFound == -32601
InvalidParams == -32602

Item(n) == body.items[n]
Answer(kind, n, named, code) ==
    [k |-> kind, n |-> n, named |-> named, code |-> code]
Token(t) == Answer(t, 0, FALSE, 0)
NoAnswer == Token("none")
Decoder == NoPost

Init ==
    /\ body \in Bodies
    /\ pc = "body" /\ i = 0 /\ pend = NoAnswer
    /\ status = 0 /\ out = <<>> /\ wrote = FALSE
    /\ gone = FALSE /\ seen = "unread"
    /\ fate = [n \in DOMAIN body.items |-> "none"]
    /\ readers = [u \in Uuids |-> 0] /\ nch = 0
    /\ ch = [p \in Posts \cup {Decoder} |-> 0]
    /\ post = [p \in Posts |-> "idle"]
    /\ consumed = {} /\ taken = [p \in Posts |-> 0]

-----------------------------------------------------------------------------
(* Methods, aliases and errors.                                            *)

\* A registered name comes before an alias; the target of an alias is looked
\* up among the names only.
KindOf(name) ==
    CASE name \in DOMAIN Methods -> Methods[name]
      [] name \in DOMAIN Aliases \ DOMAIN Methods ->
           IF Aliases[name] \in DOMAIN Methods THEN Methods[Aliases[name]]
           ELSE "unknown"
      [] OTHER -> "unknown"

Registrations(t) == {n \in DOMAIN Registered : Registered[n].type = t}

\* Variant: a type keeps the code it was first registered with.
FirstCodeOf(t) ==
    IF Registrations(t) = {} THEN 1 ELSE Registered[Min(Registrations(t))].code

\* createError: the code of the type, 1 when it has none.
CodeOf(t) ==
    IF Registrations(t) = {} THEN 1 ELSE Registered[Max(Registrations(t))].code

\* JSONRPCError.val: the types that an error with the code can become.  The
\* last type registered with the code, unless its data does not decode.
TypesOf(code) ==
    LET hits == {n \in DOMAIN Registered : Registered[n].code = code}
        t    == Registered[Max(hits)].type
    IN  IF hits = {} THEN {"JSONRPCError"}
        ELSE {t} \cup (IF t \in Fallible THEN {"JSONRPCError"} ELSE {})

-----------------------------------------------------------------------------
(* handleReader: the body.                                                 *)

Batch == body.shape = "array"

\* What is wrong with a body as a whole, 0 if nothing.
BodyFault ==
    CASE body.shape \in {"unreadable", "toolarge", "garbled"} -> ParseError
      [] body.shape = "blank" \/ (Batch /\ body.items = <<>>) -> InvalidRequest
      [] OTHER -> 0

\* The body is refused, or its first item is next.  The id of a request
\* that was decoded in part may have been read.
CheckBody ==
    /\ pc = "body"
    /\ IF BodyFault # 0
       THEN /\ \E named \in {FALSE, body.shape = "garbled"} :
                 pend' = Answer("refusal", 0, named, BodyFault)
            /\ pc' = "write" /\ UNCHANGED i
       ELSE pc' = "item" /\ i' = 1 /\ UNCHANGED pend
    /\ UNCHANGED <<body, status, out, wrote, gone, seen, fate, postVars>>

\* rpcError: the call ends with an error of the server's own.
Refuse(code, named) ==
    /\ pend' = Answer("refusal", i, named, code)
    /\ fate' = [fate EXCEPT ![i] = "refused"]
    /\ pc' = "write"

HasId == Item(i).id = "ok"

\* Of an item the id is checked first.
CheckId ==
    /\ pc = "item"
    /\ IF Item(i).id = "bad" THEN Refuse(ParseError, FALSE)
       ELSE pc' = "lookup" /\ UNCHANGED <<pend, fate>>
    /\ UNCHANGED <<body, i, status, out, wrote, gone, seen, postVars>>

NextItem ==
    IF i < Len(body.items) THEN pc' = "item" /\ i' = i + 1
    ELSE pc' = "close" /\ UNCHANGED i

-----------------------------------------------------------------------------
(* handle: one call.                                                       *)

\* The method is looked up; over HTTP none can return a channel.
Lookup ==
    /\ pc = "lookup"
    /\ IF KindOf(Item(i).method) \in {"unknown", "chan"}
       THEN Refuse(MethodNotFound, HasId)
       ELSE pc' = "params" /\ UNCHANGED <<pend, fate>>
    /\ UNCHANGED <<body, i, status, out, wrote, gone, seen, postVars>>

\* The parameters are refused, or decoded; a reader still has to be met.
Params ==
    /\ pc = "params"
    /\ \/ \E code \in {ParseError, InvalidParams} : Refuse(code, HasId)
       \/ /\ pc' = IF KindOf(Item(i).method) = "reader" THEN "reader" ELSE "call"
          /\ UNCHANGED <<pend, fate>>
    /\ UNCHANGED <<body, i, status, out, wrote, gone, seen, postVars>>

\* The method panics.
CallPanics ==
    /\ pc = "call"
    /\ Refuse(0, HasId)
    /\ UNCHANGED <<body, i, status, out, wrote, gone, seen, postVars>>

\* Variant: a notification is answered like any call.
NeverSilent == FALSE

\* A call without id is not answered.
Silent == ~HasId

\* It returns.  Of a call with an id a result or an error of the method is
\* written; or it cannot be encoded, which is only logged; or the encoder
\* panics, which is answered.
CallReturns ==
    /\ pc = "call"
    /\ \/ /\ Silent
          /\ fate' = [fate EXCEPT ![i] = "silent"]
          /\ NextItem /\ UNCHANGED pend
       \/ /\ ~Silent
          /\ pend' = Answer("result", i, HasId, 0)
          /\ fate' = [fate EXCEPT ![i] = "result"]
          /\ pc' = "write" /\ UNCHANGED i
       \/ /\ ~Silent
          /\ \E t \in ErrTypes :
               /\ pend' = Answer("error", i, HasId, CodeOf(t))
               /\ fate' = [fate EXCEPT ![i] = t]
          /\ pc' = "write" /\ UNCHANGED i
       \/ /\ ~Silent
          /\ fate' = [fate EXCEPT ![i] = "unencodable"]
          /\ NextItem /\ UNCHANGED pend
       \/ ~Silent /\ Refuse(0, HasId) /\ UNCHANGED i
    /\ UNCHANGED <<body, status, out, wrote, gone, seen, postVars>>

-----------------------------------------------------------------------------
(* Writing.                                                                *)

InBatch == Batch /\ pend.n # 0

\* Variant: what separates the answers is written by the place of the item.
LeadByPlace == IF i > 1 THEN Token("comma") ELSE Token("open")

\* batchItemWriter: a bracket before the first answer, a comma before any
\* other.
Lead == IF wrote THEN Token("comma") ELSE Token("open")

\* The first write of an answer in a batch.
WriteLead ==
    /\ pc = "write" /\ InBatch
    /\ IF gone THEN NextItem /\ UNCHANGED <<out, wrote, status>>
       ELSE /\ out' = Append(out, Lead)
            /\ wrote' = TRUE /\ status' = 200
            /\ pc' = "answer" /\ UNCHANGED i
    /\ UNCHANGED <<body, pend, gone, seen, fate, postVars>>

\* Variant: every answer is sent with 200 unless the body was at fault.
StatusOfBody ==
    IF pend.n # 0 THEN 200 ELSE IF pend.code = InvalidRequest THEN 400 ELSE 500

\* Only a refusal that is not part of a batch sets the status.
StatusFor ==
    IF pend.k # "refusal" \/ InBatch THEN 200
    ELSE IF pend.code = InvalidRequest THEN 400 ELSE 500

\* The answer itself; one that is not part of a batch is the whole output.
WriteAnswer ==
    /\ pc = IF InBatch THEN "answer" ELSE "write"
    /\ IF gone THEN UNCHANGED <<out, status>>
       ELSE out' = Append(out, pend) /\ status' = StatusFor
    /\ IF InBatch THEN NextItem ELSE pc' = "done" /\ UNCHANGED i
    /\ UNCHANGED <<body, pend, wrote, gone, seen, fate, postVars>>

\* The end of a batch, and of a single request without answer.
Close ==
    /\ pc = "close" /\ pc' = "done"
    /\ out' = IF wrote /\ ~gone THEN Append(out, Token("close")) ELSE out
    /\ status' = 200
    /\ UNCHANGED <<body, i, pend, wrote, gone, seen, fate, postVars>>

-----------------------------------------------------------------------------
(* The client.                                                             *)

\* What the generated function can make of the answer.  A notification does
\* not look at it; an answer without the id of the request is refused; a
\* result may not decode.
Returns ==
    IF Item(1).id = "none" THEN {"nothing"}
    ELSE IF out = <<>> \/ ~Head(out).named THEN {"ErrClient"}
    ELSE IF Head(out).k = "result" THEN {"result", "ErrClient"}
    ELSE TypesOf(Head(out).code)

ClientReads ==
    /\ body.ours /\ pc = "done" /\ seen = "unread"
    /\ seen' \in Returns
    /\ UNCHANGED <<body, pc, i, pend, status, out, wrote, gone, fate, postVars>>

\* The client disconnects, or loses the connection.
ClientGone ==
    /\ pc # "done" /\ ~gone /\ gone' = TRUE
    /\ seen' = IF body.ours THEN "ErrClient" ELSE seen
    /\ UNCHANGED <<body, pc, i, pend, status, out, wrote, fate, postVars>>

-----------------------------------------------------------------------------
(* httpio: the POST of a reader and the decoder of the parameter.          *)

\* Variant: the channel that was made is not put into the map.
ChannelNotKept(u) ==
    /\ IF readers[u] # 0 THEN UNCHANGED nch ELSE nch' = nch + 1
    /\ UNCHANGED readers

\* readersLk: the channel of the uuid, made by whoever comes first.
ChannelKept(u) ==
    IF readers[u] # 0 THEN UNCHANGED <<readers, nch>>
    ELSE nch' = nch + 1 /\ readers' = [readers EXCEPT ![u] = nch + 1]

ChannelOf(u) == IF readers[u] # 0 THEN readers[u] ELSE nch + 1

\* The POST arrives and offers its body.
PostArrives(p) ==
    /\ post[p] = "idle" /\ post' = [post EXCEPT ![p] = "offer"]
    /\ ch' = [ch EXCEPT ![p] = ChannelOf(uuid[p])]
    /\ ChannelKept(uuid[p])
    /\ UNCHANGED <<reqVars, consumed, taken>>

\* The decoder looks for the body of the uuid that the parameter names.
DecoderLooks ==
    /\ pc = "reader" /\ pc' = "meet"
    /\ ch' = [ch EXCEPT ![Decoder] = ChannelOf(Item(i).uuid)]
    /\ ChannelKept(Item(i).uuid)
    /\ UNCHANGED <<body, i, pend, status, out, wrote, gone, seen, fate, post,
                   consumed, taken>>

\* Variant: any body will do.
AnyBody(p) == TRUE

\* The POST and the decoder are at the two ends of one channel.
SameChannel(p) == ch[p] = ch[Decoder]

\* Both are there: the call gets the body.
Meet(p) ==
    /\ pc = "meet" /\ post[p] = "offer" /\ SameChannel(p)
    /\ pc' = "call" /\ taken' = [taken EXCEPT ![p] = i]
    /\ post' = [post EXCEPT ![p] = "wait"]
    /\ UNCHANGED <<body, i, pend, status, out, wrote, gone, seen, fate,
                   readers, nch, ch, consumed>>

\* The decoder gives up with the context of the request.
DecoderGivesUp ==
    /\ pc = "meet" /\ gone
    /\ Refuse(ParseError, HasId)
    /\ UNCHANGED <<body, i, status, out, wrote, gone, seen, postVars>>

\* Whoever has the body reads it to its end, gets an error from it, or
\* closes it: the method, or a goroutine that it left behind.
Consume(p) ==
    /\ taken[p] # 0 /\ p \notin consumed
    /\ consumed' = consumed \cup {p}
    /\ UNCHANGED <<reqVars, readers, nch, ch, post, taken>>

PostAnswered(p) ==
    /\ post[p] = "wait" /\ p \in consumed
    /\ post' = [post EXCEPT ![p] = "ok"]
    /\ UNCHANGED <<reqVars, readers, nch, ch, consumed, taken>>

\* The context of the POST is done, in either select.
PostGivesUp(p) ==
    /\ post[p] \in {"offer", "wait"}
    /\ post' = [post EXCEPT ![p] = "failed"]
    /\ UNCHANGED <<reqVars, readers, nch, ch, consumed, taken>>

-----------------------------------------------------------------------------
Handler ==
    \/ CheckBody \/ CheckId \/ Lookup \/ Params \/ CallPanics \/ CallReturns
    \/ WriteLead \/ WriteAnswer \/ Close
    \/ DecoderLooks \/ DecoderGivesUp \/ \E p \in Posts : Meet(p)

Next ==
    \/ Handler \/ ClientReads \/ ClientGone
    \/ \E p \in Posts :
         PostArrives(p) \/ Consume(p) \/ PostAnswered(p) \/ PostGivesUp(p)

Spec == Init /\ [][Next]_vars

\* The handler runs and methods return.  Nobody has to push a reader, to read
\* it, to disconnect or to give up.
FairSpec == Spec /\ WF_vars(Handler)

-----------------------------------------------------------------------------
(* Properties.                                                             *)

Answers == [k : {"result", "error", "refusal", "open", "comma", "close", "none"},
            n : 0..Len(body.items), named : BOOLEAN, code : Int]

RequestTypeOK ==
    /\ body \in Bodies
    /\ pc \in {"body", "item", "lookup", "params", "reader", "meet", "call",
               "write", "answer", "close", "done"}
    /\ i \in 0..Len(body.items)
    /\ pc \in {"item", "lookup", "params", "reader", "meet", "call", "close"} => i > 0
    /\ pend \in Answers /\ out \in Seq(Answers)
    /\ status \in {0, 200, 400, 500}
    /\ wrote \in BOOLEAN /\ gone \in BOOLEAN
    /\ seen \in {"unread", "nothing", "result", "JSONRPCError", "ErrClient"}
                \cup ErrTypes
    /\ fate \in [DOMAIN body.items ->
                   {"none", "silent", "result", "refused", "unencodable"} \cup ErrTypes]

ReaderTypeOK ==
    /\ nch \in 0..Cardinality(Uuids)
    /\ readers \in [Uuids -> 0..nch] /\ ch \in [Posts \cup {Decoder} -> 0..nch]
    /\ post \in [Posts -> {"idle", "offer", "wait", "ok", "failed"}]
    /\ taken \in [Posts -> 0..Len(body.items)]
    /\ consumed \subseteq {p \in Posts : taken[p] # 0}

\* The variables stay in their ranges, and the handler is at an item of the
\* body, or past the check of the body as a whole.
TypeOK == RequestTypeOK /\ ReaderTypeOK

IsAnswer(t) == t.k \in {"result", "error", "refusal"}

\* What the client of a finished request reads.
Complete == pc = "done" /\ ~gone

\* Whatever the requests of a batch come to (answered, notifications, not
\* encodable), in any order, the output of a finished request is one JSON
\* text or nothing: an answer, or a bracket, answers with a comma between
\* every two, and a bracket (batchItemWriter, handleReader).
OutputIsJson ==
    Complete /\ out # <<>> =>
      IF Len(out) = 1 THEN IsAnswer(out[1])
      ELSE /\ Batch /\ Len(out) % 2 = 1
           /\ out[1].k = "open" /\ Last(out).k = "close"
           /\ \A n \in 2..(Len(out) - 1) :
                IF n % 2 = 0 THEN IsAnswer(out[n]) ELSE out[n].k = "comma"

\* Of a finished request whose body was not refused, the answers are those
\* of its items, in their order: every item with an id has exactly one,
\* unless it cannot be encoded; one without an id has none, unless it was
\* refused; and the kind of the answer is what the call came to.
AnswersMatchRequests ==
    LET got == {m \in DOMAIN out : IsAnswer(out[m])}
    IN  Complete /\ BodyFault = 0 =>
          /\ \A n \in DOMAIN body.items :
               fate[n] \in (IF body.items[n].id = "none" THEN {"silent", "refused"}
                            ELSE {"result", "refused", "unencodable"} \cup ErrTypes)
          /\ {out[m].n : m \in got} =
               {n \in DOMAIN body.items : fate[n] \notin {"silent", "unencodable"}}
          /\ \A m1, m2 \in got : m1 < m2 => out[m1].n < out[m2].n
          /\ \A m \in got :
               LET n == out[m].n
               IN  /\ out[m].named = (body.items[n].id = "ok")
                   /\ out[m].k = CASE fate[n] = "refused" -> "refusal"
                                   [] fate[n] = "result" -> "result"
                                   [] OTHER -> "error"

\* A status other than 200 announces exactly one error of the server's own,
\* never a batch and never what a method returned (rpcError; the client
\* counts on it, client.go: httpClient).
StatusAnnouncesRefusal ==
    Complete =>
      ((status # 200) <=> (Len(out) = 1 /\ out[1].k = "refusal"))

\* The caller of a generated function gets the outcome of its own call or
\* the ErrClient of a failed exchange.  An error type whose code no other
\* type took over arrives as that type (or, when its data does not decode,
\* as the plain JSONRPCError); one without a code as the JSONRPCError.
CallerSeesOwnOutcome ==
    LET own(t) == \A n \in DOMAIN Registered :
                    Registered[n].code = Registered[Max(Registrations(t))].code
                      => Registered[n].type = t
        f == fate[1]
    IN  seen \notin {"unread", "nothing", "ErrClient"} =>
          CASE f = "result" -> seen = "result"
            [] f = "refused" -> seen = "JSONRPCError"
            [] f \in ErrTypes ->
                 /\ Registrations(f) = {} => seen = "JSONRPCError"
                 /\ Registrations(f) # {} /\ own(f) =>
                      seen \in {f} \cup (IF f \in Fallible THEN {"JSONRPCError"} ELSE {})
            [] OTHER -> FALSE

\* The POST of a reader is told that all is well only when its body was
\* taken by the call whose parameter named it, and was read to an end.
PushedToItsCall ==
    \A p \in Posts :
      /\ taken[p] # 0 => body.items[taken[p]].uuid = uuid[p]
      /\ post[p] = "ok" => taken[p] # 0 /\ p \in consumed

\* A request comes to its end.  Only a call whose client stays may wait for
\* ever, for a reader that nobody pushes: whichever comes first, the call
\* and the POST with its reader find each other (ReaderParamDecoder).
RequestEnds ==
    \/ <>(pc = "done")
    \/ <>[](/\ pc = "meet" /\ ~gone
            /\ \A p \in Posts : ~(uuid[p] = Item(i).uuid /\ post[p] = "offer"))
=============================================================================
