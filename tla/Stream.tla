------------------------------- MODULE Stream -------------------------------
(***************************************************************************)
(* What go-jsonrpc promises about one channel that a method returns: the   *)
(* program on the other side reads the values that the method wrote, in    *)
(* order, each once and none skipped, except those that cannot be encoded  *)
(* or decoded, and then sees its channel closed.  It sees it closed early  *)
(* only when it cancelled the call or the connection was lost.             *)
(*                                                                         *)
(* This is the specification that StreamPath implements.                   *)
(***************************************************************************)
EXTENDS Naturals, Sequences

CONSTANT Vals       \* the values that can be encoded and decoded

VARIABLES
    sent,           \* the values of Vals taken from the channel, in order
    closed,         \* the method closed its channel
    given,          \* what the program has read
    cancelled,      \* the program cancelled the call
    lost,           \* the connection is gone
    ended           \* the channel of the program is closed

vars == <<sent, closed, given, cancelled, lost, ended>>

Init ==
    /\ sent = <<>> /\ given = <<>>
    /\ closed = FALSE /\ cancelled = FALSE /\ lost = FALSE /\ ended = FALSE

Send ==
    /\ ~closed
    /\ \E v \in Vals : sent' = Append(sent, v)
    /\ UNCHANGED <<closed, given, cancelled, lost, ended>>

Close ==
    /\ closed' = TRUE
    /\ UNCHANGED <<sent, given, cancelled, lost, ended>>

\* The program reads the next value.
Deliver ==
    /\ ~ended /\ Len(given) < Len(sent)
    /\ given' = Append(given, sent[Len(given) + 1])
    /\ UNCHANGED <<sent, closed, cancelled, lost, ended>>

Cancel ==
    /\ cancelled' = TRUE
    /\ UNCHANGED <<sent, closed, given, lost, ended>>

Lose ==
    /\ lost' = TRUE
    /\ UNCHANGED <<sent, closed, given, cancelled, ended>>

Complete == closed /\ given = sent

End ==
    /\ Complete \/ cancelled \/ lost
    /\ ended' = TRUE
    /\ UNCHANGED <<sent, closed, given, cancelled, lost>>

Next == Send \/ Close \/ Deliver \/ Cancel \/ Lose \/ End

Spec == Init /\ [][Next]_vars
=============================================================================
