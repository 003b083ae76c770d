------------------------------ MODULE MCDuplex ------------------------------
(* Instances of Duplex for TLC.                                            *)
EXTENDS Duplex, TLC

CONSTANTS f1, f2

Both == {f1, f2}
First == {1}
Never == {}
=============================================================================
