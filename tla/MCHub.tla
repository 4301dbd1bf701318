------------------------------- MODULE MCHub -------------------------------
(***************************************************************************)
(* A small instance of ClientHub.                                          *)
(***************************************************************************)
EXTENDS ClientHub

CONSTANTS c1, c2, c3

TwoConns == {c1, c2}
ThreeConns == {c1, c2, c3}
=============================================================================
