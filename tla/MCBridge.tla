------------------------------ MODULE MCBridge ------------------------------
(***************************************************************************)
(* Small instances of Bridge.                                              *)
(***************************************************************************)
EXTENDS Bridge

CONSTANTS s1, s2, login, junk, c1, c2

JustS1 == {s1}
TwoSubscribers == {s1, s2}
OnlyLogin == {login}
OnlyJunk == {junk}
Nothing == {}
TwoKeys == {login, junk}
JustC1 == {c1}
TwoConns == {c1, c2}

\* One client subscribes to everything.
AllToS1 == [k \in TwoKeys |-> {s1}]
LoginToS1 == [k \in OnlyLogin |-> {s1}]
=============================================================================
