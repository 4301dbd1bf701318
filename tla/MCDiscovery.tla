---------------------------- MODULE MCDiscovery ----------------------------
(***************************************************************************)
(* Small instances of DeviceDiscovery: a device amp that advertises itself  *)
(* before and after a change of its settings, and another device, amp10,    *)
(* whose name contains the first one's.                                     *)
(***************************************************************************)
EXTENDS DeviceDiscovery

CONSTANTS amp, ampNew, amp10, nameAmp, nameAmp10, reply, r1, r2

TheAdverts == {amp, ampNew, amp10}
TheNames == {nameAmp, nameAmp10}
TheNameOf == [a \in TheAdverts |-> IF a = amp10 THEN nameAmp10 ELSE nameAmp]
JustReply == {reply}
Nothing == {}
OneReader == {r1}
TwoReaders == {r1, r2}

\* No name contains another.
ExactWords == [a \in TheAdverts |-> {TheNameOf[a]}]

\* The text "amp10" contains the text "amp".
NestedWords == [a \in TheAdverts |-> {nameAmp} \cup {TheNameOf[a]}]
=============================================================================
