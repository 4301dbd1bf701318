------------------------------ MODULE MCRelay ------------------------------
(***************************************************************************)
(* Small instances of MessageRelay: two subscribers, keys of one or the    *)
(* other, or of both.                                                      *)
(***************************************************************************)
EXTENDS MessageRelay

CONSTANTS s1, s2, login, junk

TwoSubscribers == {s1, s2}
JustS1 == {s1}

TwoKeys == {login, junk}
OnlyLogin == {login}
OnlyJunk == {junk}
Nothing == {}

\* Every key belongs to one subscriber: login to s1, junk to s2.
ExclusivePair == [k \in TwoKeys |-> IF k = login THEN {s1} ELSE {s2}]

\* Two subscriptions to one channel: both get every message of its devices.
SharedLogin == [k \in OnlyLogin |-> {s1, s2}]

\* One client subscribes to one channel.
OneSubscriber == [k \in OnlyLogin |-> {s1}]
=============================================================================
