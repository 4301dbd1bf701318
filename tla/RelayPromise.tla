---------------------------- MODULE RelayPromise ----------------------------
(***************************************************************************)
(* What the relay of the bridge promises, without its threads, channels,   *)
(* clock or history: messages come from sources; the messages of one       *)
(* source are dealt with one after the other; each is announced to the web *)
(* side at most once, never after it has been applied to the database, and *)
(* applied at most once.  MessageRelay implements this specification.      *)
(***************************************************************************)
EXTENDS Naturals, Sequences

CONSTANT Sources    \* the parties messages come from

VARIABLES
  received,   \* the source of every message, in the order of arrival
  announced,  \* the messages (indices of received) announced to the web side
  applied     \* the messages handed to the database side

promiseVars == <<received, announced, applied>>

PromiseInit ==
  /\ received = <<>>
  /\ announced = {}
  /\ applied = {}

\* Message m may be dealt with: it is here, it is not finished, and every
\* earlier message of its source is.
Due(m) ==
  /\ m \in DOMAIN received
  /\ m \notin applied
  /\ \A e \in 1 .. m - 1 : received[e] = received[m] => e \in applied

Receive(s) ==
  /\ received' = Append(received, s)
  /\ UNCHANGED <<announced, applied>>

Announce(m) ==
  /\ Due(m)
  /\ m \notin announced
  /\ announced' = announced \cup {m}
  /\ UNCHANGED <<received, applied>>

Apply(m) ==
  /\ Due(m)
  /\ applied' = applied \cup {m}
  /\ UNCHANGED <<received, announced>>

PromiseNext ==
  \/ \E s \in Sources : Receive(s)
  \/ \E m \in DOMAIN received : Announce(m) \/ Apply(m)

PromiseSpec == PromiseInit /\ [][PromiseNext]_promiseVars
=============================================================================
