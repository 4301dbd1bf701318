------------------------------- MODULE Bridge -------------------------------
(***************************************************************************)
(* The path of a message through the whole bridge: MessageRelay and         *)
(* ClientHub in one process.  The goroutine handleMessages belongs to both: *)
(* its broadcast case is one step of the relay, and lasts as long as the    *)
(* hub's range over the clients; meanwhile it receives from no channel.     *)
(***************************************************************************)
EXTENDS Naturals, Sequences

CONSTANTS Subscribers, Keys, Route, Silent, Stored, Window, NoStamp, MaxMsgs,
          MaxTime, Conns, NoConn

VARIABLES alive,
          now, history, pc, cur, seen, chan, inHand, log, stamp, announced, applied,
          place, health, open, clients, hub, target, casts, owed, visited, inbox, raced,
          sent   \* the message each broadcast carries

relayVars == <<now, history, pc, cur, seen, chan, inHand, log, stamp, announced, applied>>
hubVars == <<place, health, open, clients, hub, target, casts, owed, visited, inbox, raced>>
vars == <<alive, relayVars, hubVars, sent>>

Relay == INSTANCE MessageRelay
Hub == INSTANCE ClientHub WITH MaxCasts <- MaxMsgs

\* What each part assumes of its constants.
ASSUME BridgeAssumption == Relay!RelayAssumption /\ Hub!HubAssumption

TypeOK ==
  /\ Relay!TypeOK
  /\ Hub!TypeOK
  /\ sent \in Seq(DOMAIN log)
  /\ Len(sent) = casts
  /\ hub # "idle" => chan = "cast" /\ sent[casts] = inHand

Init ==
  /\ Relay!Init
  /\ Hub!Init
  /\ sent = <<>>

-----------------------------------------------------------------------------
OnlyRelay(A) == A /\ UNCHANGED <<hubVars, sent>>
OnlyHub(A) == A /\ UNCHANGED <<relayVars, sent>>

\* A slip: the payload is rejected only after it has been sent on.
BeginBroadcastUnchecked ==
  /\ chan = "cast"
  /\ Hub!StartRange
  /\ sent' = Append(sent, inHand)
  /\ UNCHANGED relayVars

\* The broadcast case has parsed its payload and starts to write it out.
BeginBroadcast ==
  /\ chan = "cast"
  /\ Relay!Parses(log[inHand].key)
  /\ Hub!StartRange
  /\ sent' = Append(sent, inHand)
  /\ UNCHANGED relayVars

\* A slip: the range is left after the first client.
EndBroadcastEarly ==
  /\ hub = "range"
  /\ hub' = "idle"
  /\ owed' = {}
  /\ visited' = {}
  /\ Relay!HandleBroadcast
  /\ UNCHANGED <<place, health, open, clients, target, casts, inbox, raced, sent>>

\* A slip: the clients are written to by a goroutine of their own, for which
\* the case does not wait.
EndBroadcastDetached ==
  /\ hub # "idle"
  /\ Relay!HandleBroadcast
  /\ UNCHANGED <<hubVars, sent>>

\* The range is over, and with it the broadcast case.
EndBroadcast ==
  /\ Hub!FinishRange
  /\ Relay!HandleBroadcast
  /\ UNCHANGED sent

\* The broadcast case rejects its payload.
SkipBroadcast ==
  /\ chan = "cast"
  /\ ~Relay!Parses(log[inHand].key)
  /\ Relay!HandleBroadcast
  /\ UNCHANGED <<hubVars, sent>>

RelayStep ==
  \/ \E s \in Subscribers : Relay!Callback(s)
  \/ Relay!HandleDBUpdate
  \/ Relay!DBFatal
  \/ Relay!FatalElsewhere
  \/ Relay!Tick

HubStep ==
  \/ \E c \in Conns : Hub!Connection(c) \/ Hub!Peer(c)
  \/ Hub!Broadcasting
  \/ Hub!MapFatal

Rest == ~alive /\ UNCHANGED vars

Next ==
  \/ /\ alive
     /\ \/ OnlyRelay(RelayStep)
        \/ BeginBroadcast
        \/ EndBroadcast
        \/ SkipBroadcast
        \/ OnlyHub(HubStep)
  \/ Rest

Spec == Init /\ [][Next]_vars

-----------------------------------------------------------------------------
(* Fairness is that of the parts.                                          *)
Running(A) == alive /\ A

CallbackFairness(s) ==
  /\ WF_vars(Running(OnlyRelay(Relay!ReadHistory(s))))
  /\ WF_vars(Running(OnlyRelay(Relay!Suppress(s) \/ Relay!Admit(s))))
  /\ WF_vars(Running(OnlyRelay(Relay!RecordHistory(s))))
  /\ SF_vars(Running(OnlyRelay(Relay!SendBroadcast(s))))
  /\ SF_vars(Running(OnlyRelay(Relay!SendDbUpdate(s))))

ConnFairness(c) ==
  /\ WF_vars(Running(OnlyHub(Hub!Insert(c))))
  /\ WF_vars(Running(OnlyHub(Hub!ReadFails(c))))
  /\ WF_vars(Running(OnlyHub(Hub!Delete(c))))

DispatcherFairness ==
  /\ WF_vars(Running(BeginBroadcast \/ SkipBroadcast))
  /\ WF_vars(Running(OnlyHub(\E c \in Conns : Hub!Pick(c))))
  /\ SF_vars(Running(OnlyHub(Hub!WriteOk)))
  /\ WF_vars(Running(OnlyHub(Hub!WriteLost \/ Hub!WriteFails)))
  /\ WF_vars(Running(OnlyHub(Hub!Drop)))
  /\ WF_vars(Running(EndBroadcast))
  /\ WF_vars(Running(OnlyRelay(Relay!HandleDBUpdate \/ Relay!DBFatal)))

FairSpec ==
  /\ Spec
  /\ \A s \in Subscribers : CallbackFairness(s)
  /\ \A c \in Conns : ConnFairness(c)
  /\ DispatcherFairness

-----------------------------------------------------------------------------
(* Properties.                                                             *)

\* The message in c's i-th place.
Shown(c, i) == sent[inbox[c][i]]

\* Every browser sees the messages of one MQTT client in the order in which the
\* broker delivered them, and none twice: what the callback, the channels and
\* the range over the clients achieve together.
ShownInOrder ==
  \A c \in Conns : \A i, j \in 1 .. Len(inbox[c]) :
    i < j /\ log[Shown(c, i)].sub = log[Shown(c, j)].sub => Shown(c, i) < Shown(c, j)

\* What is shown was meant to be shown: it parses, and it was recorded in the
\* history first (messagePubHandler, handleMessages).
ShownIsRecorded ==
  \A c \in Conns : \A i \in 1 .. Len(inbox[c]) :
    /\ Relay!Parses(log[Shown(c, i)].key)
    /\ stamp[Shown(c, i)] # NoStamp

\* c can be written to, and has been since broadcast a or an earlier one.
Tuned(c, a) == Hub!Fed(c) /\ inbox[c][1] <= a

\* c has been shown broadcast a.
Has(c, a) == \E i \in 1 .. Len(inbox[c]) : inbox[c][i] = a

\* Once callbacks and dispatcher are at rest, nothing the brokers delivered has
\* been kept from a browser.  Each message that parses has had a broadcast of its
\* topic and payload, recorded less than the window before it came or later, and
\* every browser tuned in by then has been shown that one: though the message may
\* have been suppressed, and the map changed while the broadcast ranged over it
\* (messagePubHandler, handleMessages, handleBroadcast).
ReachesBrowsers ==
  Relay!Resting /\ ~raced =>
    \A m \in DOMAIN log : Relay!Parses(log[m].key) =>
      \E a \in 1 .. casts :
        /\ log[sent[a]].key = log[m].key
        /\ log[m].at < stamp[sent[a]] + Window
        /\ \A c \in Conns : Tuned(c, a) => Has(c, a)

\* Every message delivered reaches the database side ("unconditionally ... all
\* messages are handled").
EveryMessageReachesDb == Relay!EveryMessageReachesDb

\* It does if no browser stops reading for good.
ReachesDbWhilePeersRead == Hub!PeersRead => EveryMessageReachesDb

\* If no browser stops reading for good, the content of every message that has
\* something to announce is written out: neither a duplicate nor the witness it
\* is kept back for waits for good (messagePubHandler, handleBroadcast).
AnnouncedWhilePeersRead == Hub!PeersRead => Relay!ContentAnnounced
=============================================================================
