---------------------------- MODULE BridgeProofs ----------------------------
(***************************************************************************)
(* Proofs about Bridge.  By its shape every step of it is a step of each    *)
(* part or leaves that part alone, so what is proved of the parts holds of  *)
(* the bridge; the theorems of this module say what the parts achieve       *)
(* together.                                                               *)
(***************************************************************************)
EXTENDS Bridge, FiniteSetTheorems, TLAPS

RelayThm == INSTANCE RelayProofs
HubThm == INSTANCE HubProofs WITH MaxCasts <- MaxMsgs

-----------------------------------------------------------------------------
(* Every step of the bridge is a step of the relay, or leaves it alone; and  *)
(* the same for the hub.  A step of the one that ends the process is, for    *)
(* the other, a fatal error elsewhere.                                     *)

LEMMA RelayStepOrStutter == [Next]_vars => [Relay!Next]_(Relay!vars)
<1>. SUFFICES ASSUME [Next]_vars PROVE [Relay!Next]_(Relay!vars)
  OBVIOUS
<1>1. CASE alive /\ OnlyRelay(RelayStep)
  BY <1>1 DEF OnlyRelay, RelayStep, Relay!Next
<1>2. CASE alive /\ (EndBroadcast \/ SkipBroadcast)
  BY <1>2 DEF EndBroadcast, SkipBroadcast, Relay!Next
<1>3. CASE BeginBroadcast
  BY <1>3 DEF BeginBroadcast, Hub!StartRange, relayVars, Relay!vars
<1>4. CASE alive /\ OnlyHub(HubStep)
  <2>1. UNCHANGED relayVars
    BY <1>4 DEF OnlyHub
  <2>2. alive' = alive \/ alive' = FALSE
    BY <1>4 DEF OnlyHub, HubStep, Hub!Connection, Hub!Upgrade, Hub!UpgradeRefused,
                Hub!Insert, Hub!ReadFails, Hub!Delete, Hub!Peer, Hub!Stall, Hub!Recover,
                Hub!Break, Hub!Broadcasting, Hub!Pick, Hub!WriteOk, Hub!WriteLost,
                Hub!WriteFails, Hub!Drop, Hub!MapFatal
  <2>3. CASE alive' = alive
    BY <2>1, <2>3 DEF relayVars, Relay!vars
  <2>4. CASE alive' = FALSE
    BY <1>4, <2>1, <2>4 DEF relayVars, Relay!Next, Relay!FatalElsewhere,
                            Relay!handlerVars, Relay!dispatchVars
  <2>. QED
    BY <2>2, <2>3, <2>4
<1>5. CASE UNCHANGED vars
  BY <1>5 DEF vars, relayVars, Relay!vars
<1>. QED
  BY <1>1, <1>2, <1>3, <1>4, <1>5 DEF Next, Rest

LEMMA HubStepOrStutter == [Next]_vars => [Hub!Next]_(Hub!vars)
<1>. SUFFICES ASSUME [Next]_vars PROVE [Hub!Next]_(Hub!vars)
  OBVIOUS
<1>1. CASE alive /\ OnlyHub(HubStep)
  BY <1>1 DEF OnlyHub, HubStep, Hub!Next
<1>2. CASE alive /\ (BeginBroadcast \/ EndBroadcast)
  BY <1>2 DEF BeginBroadcast, EndBroadcast, Hub!Next
<1>3. CASE SkipBroadcast
  BY <1>3 DEF SkipBroadcast, Relay!HandleBroadcast, hubVars, Hub!vars
<1>4. CASE alive /\ OnlyRelay(RelayStep)
  <2>1. UNCHANGED hubVars
    BY <1>4 DEF OnlyRelay
  <2>2. alive' = alive \/ alive' = FALSE
    BY <1>4 DEF OnlyRelay, RelayStep, Relay!Callback, Relay!Deliver, Relay!ReadHistory,
                Relay!Suppress, Relay!Admit, Relay!RecordHistory, Relay!SendBroadcast,
                Relay!SendDbUpdate, Relay!HandleDBUpdate, Relay!DBFatal,
                Relay!FatalElsewhere, Relay!Tick
  <2>3. CASE alive' = alive
    BY <2>1, <2>3 DEF hubVars, Hub!vars
  <2>4. CASE alive' = FALSE
    BY <1>4, <2>1, <2>4 DEF hubVars, Hub!Next, Hub!FatalElsewhere, Hub!connVars, Hub!castVars
  <2>. QED
    BY <2>2, <2>3, <2>4
<1>5. CASE UNCHANGED vars
  BY <1>5 DEF vars, hubVars, Hub!vars
<1>. QED
  BY <1>1, <1>2, <1>3, <1>4, <1>5 DEF Next, Rest

-----------------------------------------------------------------------------
(* What is proved of the parts holds of the bridge.                        *)

LEMMA SameRelay ==
  /\ Relay!Init <=> RelayThm!Init
  /\ [Relay!Next]_(Relay!vars) <=> [RelayThm!Next]_(RelayThm!vars)
<1>1. Relay!Init <=> RelayThm!Init
  BY DEF Relay!Init, RelayThm!Init
<1>2. Relay!Next <=> RelayThm!Next
  BY DEF Relay!Next, Relay!Callback, Relay!Deliver, Relay!ReadHistory, Relay!Suppress,
         Relay!Admit, Relay!RecordHistory, Relay!SendBroadcast, Relay!SendDbUpdate,
         Relay!HandleBroadcast, Relay!HandleDBUpdate, Relay!DBFatal, Relay!FatalElsewhere,
         Relay!Tick, Relay!Rest, Relay!Recent, Relay!Key, Relay!Parses, Relay!handlerVars,
         Relay!dispatchVars, Relay!vars,
         RelayThm!Next, RelayThm!Callback, RelayThm!Deliver, RelayThm!ReadHistory,
         RelayThm!Suppress, RelayThm!Admit, RelayThm!RecordHistory, RelayThm!SendBroadcast,
         RelayThm!SendDbUpdate, RelayThm!HandleBroadcast, RelayThm!HandleDBUpdate,
         RelayThm!DBFatal, RelayThm!FatalElsewhere, RelayThm!Tick, RelayThm!Rest,
         RelayThm!Recent, RelayThm!Key, RelayThm!Parses, RelayThm!handlerVars, RelayThm!dispatchVars,
         RelayThm!vars
<1>. QED
  BY <1>1, <1>2 DEF Relay!vars, RelayThm!vars

LEMMA BridgeIsRelay == Spec => RelayThm!Spec
<1>1. Init => RelayThm!Init
  BY SameRelay DEF Init
<1>2. [Next]_vars => [RelayThm!Next]_(RelayThm!vars)
  BY SameRelay, RelayStepOrStutter
<1>. QED
  BY <1>1, <1>2, PTL DEF Spec, RelayThm!Spec

\* In the whole bridge, too, a message kept from the browsers has a witness
\* recorded for broadcast less than the window before it came, or later.
THEOREM BridgeSuppressionIsSound == Spec => []Relay!SuppressionSound
<1>1. RelayThm!RelayAssumption
  BY BridgeAssumption DEF Relay!RelayAssumption, RelayThm!RelayAssumption
<1>2. RelayThm!Spec => []RelayThm!SuppressionSound
  BY <1>1, RelayThm!SuppressionIsSound, PTL
<1>3. RelayThm!SuppressionSound => Relay!SuppressionSound
  BY DEF RelayThm!SuppressionSound, RelayThm!Decided, RelayThm!Stamped, RelayThm!Msgs,
         RelayThm!Key, Relay!SuppressionSound, Relay!Decided, Relay!Stamped, Relay!Msgs,
         Relay!Key
<1>. QED
  BY <1>2, <1>3, BridgeIsRelay, PTL

\* With one MQTT client per topic, the bridge never records two messages of one
\* topic and payload for broadcast less than the window apart.
THEOREM BridgeBroadcastsAreSpaced ==
  ASSUME Relay!ExclusiveRoute
  PROVE  Spec => []Relay!BroadcastsSpaced
<1>1. RelayThm!RelayAssumption /\ RelayThm!ExclusiveRoute
  BY BridgeAssumption DEF Relay!RelayAssumption, RelayThm!RelayAssumption,
                          Relay!ExclusiveRoute, RelayThm!ExclusiveRoute
<1>2. RelayThm!Spec => []RelayThm!BroadcastsSpaced
  BY <1>1, RelayThm!BroadcastsAreSpaced, PTL
<1>3. RelayThm!BroadcastsSpaced => Relay!BroadcastsSpaced
  BY DEF RelayThm!BroadcastsSpaced, RelayThm!Stamped, RelayThm!Msgs, RelayThm!Key,
         Relay!BroadcastsSpaced, Relay!Stamped, Relay!Msgs, Relay!Key
<1>. QED
  BY <1>2, <1>3, BridgeIsRelay, PTL

LEMMA SameHub ==
  /\ Hub!Init <=> HubThm!Init
  /\ [Hub!Next]_(Hub!vars) <=> [HubThm!Next]_(HubThm!vars)
<1>1. Hub!Init <=> HubThm!Init
  BY DEF Hub!Init, HubThm!Init
<1>2. Hub!Next <=> HubThm!Next
  BY DEF Hub!Next, Hub!Connection, Hub!Upgrade, Hub!UpgradeRefused, Hub!Insert,
         Hub!ReadFails, Hub!Delete, Hub!Peer, Hub!Stall, Hub!Recover, Hub!Break,
         Hub!StartRange, Hub!Broadcasting, Hub!Pick, Hub!WriteOk, Hub!WriteLost,
         Hub!WriteFails, Hub!Drop, Hub!FinishRange, Hub!MapFatal, Hub!FatalElsewhere,
         Hub!Rest, Hub!WriteMap, Hub!Contended, Hub!Writers, Hub!HubAtMap, Hub!Connected,
         Hub!connVars, Hub!castVars, Hub!vars,
         HubThm!Next, HubThm!Connection, HubThm!Upgrade, HubThm!UpgradeRefused,
         HubThm!Insert, HubThm!ReadFails, HubThm!Delete, HubThm!Peer, HubThm!Stall,
         HubThm!Recover, HubThm!Break, HubThm!StartRange, HubThm!Broadcasting, HubThm!Pick,
         HubThm!WriteOk, HubThm!WriteLost, HubThm!WriteFails, HubThm!Drop,
         HubThm!FinishRange, HubThm!MapFatal, HubThm!FatalElsewhere, HubThm!Rest,
         HubThm!WriteMap, HubThm!Contended, HubThm!Writers, HubThm!HubAtMap,
         HubThm!Connected, HubThm!connVars, HubThm!castVars, HubThm!vars
<1>. QED
  BY <1>1, <1>2 DEF Hub!vars, HubThm!vars

LEMMA BridgeIsHub == Spec => HubThm!Spec
<1>1. Init => HubThm!Init
  BY SameHub DEF Init
<1>2. [Next]_vars => [HubThm!Next]_(HubThm!vars)
  BY SameHub, HubStepOrStutter
<1>. QED
  BY <1>1, <1>2, PTL DEF Spec, HubThm!Spec

\* In the whole bridge, too, a browser that has received a broadcast misses none
\* after it while its connection lasts and no race on the map goes unnoticed.
THEOREM BridgeFeedsAreGapless == Spec => []Hub!FeedGapless
<1>1. HubThm!HubAssumption
  BY BridgeAssumption DEF Hub!HubAssumption, HubThm!HubAssumption
<1>2. HubThm!Spec => []HubThm!FeedGapless
  BY <1>1, HubThm!FeedsAreGapless, PTL
<1>3. HubThm!FeedGapless => Hub!FeedGapless
  BY DEF HubThm!FeedGapless, Hub!FeedGapless
<1>. QED
  BY <1>2, <1>3, BridgeIsHub, PTL

-----------------------------------------------------------------------------
(* From the MQTT client to the browser.  The hub gives every browser the    *)
(* broadcasts in order; the relay has one message of an MQTT client in hand *)
(* at a time.  What links them is the message each broadcast carries: it is *)
(* announced once its range is over, and the relay announces none twice.    *)

PartsInv ==
  /\ RelayThm!TypeOK
  /\ RelayThm!Ownership
  /\ RelayThm!Turns
  /\ RelayThm!RecordedFirst
  /\ HubThm!TypeOK
  /\ HubThm!Rising

LEMMA PartsHold == Spec => []PartsInv
<1>1. RelayThm!RelayAssumption /\ HubThm!HubAssumption
  BY BridgeAssumption DEF Relay!RelayAssumption, RelayThm!RelayAssumption,
                          Hub!HubAssumption, HubThm!HubAssumption
<1>2. /\ RelayThm!Spec => []RelayThm!TypeOK
      /\ RelayThm!Spec => []RelayThm!Ownership
      /\ RelayThm!Spec => []RelayThm!Turns
      /\ RelayThm!Spec => []RelayThm!RecordedFirst
  BY <1>1, RelayThm!TypeCorrect, RelayThm!OwnershipHolds, RelayThm!TurnsHold,
     RelayThm!RecordedHolds, PTL
<1>3. /\ HubThm!Spec => []HubThm!TypeOK
      /\ HubThm!Spec => []HubThm!Rising
  BY <1>1, HubThm!TypeCorrect, HubThm!FeedsRise, PTL
<1>. QED
  BY <1>2, <1>3, BridgeIsRelay, BridgeIsHub, PTL DEF PartsInv

LEMMA ExtendFacts ==
  ASSUME NEW S, NEW q \in Seq(S), NEW e \in S
  PROVE  /\ Append(q, e) \in Seq(S)
         /\ Len(q) \in Nat
         /\ Len(Append(q, e)) = Len(q) + 1
         /\ \A i \in 1 .. Len(q) : Append(q, e)[i] = q[i] /\ q[i] \in S
         /\ Append(q, e)[Len(q) + 1] = e
  OBVIOUS

LEMMA WidenFacts ==
  ASSUME NEW S, NEW T, S \subseteq T, NEW q \in Seq(S)
  PROVE  q \in Seq(T) /\ \A i \in 1 .. Len(q) : q[i] \in S
<1>1. \A i \in 1 .. Len(q) : q[i] \in S
  OBVIOUS
<1>. QED
  BY <1>1

\* One message per broadcast; while the range lasts, the one in hand.
CarriesInHand ==
  /\ sent \in Seq(DOMAIN log)
  /\ Len(sent) = casts
  /\ hub # "idle" => /\ casts > 0
                     /\ chan = "cast"
                     /\ sent[casts] = inHand
                     /\ Relay!Parses(log[inHand].key)

\* Once the range is over, its message is announced.
SentAnnounced ==
  \A a \in 1 .. casts : sent[a] \in announced \/ (hub # "idle" /\ a = casts)

SentRecorded ==
  \A a \in 1 .. casts : Relay!Parses(log[sent[a]].key) /\ stamp[sent[a]] # NoStamp

SentInOrder ==
  \A a, b \in 1 .. casts :
    a < b /\ log[sent[a]].sub = log[sent[b]].sub => sent[a] < sent[b]

Carried == CarriesInHand /\ SentAnnounced /\ SentRecorded /\ SentInOrder

LEMMA SentFacts ==
  ASSUME CarriesInHand, NEW a \in 1 .. casts
  PROVE  sent[a] \in DOMAIN log
<1>. DEFINE S == DOMAIN log
<1>1. sent \in Seq(S) /\ a \in 1 .. Len(sent)
  BY DEF CarriesInHand
<1>. HIDE DEF S
<1>2. sent[a] \in S
  BY <1>1, WidenFacts
<1>. QED
  BY <1>2 DEF S

\* A step that carries the same messages in the same broadcasts and announces
\* nothing keeps what is carried.
LEMMA CarriedFrame ==
  ASSUME PartsInv, Carried, [Next]_vars,
         UNCHANGED <<sent, casts, announced>>,
         hub' # "idle" <=> hub # "idle",
         chan = "cast" => chan' = "cast" /\ inHand' = inHand
  PROVE  Carried'
<1>1. [RelayThm!Next]_(RelayThm!vars) /\ RelayThm!TypeOK /\ RelayThm!RelayAssumption
  BY RelayStepOrStutter, SameRelay, BridgeAssumption
     DEF PartsInv, Relay!RelayAssumption, RelayThm!RelayAssumption
<1>2. \A m \in DOMAIN log : m \in DOMAIN log' /\ log'[m] = log[m]
  BY <1>1, RelayThm!LogKept DEF RelayThm!Msgs
<1>3. \A a \in 1 .. casts : sent[a] \in DOMAIN log /\ sent[a] \in 1 .. MaxMsgs
  BY <1>1, SentFacts, RelayThm!MessageFacts DEF Carried, RelayThm!Msgs
<1>4. \A a \in 1 .. casts : stamp[sent[a]] # NoStamp => stamp'[sent[a]] # NoStamp
  BY <1>1, <1>3, RelayThm!StampKept
<1>5. CarriesInHand'
  <2>. DEFINE S == DOMAIN log
              T == DOMAIN log'
  <2>1. S \subseteq T /\ sent \in Seq(S)
    BY <1>2 DEF Carried, CarriesInHand
  <2>. HIDE DEF S, T
  <2>2. sent \in Seq(T)
    BY <2>1, WidenFacts
  <2>3. sent' \in Seq(DOMAIN log')
    BY <2>2 DEF T
  <2>4. hub # "idle" => inHand \in DOMAIN log
    BY <1>3 DEF Carried, CarriesInHand, PartsInv, HubThm!TypeOK
  <2>. QED
    BY <1>2, <2>3, <2>4 DEF Carried, CarriesInHand
<1>6. SentAnnounced'
  BY DEF Carried, SentAnnounced
<1>7. SentRecorded'
  BY <1>2, <1>3, <1>4 DEF Carried, SentRecorded
<1>8. SentInOrder'
  BY <1>2, <1>3 DEF Carried, SentInOrder
<1>. QED
  BY <1>5, <1>6, <1>7, <1>8 DEF Carried

\* The broadcast that begins carries the message in hand: it comes after every
\* other of its MQTT client that has been broadcast.
LEMMA BeginCarries ==
  ASSUME PartsInv, Carried, BeginBroadcast
  PROVE  Carried'
<1>1. /\ chan = "cast" /\ hub = "idle" /\ hub' = "range"
      /\ Relay!Parses(log[inHand].key)
      /\ casts' = casts + 1 /\ sent' = Append(sent, inHand)
      /\ UNCHANGED <<chan, inHand, log, stamp, announced>>
  BY DEF BeginBroadcast, Hub!StartRange, relayVars
<1>2. inHand \in DOMAIN log /\ inHand \notin announced /\ casts \in Nat
  BY <1>1 DEF PartsInv, RelayThm!TypeOK, RelayThm!Turns, RelayThm!Msgs, HubThm!TypeOK
<1>3. stamp[inHand] # NoStamp
  BY <1>1 DEF PartsInv, RelayThm!RecordedFirst
<1>. DEFINE S == DOMAIN log
<1>4. sent \in Seq(S) /\ inHand \in S /\ Len(sent) = casts
  BY <1>2 DEF Carried, CarriesInHand
<1>. HIDE DEF S
<1>5. /\ sent' \in Seq(S) /\ Len(sent') = casts + 1
      /\ \A a \in 1 .. casts : sent'[a] = sent[a] /\ sent[a] \in S
      /\ sent'[casts + 1] = inHand
  BY <1>1, <1>4, ExtendFacts
<1>6. \A a \in 1 .. casts : sent[a] \in announced
  BY <1>1 DEF Carried, SentAnnounced
<1>7. PICK s \in Subscribers : pc[s] = "db" /\ cur[s] = inHand
  BY <1>1 DEF PartsInv, RelayThm!Turns
<1>8. /\ log[inHand].sub = s
      /\ \A m \in DOMAIN log : log[m].sub = s => m <= inHand
  BY <1>7 DEF PartsInv, RelayThm!Ownership, RelayThm!Msgs
<1>9. inHand \in Nat /\ \A m \in DOMAIN log : m \in Nat
  BY <1>2, RelayThm!ElementFacts DEF PartsInv, RelayThm!TypeOK
<1>10. \A a \in 1 .. casts : log[sent[a]].sub = log[inHand].sub => sent[a] < inHand
  BY <1>2, <1>5, <1>6, <1>8, <1>9 DEF S
<1>11. CarriesInHand'
  BY <1>1, <1>2, <1>5 DEF CarriesInHand, S
<1>12. \A a \in 1 .. casts + 1 : a \in 1 .. casts \/ a = casts + 1
  BY <1>2
<1>13. SentAnnounced'
  BY <1>1, <1>5, <1>6, <1>12 DEF SentAnnounced
<1>14. SentRecorded'
  BY <1>1, <1>3, <1>5, <1>12 DEF Carried, SentRecorded
<1>15. SentInOrder'
  <2>1. ASSUME NEW a \in 1 .. casts + 1, NEW b \in 1 .. casts + 1, a < b,
               log[sent'[a]].sub = log[sent'[b]].sub
        PROVE  sent'[a] < sent'[b]
    <3>1. a \in 1 .. casts
      BY <1>2, <2>1
    <3>2. CASE b \in 1 .. casts
      BY <1>5, <2>1, <3>1, <3>2 DEF Carried, SentInOrder
    <3>3. CASE b = casts + 1
      BY <1>5, <1>10, <2>1, <3>1, <3>3
    <3>. QED
      BY <1>12, <3>2, <3>3
  <2>. QED
    BY <1>1, <2>1 DEF SentInOrder
<1>. QED
  BY <1>11, <1>13, <1>14, <1>15 DEF Carried

\* The broadcast case ends and announces the message in hand.
LEMMA EndCarries ==
  ASSUME PartsInv, Carried, EndBroadcast
  PROVE  Carried'
<1>1. /\ hub = "range" /\ hub' = "idle"
      /\ announced' = announced \cup IF Relay!Parses(log[inHand].key) THEN {inHand} ELSE {}
      /\ UNCHANGED <<casts, sent, log, stamp>>
  BY DEF EndBroadcast, Hub!FinishRange, Relay!HandleBroadcast, Relay!Key,
         Relay!handlerVars, Hub!connVars
<1>2. announced' = announced \cup {sent[casts]}
  BY <1>1 DEF Carried, CarriesInHand
<1>3. CarriesInHand' /\ SentRecorded' /\ SentInOrder'
  BY <1>1 DEF Carried, CarriesInHand, SentRecorded, SentInOrder
<1>4. SentAnnounced'
  BY <1>1, <1>2 DEF Carried, SentAnnounced
<1>. QED
  BY <1>3, <1>4 DEF Carried

LEMMA CarriedStep ==
  ASSUME PartsInv, Carried, [Next]_vars
  PROVE  Carried'
<1>1. CASE OnlyRelay(RelayStep)
  <2>1. UNCHANGED <<sent, casts, announced, hub>>
    BY <1>1 DEF OnlyRelay, RelayStep, hubVars, Relay!Callback, Relay!Deliver,
                Relay!ReadHistory, Relay!Suppress, Relay!Admit, Relay!RecordHistory,
                Relay!SendBroadcast, Relay!SendDbUpdate, Relay!HandleDBUpdate,
                Relay!DBFatal, Relay!FatalElsewhere, Relay!Tick, Relay!dispatchVars
  <2>2. chan = "cast" => chan' = "cast" /\ inHand' = inHand
    BY <1>1 DEF OnlyRelay, RelayStep, Relay!Callback, Relay!Deliver,
                Relay!ReadHistory, Relay!Suppress, Relay!Admit, Relay!RecordHistory,
                Relay!SendBroadcast, Relay!SendDbUpdate, Relay!HandleDBUpdate,
                Relay!DBFatal, Relay!FatalElsewhere, Relay!Tick, Relay!dispatchVars
  <2>. QED
    BY <2>1, <2>2, CarriedFrame
<1>2. CASE BeginBroadcast
  BY <1>2, BeginCarries
<1>3. CASE EndBroadcast
  BY <1>3, EndCarries
<1>4. CASE SkipBroadcast
  <2>1. /\ hub = "idle" /\ hub' = "idle"
        /\ UNCHANGED <<sent, casts, announced, log, stamp>>
    BY <1>4 DEF SkipBroadcast, Relay!HandleBroadcast, Relay!Key, Relay!handlerVars, hubVars,
                Carried, CarriesInHand
  <2>. QED
    BY <2>1 DEF Carried, CarriesInHand, SentAnnounced, SentRecorded, SentInOrder
<1>5. CASE OnlyHub(HubStep)
  <2>1. UNCHANGED <<sent, casts, announced, chan, inHand>>
    BY <1>5 DEF OnlyHub, HubStep, relayVars, Hub!Connection, Hub!Upgrade,
                Hub!UpgradeRefused, Hub!Insert, Hub!ReadFails, Hub!Delete, Hub!Peer,
                Hub!Stall, Hub!Recover, Hub!Break, Hub!Broadcasting, Hub!Pick, Hub!WriteOk,
                Hub!WriteLost, Hub!WriteFails, Hub!Drop, Hub!MapFatal, Hub!castVars
  <2>2. hub' # "idle" <=> hub # "idle"
    BY <1>5 DEF OnlyHub, HubStep, relayVars, Hub!Connection, Hub!Upgrade,
                Hub!UpgradeRefused, Hub!Insert, Hub!ReadFails, Hub!Delete, Hub!Peer,
                Hub!Stall, Hub!Recover, Hub!Break, Hub!Broadcasting, Hub!Pick, Hub!WriteOk,
                Hub!WriteLost, Hub!WriteFails, Hub!Drop, Hub!MapFatal, Hub!castVars
  <2>. QED
    BY <2>1, <2>2, CarriedFrame
<1>6. CASE UNCHANGED vars
  <2>1. UNCHANGED <<sent, casts, announced, chan, inHand, hub>>
    BY <1>6 DEF vars, relayVars, hubVars
  <2>. QED
    BY <2>1, CarriedFrame
<1>. QED
  BY <1>1, <1>2, <1>3, <1>4, <1>5, <1>6 DEF Next, Rest

LEMMA CarriedHolds == Spec => []Carried
<1>1. Init => Carried
  BY DEF Init, Relay!Init, Hub!Init, Carried, CarriesInHand, SentAnnounced, SentRecorded,
         SentInOrder
<1>2. PartsInv /\ Carried /\ [Next]_vars => Carried'
  BY CarriedStep
<1>. QED
  BY <1>1, <1>2, PartsHold, PTL DEF Spec

\* The broadcasts a browser has received are ones that have been made.
LEMMA InboxIsSent ==
  ASSUME PartsInv, NEW c \in Conns, NEW i \in 1 .. Len(inbox[c])
  PROVE  inbox[c][i] \in 1 .. casts
BY HubThm!InboxFacts, BridgeAssumption DEF PartsInv, Hub!HubAssumption, HubThm!HubAssumption

\* Every browser is shown the messages of one MQTT client in the order in which
\* the broker delivered them, none of them twice: through the callback, the
\* unbuffered channels, the goroutine of handleMessages and the range over the
\* clients, even if a race on the map has gone unnoticed.
THEOREM BridgeShowsInOrder == Spec => []ShownInOrder
<1>1. ASSUME PartsInv, Carried PROVE ShownInOrder
  <2>1. ASSUME NEW c \in Conns, NEW i \in 1 .. Len(inbox[c]), NEW j \in 1 .. Len(inbox[c]),
               i < j, log[Shown(c, i)].sub = log[Shown(c, j)].sub
        PROVE  Shown(c, i) < Shown(c, j)
    <3>1. inbox[c][i] \in 1 .. casts /\ inbox[c][j] \in 1 .. casts
      BY <1>1, InboxIsSent
    <3>2. inbox[c][i] < inbox[c][j]
      BY <1>1, <2>1 DEF PartsInv, HubThm!Rising
    <3>. QED
      BY <1>1, <2>1, <3>1, <3>2 DEF Carried, SentInOrder, Shown
  <2>. QED
    BY <2>1 DEF ShownInOrder
<1>. QED
  BY <1>1, PartsHold, CarriedHolds, PTL

\* What a browser is shown parses and was recorded in the history first
\* (messagePubHandler, handleMessages).
THEOREM BridgeShowsRecorded == Spec => []ShownIsRecorded
<1>1. ASSUME PartsInv, Carried PROVE ShownIsRecorded
  BY <1>1, InboxIsSent DEF Carried, SentRecorded, ShownIsRecorded, Shown
<1>. QED
  BY <1>1, PartsHold, CarriedHolds, PTL

\* The variables of the whole bridge keep their types: above all, while a range
\* over the clients lasts, the relay is in its broadcast case, with the message
\* of that broadcast in hand.
THEOREM BridgeTypeCorrect == Spec => []TypeOK
<1>1. ASSUME PartsInv, Carried PROVE TypeOK
  <2>1. Relay!TypeOK
    BY <1>1 DEF PartsInv, RelayThm!TypeOK, RelayThm!Msgs, Relay!TypeOK, Relay!Msgs
  <2>2. Hub!TypeOK
    BY <1>1 DEF PartsInv, HubThm!TypeOK, HubThm!Places, Hub!TypeOK, Hub!Places
  <2>. QED
    BY <1>1, <2>1, <2>2 DEF Carried, CarriesInHand, TypeOK
<1>. QED
  BY <1>1, PartsHold, CarriedHolds, PTL

-----------------------------------------------------------------------------
(* The rest of what is proved of the parts.                                *)

\* The bridge as a whole keeps RelayPromise: it implements the relay, which implements
\* the promise.  Messages of one MQTT client are dealt with one after the other, each is
\* announced at most once and before it is applied, and is applied at most once.
THEOREM BridgeKeepsPromise == Spec => Relay!ImplementsPromise
<1>1. RelayThm!RelayAssumption
  BY BridgeAssumption DEF Relay!RelayAssumption, RelayThm!RelayAssumption
<1>2. RelayThm!Spec => RelayThm!ImplementsPromise
  BY <1>1, RelayThm!RelayImplementsPromise
<1>3. RelayThm!Promise!PromiseInit <=> Relay!Promise!PromiseInit
  BY DEF RelayThm!Promise!PromiseInit, Relay!Promise!PromiseInit, RelayThm!Msgs, Relay!Msgs
<1>4. [RelayThm!Promise!PromiseNext]_(RelayThm!Promise!promiseVars)
        <=> [Relay!Promise!PromiseNext]_(Relay!Promise!promiseVars)
  BY DEF RelayThm!Promise!PromiseNext, Relay!Promise!PromiseNext,
         RelayThm!Promise!promiseVars, Relay!Promise!promiseVars,
         RelayThm!Promise!Receive, Relay!Promise!Receive,
         RelayThm!Promise!Announce, Relay!Promise!Announce,
         RelayThm!Promise!Apply, Relay!Promise!Apply,
         RelayThm!Promise!Due, Relay!Promise!Due, RelayThm!Msgs, Relay!Msgs
<1>. QED
  BY <1>2, <1>3, <1>4, BridgeIsRelay, PTL
     DEF Relay!ImplementsPromise, Relay!Promise!PromiseSpec,
         RelayThm!ImplementsPromise, RelayThm!Promise!PromiseSpec

\* In the whole bridge, too, a connection that is read and whose socket is open is in the
\* map, and the map holds no connection whose goroutine has ended, until a race on it
\* goes unnoticed.
THEOREM BridgeMapIsTrue == Spec => [](Hub!NoDeafClient /\ Hub!NoLeakedClient)
<1>1. HubThm!HubAssumption
  BY BridgeAssumption DEF Hub!HubAssumption, HubThm!HubAssumption
<1>2. HubThm!Spec => []HubThm!NoDeafClient /\ []HubThm!NoLeakedClient
  BY <1>1, HubThm!NoClientIsDeaf, HubThm!NoClientIsLeaked, PTL
<1>3. /\ HubThm!NoDeafClient => Hub!NoDeafClient
      /\ HubThm!NoLeakedClient => Hub!NoLeakedClient
  BY DEF HubThm!NoDeafClient, Hub!NoDeafClient, HubThm!NoLeakedClient, Hub!NoLeakedClient
<1>. QED
  BY <1>2, <1>3, BridgeIsHub, PTL

-----------------------------------------------------------------------------
(* From the broker to every browser.  The relay loses no content by         *)
(* suppressing duplicates, the hub gives each browser every broadcast, and   *)
(* what is announced has been a broadcast.                                 *)

AnnouncedSent == \A m \in announced : \E a \in 1 .. casts : sent[a] = m

LEMMA AnnouncedSentStep ==
  ASSUME PartsInv, Carried, AnnouncedSent, [Next]_vars
  PROVE  AnnouncedSent'
<1>1. CASE BeginBroadcast
  <2>1. casts' = casts + 1 /\ sent' = Append(sent, inHand) /\ announced' = announced
    BY <1>1 DEF BeginBroadcast, Hub!StartRange, relayVars
  <2>2. inHand \in DOMAIN log
    BY <1>1 DEF BeginBroadcast, PartsInv, RelayThm!TypeOK, RelayThm!Msgs
  <2>. DEFINE S == DOMAIN log
  <2>3. sent \in Seq(S) /\ inHand \in S /\ Len(sent) = casts
    BY <2>2 DEF Carried, CarriesInHand
  <2>. HIDE DEF S
  <2>4. casts \in Nat /\ \A a \in 1 .. casts : sent'[a] = sent[a]
    BY <2>1, <2>3, ExtendFacts
  <2>5. \A a \in 1 .. casts : a \in 1 .. casts'
    BY <2>1, <2>4
  <2>. QED
    BY <2>1, <2>4, <2>5 DEF AnnouncedSent
<1>2. CASE EndBroadcast
  <2>1. /\ UNCHANGED <<casts, sent>>
        /\ announced' = announced \cup {sent[casts]} \/ announced' = announced
        /\ hub = "range"
    BY <1>2 DEF EndBroadcast, Hub!FinishRange, Relay!HandleBroadcast, Relay!handlerVars,
                Hub!connVars, Carried, CarriesInHand
  <2>2. casts \in 1 .. casts
    BY <2>1 DEF Carried, CarriesInHand, PartsInv, HubThm!TypeOK
  <2>. QED
    BY <2>1, <2>2 DEF AnnouncedSent
<1>3. CASE SkipBroadcast
  BY <1>3 DEF SkipBroadcast, Relay!HandleBroadcast, Relay!Key, hubVars, AnnouncedSent
<1>4. CASE OnlyRelay(RelayStep)
  BY <1>4 DEF OnlyRelay, RelayStep, hubVars, Relay!Callback, Relay!Deliver,
              Relay!ReadHistory, Relay!Suppress, Relay!Admit, Relay!RecordHistory,
              Relay!SendBroadcast, Relay!SendDbUpdate, Relay!HandleDBUpdate,
              Relay!DBFatal, Relay!FatalElsewhere, Relay!Tick, Relay!dispatchVars,
              AnnouncedSent
<1>5. CASE OnlyHub(HubStep)
  BY <1>5 DEF OnlyHub, HubStep, relayVars, Hub!Connection, Hub!Upgrade,
              Hub!UpgradeRefused, Hub!Insert, Hub!ReadFails, Hub!Delete, Hub!Peer,
              Hub!Stall, Hub!Recover, Hub!Break, Hub!Broadcasting, Hub!Pick, Hub!WriteOk,
              Hub!WriteLost, Hub!WriteFails, Hub!Drop, Hub!MapFatal, Hub!castVars,
              AnnouncedSent
<1>6. CASE UNCHANGED vars
  BY <1>6 DEF vars, relayVars, hubVars, AnnouncedSent
<1>. QED
  BY <1>1, <1>2, <1>3, <1>4, <1>5, <1>6 DEF Next, Rest

LEMMA AnnouncedSentHolds == Spec => []AnnouncedSent
<1>1. Init => AnnouncedSent
  BY DEF Init, Relay!Init, AnnouncedSent
<1>2. PartsInv /\ Carried /\ AnnouncedSent /\ [Next]_vars => AnnouncedSent'
  BY AnnouncedSentStep
<1>. QED
  BY <1>1, <1>2, PartsHold, CarriedHolds, PTL DEF Spec

\* End to end: whenever callbacks and handleMessages have come to rest, nothing the brokers
\* delivered has been kept from a browser.  Each one whose connection has lasted has been
\* shown the message, or one that says the same and came less than the window earlier or
\* later than it (messagePubHandler, handleMessages, handleBroadcast).  Only a browser
\* whose first broadcast is a later one, or a race on the map that has gone unnoticed, is
\* excepted.
THEOREM BridgeReachesBrowsers ==
  ASSUME Window > 0
  PROVE  Spec => []ReachesBrowsers
<1>1. RelayThm!RelayAssumption /\ HubThm!HubAssumption
  BY BridgeAssumption DEF Relay!RelayAssumption, RelayThm!RelayAssumption,
                          Hub!HubAssumption, HubThm!HubAssumption
<1>2. RelayThm!Spec => []RelayThm!NothingSwallowed
  BY <1>1, RelayThm!NothingIsSwallowed, PTL
<1>3. HubThm!Spec => []HubThm!FeedComplete
  BY <1>1, HubThm!FeedsAreComplete, PTL
<1>4. ASSUME PartsInv, Carried, AnnouncedSent, RelayThm!NothingSwallowed,
             HubThm!FeedComplete
      PROVE  ReachesBrowsers
  <2>1. SUFFICES ASSUME Relay!Resting, ~raced,
                        NEW m \in DOMAIN log, Relay!Parses(log[m].key)
                 PROVE  \E a \in 1 .. casts :
                          /\ log[sent[a]].key = log[m].key
                          /\ log[m].at < stamp[sent[a]] + Window
                          /\ \A c \in Conns : Tuned(c, a) => Has(c, a)
    BY DEF ReachesBrowsers
  <2>2. RelayThm!Heard(m)
    BY <1>4, <2>1 DEF RelayThm!NothingSwallowed, RelayThm!Resting, RelayThm!Msgs,
                      RelayThm!Parses, RelayThm!Key, Relay!Parses, Relay!Resting
  <2>3. PICK w \in announced : log[w].key = log[m].key /\ log[m].at < stamp[w] + Window
    BY <2>2 DEF RelayThm!Heard, RelayThm!Key
  <2>4. PICK a \in 1 .. casts : sent[a] = w
    BY <1>4, <2>3 DEF AnnouncedSent
  <2>5. hub = "idle" /\ casts \in Nat
    BY <1>4, <2>1 DEF Relay!Resting, Carried, CarriesInHand, PartsInv, HubThm!TypeOK
  <2>6. ASSUME NEW c \in Conns, Tuned(c, a) PROVE Has(c, a)
    <3>1. Len(inbox[c]) \in Nat /\ Len(inbox[c]) > 0 /\ inbox[c][1] \in 1 .. casts
      BY <1>1, <1>4, <2>6, HubThm!InboxFacts DEF Tuned, Hub!Fed, PartsInv
    <3>2. a \in inbox[c][1] .. casts
      BY <2>4, <2>5, <2>6, <3>1 DEF Tuned
    <3>. QED
      BY <1>4, <2>1, <2>5, <2>6, <3>2 DEF HubThm!FeedComplete, HubThm!Fed, Hub!Fed, Tuned, Has
  <2>. QED
    BY <2>3, <2>4, <2>6
<1>. QED
  BY <1>2, <1>3, <1>4, PartsHold, CarriedHolds, AnnouncedSentHolds, BridgeIsRelay,
     BridgeIsHub, PTL

-----------------------------------------------------------------------------
(* What can hold the bridge up.                                            *)

\* Every broadcast carries a message of its own, so that there are never more of them than
\* messages: the model's bound on broadcasts is never what keeps one from beginning.
LEMMA CastsAreMessages ==
  ASSUME PartsInv, Carried, chan = "cast", hub = "idle"
  PROVE  casts < MaxMsgs
<1>1. /\ RelayThm!TypeOK /\ RelayThm!RelayAssumption
      /\ inHand \in RelayThm!Msgs /\ inHand \notin announced
      /\ casts \in Nat /\ MaxMsgs \in Nat
  BY BridgeAssumption DEF PartsInv, Relay!RelayAssumption, RelayThm!RelayAssumption,
                          RelayThm!TypeOK, RelayThm!Turns, HubThm!TypeOK
<1>2. \A a \in 1 .. casts : sent[a] \in announced /\ sent[a] \in DOMAIN log
  BY SentFacts DEF Carried, SentAnnounced
<1>3. \A m \in DOMAIN log : m \in 1 .. MaxMsgs
  BY <1>1, RelayThm!MessageFacts DEF RelayThm!Msgs
<1>4. \A a, b \in 1 .. casts : a < b => sent[a] # sent[b]
  BY <1>2, <1>3 DEF Carried, SentInOrder
<1>. DEFINE f == [a \in 1 .. casts + 1 |-> IF a = casts + 1 THEN inHand ELSE sent[a]]
<1>5. \A a \in 1 .. casts + 1 : a \in 1 .. casts \/ a = casts + 1
  BY <1>1
<1>6. f \in [1 .. casts + 1 -> 1 .. MaxMsgs]
  BY <1>1, <1>2, <1>3, <1>5 DEF RelayThm!Msgs
<1>7. ASSUME NEW a \in 1 .. casts + 1, NEW b \in 1 .. casts + 1, a # b
      PROVE  f[a] # f[b]
  <2>1. CASE a \in 1 .. casts /\ b \in 1 .. casts
    BY <1>1, <1>4, <1>7, <2>1
  <2>2. CASE a = casts + 1 \/ b = casts + 1
    BY <1>1, <1>2, <1>5, <1>7, <2>2
  <2>. QED
    BY <1>5, <2>1, <2>2
<1>. HIDE DEF f
<1>8. /\ IsFiniteSet(1 .. casts + 1) /\ Cardinality(1 .. casts + 1) = casts + 1
      /\ IsFiniteSet(1 .. MaxMsgs) /\ Cardinality(1 .. MaxMsgs) = MaxMsgs
  BY <1>1, FS_Interval
<1>9. ~(MaxMsgs < casts + 1)
  BY <1>6, <1>7, <1>8, FS_PigeonHole
<1>. QED
  BY <1>1, <1>9

\* A callback or handleMessages can take a step: look up, decide, record, send, write to the
\* database, begin a broadcast or go on with one.
SomeoneCanGoOn ==
  \/ \E s \in Subscribers : pc[s] \in {"lookup", "decide", "record"}
  \/ chan = "select" /\ \E s \in Subscribers : pc[s] \in {"cast", "db"}
  \/ chan = "db"
  \/ chan = "cast" /\ hub = "idle" /\ casts < MaxMsgs
  \/ chan = "cast" /\ HubThm!CanGoOn

OnlyPeersHoldUp ==
  Relay!Resting \/ SomeoneCanGoOn
    \/ (hub = "write" /\ target \in open /\ health[target] = "stalled")

\* No interleaving of the callbacks, the two channels and handleMessages leaves them waiting
\* for one another.  With a message anywhere on its way someone can go on, except while the
\* broadcast writes to a browser that has stopped reading.
THEOREM BridgeWaitsOnlyForPeers == Spec => []OnlyPeersHoldUp
<1>1. ASSUME PartsInv, Carried PROVE OnlyPeersHoldUp
  <2>1. /\ chan \in {"select", "cast", "db"}
        /\ pc \in [Subscribers -> {"idle", "lookup", "decide", "record", "cast", "db"}]
    BY <1>1 DEF PartsInv, RelayThm!TypeOK
  <2>2. CASE chan = "select"
    BY <2>1, <2>2 DEF OnlyPeersHoldUp, SomeoneCanGoOn, Relay!Resting
  <2>3. CASE chan = "cast" /\ hub = "idle"
    BY <1>1, <2>3, CastsAreMessages DEF OnlyPeersHoldUp, SomeoneCanGoOn
  <2>4. CASE chan = "cast" /\ hub # "idle"
    BY <1>1, <2>4 DEF OnlyPeersHoldUp, SomeoneCanGoOn, HubThm!CanGoOn, PartsInv, HubThm!TypeOK
  <2>5. CASE chan = "db"
    BY <2>5 DEF OnlyPeersHoldUp, SomeoneCanGoOn
  <2>. QED
    BY <2>1, <2>2, <2>3, <2>4, <2>5
<1>. QED
  BY <1>1, PartsHold, CarriedHolds, PTL
=============================================================================
