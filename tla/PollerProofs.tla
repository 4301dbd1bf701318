---------------------------- MODULE PollerProofs ----------------------------
(***************************************************************************)
(* Theorems about DomainPoller, for every set of domains and however often  *)
(* they change.                                                            *)
(***************************************************************************)
EXTENDS DomainPoller, FiniteSetTheorems, TLAPS

-----------------------------------------------------------------------------
(* Facts about sequences.                                                  *)

Clients == [com : Coms, link : {"up", "lost", "off"}, sub : BOOLEAN]

LEMMA AppendFacts ==
  ASSUME NEW S, NEW q \in Seq(S), NEW e \in S
  PROVE  /\ Append(q, e) \in Seq(S)
         /\ Len(q) \in Nat
         /\ Len(Append(q, e)) = Len(q) + 1
         /\ DOMAIN q = 1 .. Len(q)
         /\ DOMAIN Append(q, e) = 1 .. Len(q) + 1
         /\ \A i \in 1 .. Len(q) : Append(q, e)[i] = q[i]
         /\ Append(q, e)[Len(q) + 1] = e
OBVIOUS

LEMMA OverwriteFacts ==
  ASSUME NEW S, NEW q \in Seq(S), NEW e \in S, NEW i \in DOMAIN q
  PROVE  /\ [q EXCEPT ![i] = e] \in Seq(S)
         /\ DOMAIN [q EXCEPT ![i] = e] = DOMAIN q
         /\ Len([q EXCEPT ![i] = e]) = Len(q)
         /\ [q EXCEPT ![i] = e][i] = e
         /\ \A j \in DOMAIN q : j # i => [q EXCEPT ![i] = e][j] = q[j]
OBVIOUS

LEMMA LengthFacts ==
  ASSUME NEW S, NEW q \in Seq(S)
  PROVE  /\ Len(q) \in Nat
         /\ DOMAIN q = 1 .. Len(q)
         /\ q # <<>> <=> Len(q) > 0
         /\ \A i \in 1 .. Len(q) : q[i] \in S
OBVIOUS

LEMMA WidenFacts ==
  ASSUME NEW n \in Nat, NEW m \in Nat, n <= m, NEW q \in Seq(0 .. n)
  PROVE  q \in Seq(0 .. m)
OBVIOUS

\* What becomes of the clients when one of them changes.
LEMMA LinkedShape ==
  ASSUME TypeOK, NEW i \in DOMAIN made, NEW l \in {"up", "lost", "off"}, NEW s \in BOOLEAN
  PROVE  /\ Linked(i, l, s) \in Seq(Clients)
         /\ Len(Linked(i, l, s)) = Len(made)
         /\ DOMAIN Linked(i, l, s) = DOMAIN made
         /\ Linked(i, l, s)[i].com = made[i].com
         /\ Linked(i, l, s)[i].link = l
         /\ Linked(i, l, s)[i].sub = s
         /\ \A j \in DOMAIN made : j # i => Linked(i, l, s)[j] = made[j]
<1> DEFINE e == [com |-> made[i].com, link |-> l, sub |-> s]
<1>1. made \in Seq(Clients)
  BY DEF TypeOK, Clients
<1>2. made[i] \in Clients
  BY <1>1, LengthFacts
<1>3. e \in Clients
  BY <1>2 DEF Clients
<1>4. Linked(i, l, s) = [made EXCEPT ![i] = e]
  BY DEF Linked
<1>5. e.com = made[i].com /\ e.link = l /\ e.sub = s
  OBVIOUS
<1> HIDE DEF e
<1> QED
  BY <1>1, <1>3, <1>4, <1>5, OverwriteFacts

-----------------------------------------------------------------------------
(* Type correctness.                                                       *)

\* The clients stay typed when one of them changes.
LEMMA LinkedType ==
  ASSUME TypeOK, NEW i \in DOMAIN made, NEW l \in {"up", "lost", "off"}, NEW s \in BOOLEAN,
         made' = Linked(i, l, s)
  PROVE  /\ made' \in Seq(Clients)
         /\ Len(made') = Len(made)
         /\ made # <<>> => made' # <<>> /\ made'[Len(made')].com = made[Len(made)].com
<1>0. made \in Seq(Clients)
  BY DEF TypeOK, Clients
<1>1. made \in Seq(Clients) /\ made' \in Seq(Clients) /\ Len(made') = Len(made)
  BY <1>0, LinkedShape
<1>2. ASSUME made # <<>> PROVE made' # <<>> /\ made'[Len(made')].com = made[Len(made)].com
  <2>1. Len(made) \in DOMAIN made /\ made' # <<>>
    BY <1>1, <1>2, LengthFacts
  <2> QED
    BY <1>1, <2>1, LinkedShape
<1> QED
  BY <1>1, <1>2

LEMMA TypeStep == TypeOK /\ [Next]_vars => TypeOK'
<1> SUFFICES ASSUME TypeOK, [Next]_vars PROVE TypeOK'
  OBVIOUS
<1> USE DEF TypeOK
<1>0. made \in Seq(Clients) /\ Len(made) \in Nat /\ mqttClients \in Seq(0 .. Len(made))
  BY LengthFacts DEF Clients
<1>a. Len(mqttClients) \in Nat
  BY <1>0, LengthFacts
<1>1. CASE QueryUnchanged
  BY <1>1 DEF QueryUnchanged, tableVars
<1>2. CASE QueryChanged
  <2>1. next' \in 1 .. Len(mqttClients) + 1
    BY <1>2, <1>a DEF QueryChanged
  <2> QED
    BY <1>2, <2>1 DEF QueryChanged, tableVars
<1>3. CASE QueryFails \/ FatalElsewhere
  BY <1>3 DEF QueryFails, FatalElsewhere, tableVars, pollVars
<1>4. CASE Disconnect
  <2>1. next' \in 1 .. Len(mqttClients) + 1
    BY <1>4, <1>a DEF Disconnect
  <2>2. made' \in Seq(Clients) /\ Len(made') = Len(made)
    <3> DEFINE i == mqttClients[next]
    <3>1. i \in 0 .. Len(made)
      BY <1>0, <1>4, LengthFacts DEF Disconnect
    <3>2. CASE i = 0
      BY <1>0, <1>4, <3>2 DEF Disconnect
    <3>3. CASE i # 0
      <4>1. i \in DOMAIN made /\ made' = Linked(i, "off", FALSE)
        BY <1>0, <1>4, <3>1, <3>3, LengthFacts DEF Disconnect
      <4> HIDE DEF i
      <4> QED
        BY <4>1, LinkedShape
    <3> QED
      BY <3>2, <3>3
  <2> QED
    BY <1>4, <2>1, <2>2 DEF Disconnect, tableVars, Clients
<1>5. CASE Disconnected
  BY <1>5, <1>a DEF Disconnected, tableVars
<1>6. ASSUME NEW d \in Domains, Connect(d) PROVE TypeOK'
  <2> DEFINE e == [com |-> ComOf[d], link |-> "up", sub |-> FALSE]
  <2>1. e \in Clients
    BY PollerAssumption DEF Clients
  <2>2. made' = Append(made, e) /\ e.com = ComOf[d]
    BY <1>6 DEF Connect
  <2> HIDE DEF e
  <2>3. made' \in Seq(Clients) /\ Len(made') = Len(made) + 1 /\ made'[Len(made')] = e
    BY <1>0, <2>1, <2>2, AppendFacts
  <2>4. mqttClients \in Seq(0 .. Len(made'))
    BY <1>0, <2>3, WidenFacts
  <2>5. made' # <<>>
    BY <1>0, <2>3, LengthFacts
  <2> QED
    BY <1>6, <2>2, <2>3, <2>4, <2>5 DEF Connect, tableVars, Clients
<1>7. ASSUME NEW d \in Domains, ConnectFails(d) PROVE TypeOK'
  <2>1. mqttClients' \in Seq(0 .. Len(made)) /\ Len(mqttClients') = Len(mqttClients) + 1
    BY <1>0, <1>7, AppendFacts DEF ConnectFails
  <2> QED
    BY <1>7, <1>a, <2>1 DEF ConnectFails, tableVars
<1>8. CASE Subscribe
  <2>1. Len(made) \in DOMAIN made /\ Len(made) \in 0 .. Len(made)
    BY <1>0, <1>8, LengthFacts DEF Subscribe
  <2>2. made' \in Seq(Clients) /\ Len(made') = Len(made)
    BY <1>8, <2>1, LinkedShape DEF Subscribe
  <2>3. mqttClients' \in Seq(0 .. Len(made)) /\ Len(mqttClients') = Len(mqttClients) + 1
    BY <1>0, <1>8, <2>1, AppendFacts DEF Subscribe
  <2>4. mqttClients' \in Seq(0 .. Len(made'))
    BY <2>2, <2>3
  <2>5. next' \in 1 .. Len(mqttClients') + 1
    BY <1>8, <1>a, <2>3 DEF Subscribe
  <2> QED
    BY <1>8, <2>2, <2>4, <2>5 DEF Subscribe, tableVars, Clients
<1>9. CASE SubscribeFails
  <2>1. mqttClients' \in Seq(0 .. Len(made)) /\ Len(mqttClients') = Len(mqttClients) + 1
    BY <1>0, <1>9, AppendFacts DEF SubscribeFails
  <2> QED
    BY <1>9, <1>a, <2>1 DEF SubscribeFails, tableVars
<1>10. CASE Done
  BY <1>10 DEF Done, tableVars
<1>11. ASSUME NEW d \in Domains, EditDomains(d) PROVE TypeOK'
  BY <1>11 DEF EditDomains, pollVars
<1>12. ASSUME NEW i \in DOMAIN made, ConnectionLost(i) \/ Reconnect(i) PROVE TypeOK'
  <2>1. PICK l \in {"up", "lost", "off"} : made' = Linked(i, l, FALSE)
    BY <1>12 DEF ConnectionLost, Reconnect
  <2>2. /\ made' \in Seq(Clients)
        /\ Len(made') = Len(made)
        /\ made # <<>> => made' # <<>> /\ made'[Len(made')].com = made[Len(made)].com
    BY <2>1, LinkedType
  <2> QED
    BY <1>12, <2>2 DEF ConnectionLost, Reconnect, tableVars, pollVars, Clients
<1>13. CASE UNCHANGED vars
  BY <1>13 DEF vars, tableVars, pollVars
<1> QED
  BY <1>1, <1>2, <1>3, <1>4, <1>5, <1>6, <1>7, <1>8, <1>9, <1>10, <1>11, <1>12, <1>13
     DEF Next, queryDomains, Rest

LEMMA TypeStart == Init => TypeOK
<1> SUFFICES ASSUME Init PROVE TypeOK
  OBVIOUS
<1>1. made \in Seq(Clients) /\ mqttClients \in Seq(0 .. Len(made)) /\ next \in 1 .. Len(mqttClients) + 1
  BY DEF Init
<1> QED
  BY <1>1 DEF Init, TypeOK, Clients

\* The variables keep their types; in particular every entry of mqttClients is
\* nil or a client that was made.
THEOREM TypeCorrect == Spec => []TypeOK
BY TypeStart, TypeStep, PTL DEF Spec

-----------------------------------------------------------------------------
(* Who is subscribed.                                                      *)

\* The clients kept that have been disconnected, or are about to be kept, account
\* for every subscription: none is left behind by the next change.
Kept == \A i \in Subscribed : \E k \in DOMAIN mqttClients : mqttClients[k] = i

\* The loop over the clients kept: those behind it have no subscription.
Cut ==
  phase = "disconnect" =>
    \A k \in DOMAIN mqttClients : k < next => mqttClients[k] \notin Subscribed

\* A poll that has found another number of domains works through just those.
Working ==
  /\ phase # "idle" => found = basis
  /\ phase = "disconnect" => todo = found

\* Every subscription is to a domain that has been dealt with, and there is one
\* for each of them if nothing has failed.
Served ==
  phase # "disconnect" =>
    /\ \A i \in Subscribed : \E d \in basis \ todo : made[i].com = ComOf[d]
    /\ ~troubled => \A d \in basis \ todo : \E i \in Subscribed : made[i].com = ComOf[d]

\* A subscription lasts no longer than its connection.
Live == \A i \in Subscribed : made[i].link = "up"

SubsInv == Live /\ Kept /\ Cut /\ Working /\ Served /\ (DistinctComs => OneSubscription)

\* What a change of client i does to the subscriptions.
LEMMA LinkedSubscribed ==
  ASSUME TypeOK, NEW i \in DOMAIN made, NEW l \in {"up", "lost", "off"}, NEW s \in BOOLEAN,
         made' = Linked(i, l, s)
  PROVE  /\ Subscribed' = IF s THEN Subscribed \cup {i} ELSE Subscribed \ {i}
         /\ \A j \in DOMAIN made : made'[j].com = made[j].com
         /\ (s => l = "up") /\ Live => Live'
<1>1. DOMAIN made' = DOMAIN made /\ made'[i].link = l /\ made'[i].sub = s /\ made'[i].com = made[i].com
  BY LinkedShape
<1>2. \A j \in DOMAIN made : j # i => made'[j] = made[j]
  BY LinkedShape
<1>3. \A j \in DOMAIN made : made'[j].com = made[j].com
  BY <1>1, <1>2
<1>4. \A j \in DOMAIN made : made'[j].sub <=> IF j = i THEN s ELSE made[j].sub
  BY <1>1, <1>2
<1>5. Subscribed' = IF s THEN Subscribed \cup {i} ELSE Subscribed \ {i}
  BY <1>1, <1>4 DEF Subscribed
<1>6. (s => l = "up") /\ Live => Live'
  BY <1>1, <1>2, <1>5 DEF Live, Subscribed
<1> QED
  BY <1>3, <1>5, <1>6

\* A new client is subscribed to nothing.
LEMMA ConnectSubscribed ==
  ASSUME TypeOK, NEW d \in Domains, Connect(d)
  PROVE  Subscribed' = Subscribed /\ \A j \in Subscribed : made'[j] = made[j]
<1> DEFINE e == [com |-> ComOf[d], link |-> "up", sub |-> FALSE]
<1>1. e \in Clients /\ made \in Seq(Clients)
  BY PollerAssumption DEF Clients, TypeOK
<1>2. made' = Append(made, e) /\ e.sub = FALSE
  BY DEF Connect
<1> HIDE DEF e
<1>3. /\ DOMAIN made = 1 .. Len(made) /\ DOMAIN made' = 1 .. Len(made) + 1
      /\ \A j \in 1 .. Len(made) : made'[j] = made[j]
      /\ made'[Len(made) + 1] = e /\ Len(made) \in Nat
  BY <1>1, <1>2, AppendFacts
<1> QED
  BY <1>2, <1>3 DEF Subscribed

\* Nothing about the subscriptions depends on what these steps change.
LEMMA SubsStutter ==
  ASSUME SubsInv, UNCHANGED <<made, mqttClients, next, phase, found, todo, basis>>,
         troubled' = troubled
  PROVE  SubsInv'
BY DEF SubsInv, Live, Kept, Cut, Working, Served, OneSubscription, Subscribed

\* An entry added to mqttClients leaves those before it.
LEMMA KeptGrows ==
  ASSUME TypeOK, Kept, NEW c \in 0 .. Len(made), mqttClients' = Append(mqttClients, c),
         Subscribed' \subseteq Subscribed \cup {c}
  PROVE  Kept'
<1>1. /\ DOMAIN mqttClients = 1 .. Len(mqttClients)
      /\ DOMAIN mqttClients' = 1 .. Len(mqttClients) + 1
      /\ \A k \in 1 .. Len(mqttClients) : mqttClients'[k] = mqttClients[k]
      /\ mqttClients'[Len(mqttClients) + 1] = c
      /\ Len(mqttClients) \in Nat
  BY AppendFacts DEF TypeOK
<1> QED
  BY <1>1 DEF Kept

LEMMA SubsStep == TypeOK /\ SubsInv /\ [Next]_vars => SubsInv'
<1> SUFFICES ASSUME TypeOK, SubsInv, [Next]_vars PROVE SubsInv'
  OBVIOUS
<1>0. Len(made) \in Nat /\ DOMAIN made = 1 .. Len(made)
  BY LengthFacts DEF TypeOK
<1>1. CASE QueryUnchanged
  BY <1>1 DEF QueryUnchanged, TypeOK, SubsInv, Live, Kept, Cut, Working, Served, OneSubscription, Subscribed
<1>2. CASE QueryChanged
  <2>1. Cut'
    <3>1. next' = 1 /\ mqttClients' = mqttClients
      BY <1>2 DEF QueryChanged
    <3>2. \A k \in DOMAIN mqttClients : ~(k < 1)
      BY LengthFacts DEF TypeOK
    <3> QED
      BY <3>1, <3>2 DEF Cut
  <2> QED
    BY <1>2, <2>1 DEF QueryChanged, SubsInv, Live, Kept, Working, Served, OneSubscription, Subscribed
<1>3. CASE QueryFails \/ FatalElsewhere
  BY <1>3, SubsStutter DEF QueryFails, FatalElsewhere, pollVars
<1>4. CASE Disconnect
  <2> DEFINE i == mqttClients[next]
  <2>1. /\ next \in DOMAIN mqttClients /\ i \in 0 .. Len(made)
        /\ \A k \in DOMAIN mqttClients : k < next + 1 => k < next \/ k = next
    BY <1>4, LengthFacts DEF Disconnect, TypeOK
  <2>2. Subscribed' = Subscribed \ {i} /\ Live' /\ \A j \in Subscribed : made'[j].com = made[j].com
    <3>1. CASE i = 0
      BY <1>0, <1>4, <3>1 DEF Disconnect, Subscribed, SubsInv, Live
    <3>2. CASE i # 0
      <4>1. i \in DOMAIN made /\ made' = Linked(i, "off", FALSE)
        BY <1>0, <1>4, <2>1, <3>2 DEF Disconnect
      <4>2. Subscribed \subseteq DOMAIN made
        BY DEF Subscribed
      <4> HIDE DEF i
      <4> QED
        BY <4>1, <4>2, LinkedSubscribed DEF SubsInv
    <3> QED
      BY <3>1, <3>2
  <2>3. phase = "disconnect" /\ next' = next + 1
        /\ UNCHANGED <<mqttClients, phase, found, todo, basis>>
    BY <1>4 DEF Disconnect
  <2>4. Kept' /\ Working' /\ Served'
    BY <2>2, <2>3 DEF SubsInv, Kept, Working, Served
  <2>5. Cut'
    BY <2>1, <2>2, <2>3 DEF SubsInv, Cut
  <2>6. DistinctComs => OneSubscription'
    BY <2>2 DEF SubsInv, OneSubscription
  <2> QED
    BY <2>2, <2>4, <2>5, <2>6 DEF SubsInv
<1>5. CASE Disconnected
  <2>1. Subscribed = {}
    <3>1. \A k \in DOMAIN mqttClients : mqttClients[k] \notin Subscribed
      <4>1. \A k \in DOMAIN mqttClients : k < next
        BY <1>5, LengthFacts DEF Disconnected, TypeOK
      <4> QED
        BY <1>5, <4>1 DEF Disconnected, SubsInv, Cut
    <3> QED
      BY <3>1 DEF SubsInv, Kept
  <2> QED
    BY <1>5, <2>1 DEF Disconnected, SubsInv, Live, Kept, Cut, Working, Served, OneSubscription, Subscribed
<1>6. ASSUME NEW d \in Domains, Connect(d) PROVE SubsInv'
  <2>1. Subscribed' = Subscribed /\ \A j \in Subscribed : made'[j] = made[j]
    BY <1>6, ConnectSubscribed
  <2> QED
    <3>1. /\ phase = "connect" /\ phase' = "subscribe"
          /\ UNCHANGED <<mqttClients, found, todo, basis, troubled>>
      BY <1>6 DEF Connect
    <3>2. Live' /\ Kept' /\ Cut' /\ Working'
      BY <2>1, <3>1 DEF SubsInv, Live, Kept, Cut, Working
    <3>3. Served' /\ (DistinctComs => OneSubscription')
      BY <2>1, <3>1 DEF SubsInv, Served, OneSubscription
    <3> QED
      BY <3>2, <3>3 DEF SubsInv
<1>7. ASSUME NEW d \in Domains, ConnectFails(d) PROVE SubsInv'
  <2>1. Subscribed' = Subscribed /\ made' = made /\ Kept'
    <3>1. made' = made /\ mqttClients' = Append(mqttClients, 0) /\ 0 \in 0 .. Len(made)
      BY <1>0, <1>7 DEF ConnectFails
    <3>2. Subscribed' = Subscribed
      BY <3>1 DEF Subscribed
    <3> QED
      BY <3>1, <3>2, KeptGrows DEF SubsInv
  <2> QED
    BY <1>7, <2>1 DEF ConnectFails, SubsInv, Live, Cut, Working, Served, OneSubscription
<1>8. CASE Subscribe
  <2> DEFINE n == Len(made)
  <2>1. n \in DOMAIN made /\ n \in 0 .. n /\ making \in todo /\ made[n].com = ComOf[making]
    BY <1>0, <1>8, LengthFacts DEF Subscribe, TypeOK
  <2>2. /\ Subscribed' = Subscribed \cup {n} /\ Live'
        /\ \A j \in DOMAIN made : made'[j].com = made[j].com
    BY <1>8, <2>1, LinkedSubscribed DEF Subscribe, SubsInv
  <2>3. Kept'
    BY <1>8, <2>1, <2>2, KeptGrows DEF Subscribe, SubsInv
  <2>4. making \in basis /\ making \in Domains /\ todo \subseteq Domains /\ basis \subseteq Domains
    BY <1>8, <2>1 DEF Subscribe, SubsInv, Working, TypeOK
  <2>5. \A j \in Subscribed : j \in DOMAIN made /\ \E d \in basis \ todo : made[j].com = ComOf[d]
    BY <1>8 DEF Subscribe, SubsInv, Served, Subscribed
  <2>6. Cut' /\ Working'
    BY <1>8 DEF Subscribe, SubsInv, Cut, Working
  <2>7. Served'
    <3>1. basis' = basis /\ troubled' = troubled /\ todo' = todo \ {making} /\ phase = "subscribe"
      BY <1>8 DEF Subscribe
    <3>2. \A j \in Subscribed' : \E d \in basis' \ todo' : made'[j].com = ComOf[d]
      BY <2>1, <2>2, <2>4, <2>5, <3>1
    <3>3. ~troubled => \A d \in basis' \ todo' : \E j \in Subscribed' : made'[j].com = ComOf[d]
      <4> SUFFICES ASSUME ~troubled, NEW d \in basis' \ todo'
                   PROVE  \E j \in Subscribed' : made'[j].com = ComOf[d]
        OBVIOUS
      <4>1. CASE d = making
        BY <2>1, <2>2, <4>1
      <4>2. CASE d # making
        <5>1. \E j \in Subscribed : made[j].com = ComOf[d]
          BY <3>1, <4>2 DEF SubsInv, Served
        <5> QED
          BY <2>2, <2>5, <5>1
      <4> QED
        BY <4>1, <4>2
    <3> QED
      BY <3>1, <3>2, <3>3 DEF Served
  <2>8. DistinctComs => OneSubscription'
    <3> SUFFICES ASSUME DistinctComs, NEW j \in Subscribed', NEW k \in Subscribed',
                        made'[j].com = made'[k].com
                 PROVE  j = k
      BY DEF OneSubscription
    <3>1. \A h \in Subscribed : made[h].com # made[n].com
      BY <2>1, <2>4, <2>5 DEF DistinctComs
    <3>2. j \in DOMAIN made /\ k \in DOMAIN made
      BY <2>1, <2>2, <2>5
    <3>3. made[j].com = made[k].com
      BY <2>2, <3>2
    <3> QED
      BY <2>2, <3>1, <3>3 DEF SubsInv, OneSubscription
  <2> QED
    BY <2>2, <2>3, <2>6, <2>7, <2>8 DEF SubsInv
<1>9. CASE SubscribeFails
  <2>1. Subscribed' = Subscribed /\ made' = made /\ Kept'
    <3>1. made' = made /\ mqttClients' = Append(mqttClients, 0) /\ 0 \in 0 .. Len(made)
      BY <1>0, <1>9 DEF SubscribeFails
    <3>2. Subscribed' = Subscribed
      BY <3>1 DEF Subscribed
    <3> QED
      BY <3>1, <3>2, KeptGrows DEF SubsInv
  <2> QED
    BY <1>9, <2>1 DEF SubscribeFails, SubsInv, Live, Cut, Working, Served, OneSubscription
<1>10. CASE Done
  BY <1>10 DEF Done, SubsInv, Live, Kept, Cut, Working, Served, OneSubscription, Subscribed
<1>11. ASSUME NEW d \in Domains, EditDomains(d) PROVE SubsInv'
  BY <1>11, SubsStutter DEF EditDomains, pollVars
<1>12. ASSUME NEW i \in DOMAIN made, ConnectionLost(i) PROVE SubsInv'
  <2>1. /\ Subscribed' = Subscribed \ {i} /\ Live'
        /\ \A j \in DOMAIN made : made'[j].com = made[j].com
    BY <1>12, LinkedSubscribed DEF ConnectionLost, SubsInv
  <2>2. Subscribed \subseteq DOMAIN made /\ troubled'
    BY <1>12 DEF Subscribed, ConnectionLost
  <2>3. UNCHANGED <<mqttClients, next, phase, found, todo, basis>>
    BY <1>12 DEF ConnectionLost, pollVars
  <2> QED
    BY <2>1, <2>2, <2>3 DEF SubsInv, Kept, Cut, Working, Served, OneSubscription
<1>13. ASSUME NEW i \in DOMAIN made, Reconnect(i) PROVE SubsInv'
  <2>1. i \notin Subscribed
    BY <1>13 DEF Reconnect, SubsInv, Live
  <2>2. /\ Subscribed' = Subscribed /\ Live'
        /\ \A j \in DOMAIN made : made'[j].com = made[j].com
    BY <1>13, <2>1, LinkedSubscribed DEF Reconnect, SubsInv
  <2>3. Subscribed \subseteq DOMAIN made
    BY DEF Subscribed
  <2>4. UNCHANGED <<mqttClients, next, phase, found, todo, basis, troubled>>
    BY <1>13 DEF Reconnect, pollVars
  <2> QED
    BY <2>2, <2>3, <2>4 DEF SubsInv, Kept, Cut, Working, Served, OneSubscription
<1>14. CASE UNCHANGED vars
  BY <1>14, SubsStutter DEF vars, pollVars
<1> QED
  BY <1>1, <1>2, <1>3, <1>4, <1>5, <1>6, <1>7, <1>8, <1>9, <1>10, <1>11, <1>12, <1>13, <1>14
     DEF Next, queryDomains, Rest

LEMMA SubsHold == Spec => []SubsInv
<1>1. Init => SubsInv
  BY DEF Init, SubsInv, Live, Kept, Cut, Working, Served, OneSubscription, Subscribed
<1> QED
  BY <1>1, TypeStart, TypeStep, SubsStep, PTL DEF Spec

\* With a comID per domain no comID is ever subscribed to twice, not even while a
\* poll exchanges the clients: what MessageRelay assumes as ExclusiveRoute.
THEOREM SubscribedOnce ==
  ASSUME DistinctComs
  PROVE  Spec => []OneSubscription
<1>1. SubsInv => OneSubscription
  BY DEF SubsInv
<1> QED
  BY <1>1, SubsHold, PTL

\* The bridge listens to nothing but what the poll that made its clients found,
\* however many calls failed.
THEOREM NothingElseHeard == Spec => []OnlyFoundDomains
<1>1. SubsInv => OnlyFoundDomains
  BY DEF SubsInv, Served, OnlyFoundDomains
<1> QED
  BY <1>1, SubsHold, PTL

\* If nothing has failed since that poll, the bridge listens to all of it.
THEOREM AllFoundHeard == Spec => []FoundDomainsServed
<1>1. TypeOK /\ SubsInv => FoundDomainsServed
  BY DEF TypeOK, SubsInv, Served, FoundDomainsServed
<1> QED
  BY <1>1, TypeCorrect, SubsHold, PTL

-----------------------------------------------------------------------------
(* What it is worth to compare the numbers of domains only.  A domain that   *)
(* is removed while another is created goes unnoticed; but as long as domains *)
(* are only created, or only removed, the number tells the whole story.      *)

Numbers ==
  /\ phase # "idle" => found = basis
  /\ phase = "idle" => Cardinality(comIDs) = Cardinality(basis)

LEMMA NumbersStep == Numbers /\ [Next]_vars => Numbers'
<1>. SUFFICES ASSUME Numbers, [Next]_vars PROVE Numbers'
  OBVIOUS
<1>1. CASE QueryUnchanged \/ QueryChanged \/ Done
  BY <1>1 DEF QueryUnchanged, QueryChanged, Done, Numbers
<1>2. CASE Disconnect \/ Disconnected \/ Subscribe \/ SubscribeFails
           \/ \E d \in Domains : Connect(d) \/ ConnectFails(d)
  BY <1>2 DEF Disconnect, Disconnected, Subscribe, SubscribeFails, Connect, ConnectFails, Numbers
<1>3. CASE UNCHANGED pollVars
  BY <1>3 DEF pollVars, Numbers
<1>. QED
  BY <1>1, <1>2, <1>3
     DEF Next, queryDomains, QueryFails, EditDomains, ConnectionLost, Reconnect,
         FatalElsewhere, Rest, vars

LEMMA NumbersHold == Spec => []Numbers
<1>1. Init => Numbers
  BY DEF Init, Numbers
<1>. QED
  BY <1>1, NumbersStep, PTL DEF Spec

DomainsGrow == [][domains \subseteq domains']_vars
DomainsShrink == [][domains' \subseteq domains]_vars

Ahead == basis \subseteq domains
Behind == basis = {} \/ domains \subseteq basis

\* Only a poll that finds another number sets basis, and it takes all of the table.
LEMMA BasisFrame ==
  ASSUME [Next]_vars
  PROVE  (basis' = domains /\ domains' = domains) \/ basis' = basis
BY DEF Next, queryDomains, QueryUnchanged, QueryChanged, QueryFails, Disconnect, Disconnected,
       Connect, ConnectFails, Subscribe, SubscribeFails, Done, EditDomains, ConnectionLost,
       Reconnect, FatalElsewhere, Rest, tableVars, pollVars, vars

\* Nothing is under way, and the next poll will find the number it knows.
Settled == phase = "idle" /\ Cardinality(domains) = Cardinality(comIDs)

\* The channels the bridge is subscribed to.
Heard == {made[i].com : i \in Subscribed}

ServesTable ==
  Settled =>
    /\ basis = domains
    /\ Heard \subseteq {ComOf[d] : d \in domains}
    /\ ~troubled => Heard = {ComOf[d] : d \in domains}

\* As long as domains are only created, or only removed, a bridge whose poll finds the
\* number it knows is subscribed to the channels of the domains in the table and to no
\* others, or a call has failed or a connection was lost since its clients were made
\* (queryDomains compares len(newComIDs) and len(comIDs)).
THEOREM CountSuffices == Spec /\ (DomainsGrow \/ DomainsShrink) => []ServesTable
<1>1. Init => Ahead /\ Behind
  BY DEF Init, Ahead, Behind
<1>2. Ahead /\ [Next]_vars /\ [domains \subseteq domains']_vars => Ahead'
  BY BasisFrame DEF Ahead, vars, tableVars
<1>3. Behind /\ [Next]_vars /\ [domains' \subseteq domains]_vars => Behind'
  BY BasisFrame DEF Behind, vars, tableVars
<1>4. Spec /\ DomainsGrow => []Ahead
  BY <1>1, <1>2, PTL DEF Spec, DomainsGrow
<1>5. Spec /\ DomainsShrink => []Behind
  BY <1>1, <1>3, PTL DEF Spec, DomainsShrink
<1>6. ASSUME TypeOK, Numbers, OnlyFoundDomains, FoundDomainsServed, Ahead \/ Behind
      PROVE  ServesTable
  <2>1. SUFFICES ASSUME Settled
                 PROVE  /\ basis = domains
                        /\ Heard \subseteq {ComOf[d] : d \in domains}
                        /\ ~troubled => Heard = {ComOf[d] : d \in domains}
    BY DEF ServesTable
  <2>2. /\ IsFiniteSet(domains) /\ IsFiniteSet(basis)
        /\ Cardinality(domains) = Cardinality(basis)
    BY <1>6, <2>1, PollerAssumption, FS_Subset DEF TypeOK, Numbers, Settled
  <2>3. basis = domains
    <3>1. CASE basis \subseteq domains
      BY <2>2, <3>1, FS_Subset
    <3>2. CASE domains \subseteq basis
      BY <2>2, <3>2, FS_Subset
    <3>3. CASE basis = {}
      BY <2>2, <3>3, FS_EmptySet
    <3>. QED
      BY <1>6, <3>1, <3>2, <3>3 DEF Ahead, Behind
  <2>4. Heard \subseteq {ComOf[d] : d \in domains}
    BY <1>6, <2>1, <2>3 DEF OnlyFoundDomains, Settled, Heard
  <2>5. ~troubled => {ComOf[d] : d \in domains} \subseteq Heard
    BY <1>6, <2>1, <2>3 DEF FoundDomainsServed, Settled, Heard
  <2>. QED
    BY <2>3, <2>4, <2>5
<1>. QED
  BY <1>4, <1>5, <1>6, TypeCorrect, NumbersHold, NothingElseHeard, AllFoundHeard, PTL

-----------------------------------------------------------------------------
(* What is behind PollCatchesUp: a poll has so many calls to make, and        *)
(* nothing that happens meanwhile adds to them.                             *)

Calls ==
  CASE phase = "disconnect" -> Len(mqttClients) + 3 - next
    [] phase = "connect" -> 1
    [] OTHER -> 0

\* The steps that are left at most.
Left == 2 * Cardinality(todo) + Calls

PollAdvances == [][phase # "idle" => Left' < Left \/ UNCHANGED pollVars]_vars

LEMMA TodoShrinks ==
  ASSUME TypeOK, NEW d \in todo, todo' = todo \ {d}
  PROVE  Cardinality(todo') = Cardinality(todo) - 1
<1>1. IsFiniteSet(todo)
  BY PollerAssumption, FS_Subset DEF TypeOK
<1>. QED
  BY <1>1, FS_RemoveElement

\* Every step of the process while a poll is under way is a step towards its end, or leaves
\* it alone: edits of the table and lost connections do not prolong it, whatever calls fail
\* (queryDomains, disconnectFromMQTT, subscribeToMQTTTopic).
THEOREM PollsAdvance == Spec => [](Left \in Nat) /\ PollAdvances
<1>0. ASSUME TypeOK PROVE Left \in Nat
  <2>1. Cardinality(todo) \in Nat
    BY <1>0, PollerAssumption, FS_Subset, FS_CardinalityType DEF TypeOK
  <2>2. Len(mqttClients) \in Nat /\ next \in 1 .. Len(mqttClients) + 1
    BY <1>0, LengthFacts DEF TypeOK
  <2>3. Calls \in Nat
    BY <2>2 DEF Calls
  <2>. QED
    BY <2>1, <2>3 DEF Left
<1>1. ASSUME TypeOK, [Next]_vars, phase # "idle"
      PROVE  Left' < Left \/ UNCHANGED pollVars
  <2>. DEFINE n == Cardinality(todo)
  <2>1. n \in Nat
    BY <1>1, PollerAssumption, FS_Subset, FS_CardinalityType DEF TypeOK
  <2>2. Len(mqttClients) \in Nat /\ next \in 1 .. Len(mqttClients) + 1
    BY <1>1, LengthFacts DEF TypeOK
  <2>3. Left = 2 * n + Calls /\ Left' = 2 * n' + Calls'
    BY DEF Left
  <2>4. CASE Disconnect
    <3>1. /\ todo' = todo /\ phase = "disconnect" /\ phase' = "disconnect"
          /\ mqttClients' = mqttClients /\ next' = next + 1
      BY <2>4 DEF Disconnect
    <3>2. n' = n /\ Calls \in Nat /\ Calls' = Calls - 1
      BY <2>2, <3>1 DEF Calls
    <3>. HIDE DEF n
    <3>. QED
      BY <2>1, <2>3, <3>2
  <2>5. CASE Disconnected
    <3>1. n' = n /\ Calls' = 1 /\ Calls = 2
      BY <2>2, <2>5 DEF Disconnected, Calls
    <3>. HIDE DEF n
    <3>. QED
      BY <2>1, <2>3, <3>1
  <2>6. ASSUME NEW d \in Domains, Connect(d) PROVE Left' < Left
    <3>1. n' = n /\ Calls' = 0 /\ Calls = 1
      BY <2>6 DEF Connect, Calls
    <3>. HIDE DEF n
    <3>. QED
      BY <2>1, <2>3, <3>1
  <2>7. ASSUME NEW d \in Domains, ConnectFails(d) PROVE Left' < Left
    <3>1. n' = n - 1
      BY <1>1, <2>7, TodoShrinks DEF ConnectFails
    <3>2. Calls' = 1 /\ Calls = 1
      BY <2>7 DEF ConnectFails, Calls
    <3>. HIDE DEF n
    <3>. QED
      BY <2>1, <2>3, <3>1, <3>2
  <2>8. CASE Subscribe \/ SubscribeFails
    <3>1. /\ phase = "subscribe" /\ phase' = "connect"
          /\ making \in todo /\ todo' = todo \ {making}
      BY <1>1, <2>8 DEF Subscribe, SubscribeFails, TypeOK
    <3>2. n' = n - 1
      BY <1>1, <3>1, TodoShrinks
    <3>3. Calls' = 1 /\ Calls = 0
      BY <3>1 DEF Calls
    <3>. HIDE DEF n
    <3>. QED
      BY <2>1, <2>3, <3>2, <3>3
  <2>9. CASE Done
    <3>1. n' = n /\ Calls' = 0 /\ Calls = 1
      BY <2>9 DEF Done, Calls
    <3>. HIDE DEF n
    <3>. QED
      BY <2>1, <2>3, <3>1
  <2>10. CASE UNCHANGED pollVars
    BY <2>10
  <2>. QED
    BY <1>1, <2>4, <2>5, <2>6, <2>7, <2>8, <2>9, <2>10
       DEF Next, queryDomains, QueryUnchanged, QueryChanged, QueryFails, EditDomains,
           ConnectionLost, Reconnect, FatalElsewhere, Rest, vars
<1>2. TypeOK /\ [Next]_vars =>
        [phase # "idle" => Left' < Left \/ UNCHANGED pollVars]_vars
  BY <1>1
<1>. QED
  BY <1>0, <1>2, TypeCorrect, PTL DEF Spec, PollAdvances
=============================================================================
