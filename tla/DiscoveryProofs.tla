-------------------------- MODULE DiscoveryProofs --------------------------
(***************************************************************************)
(* Proofs about DeviceDiscovery, for any devices, readers and backlog.      *)
(***************************************************************************)
EXTENDS DeviceDiscovery, FiniteSetTheorems, TLAPS

-----------------------------------------------------------------------------
(* Facts about sequences.                                                  *)

LEMMA AppendFacts ==
  ASSUME NEW S, NEW q \in Seq(S), NEW e \in S
  PROVE  /\ Append(q, e) \in Seq(S)
         /\ Len(q) \in Nat
         /\ Len(Append(q, e)) = Len(q) + 1
         /\ DOMAIN q = 1 .. Len(q)
         /\ DOMAIN Append(q, e) = 1 .. Len(q) + 1
         /\ \A i \in 1 .. Len(q) : Append(q, e)[i] = q[i]
         /\ Append(q, e)[Len(q) + 1] = e
  OBVIOUS

LEMMA EmptyFacts ==
  ASSUME NEW S
  PROVE  <<>> \in Seq(S) /\ Len(<<>>) = 0
  OBVIOUS

LEMMA QueueFacts ==
  ASSUME NEW S, NEW q \in Seq(S), q # <<>>
  PROVE  /\ Head(q) \in S
         /\ Tail(q) \in Seq(S)
         /\ Len(q) \in Nat
         /\ Len(Tail(q)) <= Len(q)
  OBVIOUS

LEMMA OverwriteFacts ==
  ASSUME NEW S, NEW q \in Seq(S), NEW e \in S, NEW i \in DOMAIN q
  PROVE  /\ [q EXCEPT ![i] = e] \in Seq(S)
         /\ DOMAIN [q EXCEPT ![i] = e] = DOMAIN q
         /\ [q EXCEPT ![i] = e][i] = e
         /\ \A j \in DOMAIN q : j # i => [q EXCEPT ![i] = e][j] = q[j]
  OBVIOUS

LEMMA ElementFacts ==
  ASSUME NEW S, NEW q \in Seq(S)
  PROVE  \A i \in DOMAIN q : q[i] \in S
  OBVIOUS

-----------------------------------------------------------------------------
(* Type correctness.                                                       *)

LEMMA TypeStep == TypeOK /\ [Next]_vars => TypeOK'
<1>. SUFFICES ASSUME TypeOK, [Next]_vars PROVE TypeOK'
  OBVIOUS
<1>. USE DiscoveryAssumption DEF TypeOK, Datagrams
<1>1. ASSUME NEW d \in Datagrams, Arrive(d) PROVE TypeOK'
  <2>1. socket' \in Seq(Datagrams) /\ Len(socket') = Len(socket) + 1 /\ Len(socket) \in Nat
    BY <1>1, AppendFacts DEF Arrive
  <2>. QED
    BY <1>1, <2>1 DEF Arrive
<1>2. CASE ReadFromUDP
  <2>1. socket' \in Seq(Datagrams) /\ Len(socket') <= Backlog /\ hand' \in Datagrams
    BY <1>2, QueueFacts DEF ReadFromUDP
  <2>. QED
    BY <1>2, <2>1 DEF ReadFromUDP
<1>3. CASE SaveOver
  <2>1. pbMsgs' \in Seq(Adverts)
    BY <1>3, OverwriteFacts DEF SaveOver, Matches
  <2>. QED
    BY <1>3, <2>1 DEF SaveOver
<1>4. CASE SaveNew
  <2>1. pbMsgs' \in Seq(Adverts)
    BY <1>4, AppendFacts DEF SaveNew
  <2>. QED
    BY <1>4, <2>1 DEF SaveNew
<1>5. CASE SkipDatagram
  BY <1>5 DEF SkipDatagram
<1>6. CASE Wake
  BY <1>6 DEF Wake
<1>7. ASSUME NEW r \in Readers, Request(r) PROVE TypeOK'
  BY <1>7 DEF Request
<1>8. ASSUME NEW r \in Readers, Marshal(r) PROVE TypeOK'
  <2>1. Listed \subseteq Adverts
    BY ElementFacts DEF Listed
  <2>. QED
    BY <1>8, <2>1 DEF Marshal
<1>9. ASSUME NEW r \in Readers, Write(r) PROVE TypeOK'
  BY <1>9 DEF Write
<1>10. ASSUME NEW r \in Readers, Pause(r) \/ Resume(r) PROVE TypeOK'
  BY <1>10 DEF Pause, Resume
<1>11. CASE UNCHANGED vars
  BY <1>11 DEF vars
<1>12. CASE clearPbMsgs
  <2>1. pbMsgs' = <<>>
    BY <1>12 DEF clearPbMsgs
  <2>2. pbMsgs' \in Seq(Adverts)
    BY <2>1, EmptyFacts
  <2>. QED
    BY <1>12, <2>2 DEF clearPbMsgs
<1>. QED
  BY <1>1, <1>2, <1>3, <1>4, <1>5, <1>6, <1>7, <1>8, <1>9, <1>10, <1>11, <1>12
     DEF Next, addDeviceReplyHandler, savePbMsg, getDevicesHandler

\* The variables keep their types; in particular the mutex is held by nobody or
\* by a request that is being answered, never by one that is over.
THEOREM TypeCorrect == Spec => []TypeOK
<1>1. ASSUME Init PROVE TypeOK
  <2>1. socket \in Seq(Datagrams) /\ Len(socket) <= Backlog /\ pbMsgs \in Seq(Adverts)
    BY <1>1, EmptyFacts, DiscoveryAssumption DEF Init
  <2>2. view \in [Readers -> SUBSET Adverts]
    BY <1>1 DEF Init
  <2>. QED
    BY <1>1, <2>1, <2>2 DEF Init, TypeOK
<1>. QED
  BY <1>1, TypeStep, PTL DEF Spec

-----------------------------------------------------------------------------
(* One entry per device.                                                   *)

\* Under ExactNames an entry passes for an advertisement of hand's device if it
\* is one.
LEMMA MatchesAreSameName ==
  ASSUME TypeOK, ExactNames, NEW a \in Adverts
  PROVE  Matches(a) = {i \in DOMAIN pbMsgs : NameOf[pbMsgs[i]] = NameOf[a]}
<1>1. \A i \in DOMAIN pbMsgs : pbMsgs[i] \in Adverts
  BY ElementFacts DEF TypeOK
<1>. QED
  BY <1>1 DEF ExactNames, Matches

LEMMA OneEntryStep ==
  ASSUME TypeOK, ExactNames, OneEntryPerDevice, [Next]_vars
  PROVE  OneEntryPerDevice'
<1>1. CASE SaveOver
  <2>1. PICK i \in Matches(hand) : pbMsgs' = [pbMsgs EXCEPT ![i] = hand]
    BY <1>1 DEF SaveOver
  <2>2. /\ hand \in Adverts
        /\ i \in DOMAIN pbMsgs
        /\ NameOf[pbMsgs[i]] = NameOf[hand]
    BY <1>1, <2>1, MatchesAreSameName DEF SaveOver
  <2>3. /\ DOMAIN pbMsgs' = DOMAIN pbMsgs
        /\ pbMsgs'[i] = hand
        /\ \A j \in DOMAIN pbMsgs : j # i => pbMsgs'[j] = pbMsgs[j]
    BY <2>1, <2>2, OverwriteFacts DEF TypeOK
  <2>. QED
    BY <2>2, <2>3 DEF OneEntryPerDevice
<1>2. CASE SaveNew
  <2>1. /\ hand \in Adverts
        /\ pbMsgs' = Append(pbMsgs, hand)
        /\ \A i \in DOMAIN pbMsgs : NameOf[pbMsgs[i]] # NameOf[hand]
    BY <1>2, MatchesAreSameName DEF SaveNew
  <2>2. /\ DOMAIN pbMsgs = 1 .. Len(pbMsgs)
        /\ DOMAIN pbMsgs' = 1 .. Len(pbMsgs) + 1
        /\ Len(pbMsgs) \in Nat
        /\ \A i \in 1 .. Len(pbMsgs) : pbMsgs'[i] = pbMsgs[i]
        /\ pbMsgs'[Len(pbMsgs) + 1] = hand
    BY <2>1, AppendFacts DEF TypeOK
  <2>. QED
    BY <2>1, <2>2 DEF OneEntryPerDevice
<1>3. CASE clearPbMsgs
  BY <1>3 DEF clearPbMsgs, OneEntryPerDevice
<1>4. CASE UNCHANGED pbMsgs
  BY <1>4 DEF OneEntryPerDevice
<1>. QED
  BY <1>1, <1>2, <1>3, <1>4
     DEF Next, addDeviceReplyHandler, Arrive, ReadFromUDP, savePbMsg, SkipDatagram, Wake, getDevicesHandler,
         Request, Marshal, Write, Pause, Resume, vars

\* Whatever the devices, the cleaner and the readers do, no device has two
\* entries in pbMsgs, if no name occurs in another device's advertisement
\* (savePbMsg).
THEOREM DevicesListedOnce ==
  ASSUME ExactNames
  PROVE  Spec => []OneEntryPerDevice
<1>1. Init => OneEntryPerDevice
  BY DEF Init, OneEntryPerDevice
<1>2. TypeOK /\ OneEntryPerDevice /\ [Next]_vars => OneEntryPerDevice'
  BY OneEntryStep
<1>. QED
  BY <1>1, <1>2, TypeCorrect, PTL DEF Spec

-----------------------------------------------------------------------------
(* The table of pbMsgs is the table promised.                              *)

LEMMA TableStep ==
  ASSUME TypeOK, ExactNames, OneEntryPerDevice, [Next]_vars
  PROVE  [Table!Next]_<<Listed, view>>
<1>1. CASE SaveOver
  <2>1. PICK i \in Matches(hand) : pbMsgs' = [pbMsgs EXCEPT ![i] = hand]
    BY <1>1 DEF SaveOver
  <2>2. /\ hand \in Adverts
        /\ i \in DOMAIN pbMsgs
        /\ NameOf[pbMsgs[i]] = NameOf[hand]
        /\ view' = view
    BY <1>1, <2>1, MatchesAreSameName DEF SaveOver
  <2>3. /\ DOMAIN pbMsgs' = DOMAIN pbMsgs
        /\ pbMsgs'[i] = hand
        /\ \A j \in DOMAIN pbMsgs : j # i => pbMsgs'[j] = pbMsgs[j]
    BY <2>1, <2>2, OverwriteFacts DEF TypeOK
  <2>4. \A j \in DOMAIN pbMsgs : j # i <=> NameOf[pbMsgs[j]] # NameOf[hand]
    BY <2>2 DEF OneEntryPerDevice
  <2>5. Listed' = {b \in Listed : NameOf[b] # NameOf[hand]} \cup {hand}
    BY <2>2, <2>3, <2>4 DEF Listed
  <2>. QED
    BY <2>2, <2>5 DEF Table!Next, Table!Learn
<1>2. CASE SaveNew
  <2>1. /\ hand \in Adverts
        /\ pbMsgs' = Append(pbMsgs, hand)
        /\ \A i \in DOMAIN pbMsgs : NameOf[pbMsgs[i]] # NameOf[hand]
        /\ view' = view
    BY <1>2, MatchesAreSameName DEF SaveNew
  <2>2. /\ DOMAIN pbMsgs = 1 .. Len(pbMsgs)
        /\ DOMAIN pbMsgs' = 1 .. Len(pbMsgs) + 1
        /\ Len(pbMsgs) \in Nat
        /\ \A i \in 1 .. Len(pbMsgs) : pbMsgs'[i] = pbMsgs[i]
        /\ pbMsgs'[Len(pbMsgs) + 1] = hand
    BY <2>1, AppendFacts DEF TypeOK
  <2>3. DOMAIN pbMsgs' = DOMAIN pbMsgs \cup {Len(pbMsgs) + 1}
    BY <2>2
  <2>4. Listed' = Listed \cup {hand}
    BY <2>2, <2>3 DEF Listed
  <2>5. Listed' = {b \in Listed : NameOf[b] # NameOf[hand]} \cup {hand}
    BY <2>1, <2>4 DEF Listed
  <2>. QED
    BY <2>1, <2>5 DEF Table!Next, Table!Learn
<1>3. CASE clearPbMsgs
  BY <1>3 DEF clearPbMsgs, Listed, Table!Next, Table!Forget
<1>4. ASSUME NEW r \in Readers, Marshal(r) PROVE Table!Answer(r)
  BY <1>4 DEF Marshal, Listed, Table!Answer
<1>5. ASSUME NEW r \in Readers, Write(r) PROVE Table!Done(r)
  BY <1>5 DEF Write, Listed, Table!Done
<1>6. CASE UNCHANGED <<pbMsgs, view>>
  BY <1>6 DEF Listed
<1>. QED
  BY <1>1, <1>2, <1>3, <1>4, <1>5, <1>6
     DEF Next, addDeviceReplyHandler, Arrive, ReadFromUDP, savePbMsg, SkipDatagram, Wake, getDevicesHandler,
         Request, Pause, Resume, vars, Table!Next

\* If no name occurs in another device's advertisement, pbMsgs is the table of
\* the newest advertisement of every device heard since it was last emptied, and
\* every request is answered with that table as of one instant (savePbMsg,
\* clearPbMsgs, getDevicesHandler).
THEOREM DiscoveryImplementsTable ==
  ASSUME ExactNames
  PROVE  Spec => ImplementsTable
<1>1. Init => Table!Init
  BY DEF Init, Listed, Table!Init
<1>2. TypeOK /\ OneEntryPerDevice /\ [Next]_vars => [Table!Next]_<<Listed, view>>
  BY TableStep
<1>. QED
  BY <1>1, <1>2, TypeCorrect, DevicesListedOnce, PTL
     DEF Spec, ImplementsTable, Table!TableSpec

-----------------------------------------------------------------------------
(* The table cannot grow beyond the devices there are.                     *)

\* However long the cleaner sleeps and whatever is advertised meanwhile, pbMsgs is no longer
\* than there are devices (savePbMsg).
THEOREM TableIsBounded ==
  ASSUME ExactNames, IsFiniteSet(Names)
  PROVE  Spec => [](Len(pbMsgs) <= Cardinality(Names))
<1>1. ASSUME TypeOK, OneEntryPerDevice PROVE Len(pbMsgs) <= Cardinality(Names)
  <2>1. /\ Len(pbMsgs) \in Nat /\ DOMAIN pbMsgs = 1 .. Len(pbMsgs)
        /\ \A i \in DOMAIN pbMsgs : pbMsgs[i] \in Adverts
    BY <1>1, AppendFacts, ElementFacts DEF TypeOK
  <2>. DEFINE S == 1 .. Len(pbMsgs)
              f == [i \in S |-> NameOf[pbMsgs[i]]]
  <2>2. f \in [S -> Names]
    BY <2>1, DiscoveryAssumption
  <2>3. \A i, j \in S : i # j => f[i] # f[j]
    BY <1>1, <2>1 DEF OneEntryPerDevice
  <2>4. IsFiniteSet(S) /\ Cardinality(S) = Len(pbMsgs)
    BY <2>1, FS_Interval
  <2>. HIDE DEF S, f
  <2>5. Cardinality(Names) \in Nat
    BY FS_CardinalityType
  <2>6. ~(Cardinality(Names) < Cardinality(S))
    BY <2>2, <2>3, <2>4, FS_PigeonHole
  <2>. QED
    BY <2>1, <2>4, <2>5, <2>6
<1>. QED
  BY <1>1, TypeCorrect, DevicesListedOnce, PTL

-----------------------------------------------------------------------------
(* What is behind AdvertListed: with a datagram in hand, whatever it is and    *)
(* whatever is in the table, the listener waits for nothing but the mutex.    *)

LEMMA LeastOf ==
  ASSUME NEW T, T \subseteq Nat, T # {}
  PROVE  \E i \in T : \A j \in T : i <= j
<1>. DEFINE R == {ss \in Nat \X Nat : ss[1] < ss[2]}
<1>1. IsWellFoundedOn(R, Nat)
  BY NatLessThanWellFounded DEF OpToRel
<1>2. \A x, y \in Nat : <<y, x>> \in R <=> y < x
  OBVIOUS
<1>. HIDE DEF R
<1>3. \E x \in T : \A y \in T : ~(<<y, x>> \in R)
  BY <1>1, WFMin
<1>4. \A x, y \in Nat : ~(y < x) => x <= y
  OBVIOUS
<1>. QED
  BY <1>2, <1>3, <1>4

\* savePbMsg can go on.
CanSave ==
  /\ holder = Nobody
  /\ \/ hand \in Ignored \cup Replies
     \/ hand \in Adverts /\ Matches(hand) = {}
     \/ hand \in Adverts /\ \E i \in Matches(hand) : \A j \in Matches(hand) : i <= j

ListenerWaits ==
  /\ hand # Nobody => CanSave \/ holder \in Readers
  /\ holder # Nobody => holder \in asking

\* The listener with a datagram in hand can deal with it at once, unless a request that is
\* still being answered holds the mutex: it is never stuck on a table it cannot update, and
\* no request that is over keeps the mutex (savePbMsg, getDevicesHandler).
THEOREM ListenerWaitsForReaders == Spec => []ListenerWaits
<1>1. ASSUME TypeOK PROVE ListenerWaits
  <2>1. DOMAIN pbMsgs = 1 .. Len(pbMsgs) /\ Len(pbMsgs) \in Nat
    BY <1>1, AppendFacts, ElementFacts DEF TypeOK
  <2>2. \A a \in Adverts : Matches(a) \subseteq Nat
    BY <2>1 DEF Matches
  <2>3. hand \in Adverts => CanSave \/ holder # Nobody
    BY <2>2, LeastOf DEF CanSave
  <2>. QED
    BY <1>1, <2>3 DEF TypeOK, Datagrams, CanSave, ListenerWaits
<1>. QED
  BY <1>1, TypeCorrect, PTL
=============================================================================
