---------------------------- MODULE RelayProofs ----------------------------
(***************************************************************************)
(* Proofs about MessageRelay, for all values of its constants.             *)
(***************************************************************************)
EXTENDS MessageRelay, SequenceTheorems, TLAPS

-----------------------------------------------------------------------------
(* Type correctness.                                                       *)

LEMMA AppendFacts ==
  ASSUME NEW S, NEW q \in Seq(S), NEW e \in S
  PROVE  /\ Append(q, e) \in Seq(S)
         /\ Len(Append(q, e)) = Len(q) + 1
         /\ DOMAIN Append(q, e) = 1 .. Len(q) + 1
         /\ \A i \in 1 .. Len(q) : Append(q, e)[i] = q[i]
         /\ Append(q, e)[Len(q) + 1] = e
         /\ DOMAIN q = 1 .. Len(q)
         /\ Len(q) \in Nat
  OBVIOUS

LEMMA ElementFacts ==
  ASSUME NEW S, NEW q \in Seq(S)
  PROVE  /\ Len(q) \in Nat
         /\ DOMAIN q = 1 .. Len(q)
         /\ \A i \in DOMAIN q : q[i] \in S
  OBVIOUS

LEMMA MessageFacts ==
  ASSUME TypeOK, NEW m \in Msgs
  PROVE  /\ m \in 1 .. MaxMsgs
         /\ m \in 1 .. Len(log)
         /\ Len(log) \in Nat
         /\ log[m].key \in Keys
         /\ log[m].sub \in Subscribers
         /\ log[m].at \in Nat
         /\ log[m].at <= now
<1>. DEFINE Rec == [key : Keys, sub : Subscribers, at : Nat]
<1>1. log \in Seq(Rec)
  BY DEF TypeOK
<1>2. log[m] \in Rec /\ DOMAIN log = 1 .. Len(log) /\ Len(log) \in Nat
  <2>. HIDE DEF Rec
  <2>. QED
    BY <1>1, ElementFacts DEF Msgs
<1>. QED
  BY <1>2, RelayAssumption DEF TypeOK, Msgs

LEMMA DeliverFacts ==
  ASSUME TypeOK, NEW s \in Subscribers, NEW k \in Keys, Deliver(s, k)
  PROVE  /\ log' \in Seq([key : Keys, sub : Subscribers, at : Nat])
         /\ Len(log') = Len(log) + 1
         /\ Msgs' = 1 .. Len(log) + 1
         /\ Msgs = 1 .. Len(log)
         /\ \A m \in Msgs : log'[m] = log[m]
         /\ log'[Len(log) + 1] = [key |-> k, sub |-> s, at |-> now]
         /\ Len(log) \in Nat
<1>. DEFINE r == [key |-> k, sub |-> s, at |-> now]
            Rec == [key : Keys, sub : Subscribers, at : Nat]
<1>1. r \in Rec
  BY DEF TypeOK
<1>2. log' = Append(log, r) /\ log \in Seq(Rec)
  BY DEF Deliver, TypeOK
<1>. HIDE DEF r, Rec
<1>3. /\ log' \in Seq(Rec)
      /\ Len(log') = Len(log) + 1
      /\ Msgs' = 1 .. Len(log) + 1
      /\ Msgs = 1 .. Len(log)
      /\ \A m \in Msgs : log'[m] = log[m]
      /\ log'[Len(log) + 1] = r
      /\ Len(log) \in Nat
  BY <1>1, <1>2, AppendFacts DEF Msgs
<1>. QED
  BY <1>3 DEF r, Rec

\* The log only grows.
LEMMA LogKept ==
  ASSUME TypeOK, [Next]_vars, NEW m \in Msgs
  PROVE  m \in Msgs' /\ log'[m] = log[m]
<1>1. ASSUME NEW s \in Subscribers, NEW k \in Keys, Deliver(s, k)
      PROVE  m \in Msgs' /\ log'[m] = log[m]
  <2>1. /\ Msgs' = 1 .. Len(log) + 1
        /\ Msgs = 1 .. Len(log)
        /\ \A i \in Msgs : log'[i] = log[i]
        /\ Len(log) \in Nat
    BY <1>1, DeliverFacts
  <2>. QED
    BY <2>1
<1>2. CASE UNCHANGED log
  BY <1>2 DEF Msgs
<1>. QED
  BY <1>1, <1>2 DEF Next, Callback, ReadHistory, Suppress, Admit, RecordHistory,
                    SendBroadcast, SendDbUpdate, HandleBroadcast, HandleDBUpdate, DBFatal,
                    FatalElsewhere, Tick, Rest, handlerVars, vars

LEMMA TypeStep == TypeOK /\ [Next]_vars => TypeOK'
<1>. USE RelayAssumption DEF Msgs, Key
<1>. SUFFICES ASSUME TypeOK, [Next]_vars PROVE TypeOK'
  OBVIOUS
<1>. USE DEF TypeOK
<1>1. ASSUME NEW s \in Subscribers, NEW k \in Keys, Deliver(s, k) PROVE TypeOK'
  <2>1. /\ log' \in Seq([key : Keys, sub : Subscribers, at : Nat])
        /\ Len(log') = Len(log) + 1
        /\ Msgs' = 1 .. Len(log) + 1
        /\ Msgs = 1 .. Len(log)
        /\ \A m \in Msgs : log'[m] = log[m]
        /\ log'[Len(log) + 1] = [key |-> k, sub |-> s, at |-> now]
        /\ Len(log) \in Nat
    BY <1>1, DeliverFacts
  <2>2. \A m \in Msgs' : log'[m].at <= now'
    BY <1>1, <2>1 DEF Deliver
  <2>3. /\ cur' \in [Subscribers -> Nat]
        /\ \A t \in Subscribers : IF pc'[t] = "idle" THEN cur'[t] = 0 ELSE cur'[t] \in Msgs'
    BY <1>1, <2>1 DEF Deliver
  <2>4. /\ IF chan' = "select" THEN inHand' = 0 ELSE inHand' \in Msgs'
        /\ announced' \subseteq Msgs'
        /\ applied' \subseteq Msgs'
    BY <1>1, <2>1 DEF Deliver, dispatchVars
  <2>5. pc' \in [Subscribers -> {"idle", "lookup", "decide", "record", "cast", "db"}]
    BY <1>1 DEF Deliver
  <2>6. /\ log' \in Seq([key : Keys, sub : Subscribers, at : Nat])
        /\ Len(log') <= MaxMsgs
    BY <1>1, <2>1 DEF Deliver
  <2>7. /\ now' \in Nat
        /\ alive' \in BOOLEAN
        /\ history' \in [Keys -> (0 .. now') \cup {NoStamp}]
        /\ seen' \in [Subscribers -> (0 .. now') \cup {NoStamp}]
        /\ chan' \in {"select", "cast", "db"}
        /\ stamp' \in [1 .. MaxMsgs -> (0 .. now') \cup {NoStamp}]
    BY <1>1 DEF Deliver, dispatchVars
  <2>. QED
    BY <2>2, <2>3, <2>4, <2>5, <2>6, <2>7
<1>2. ASSUME NEW s \in Subscribers, ReadHistory(s) PROVE TypeOK'
  <2>1. seen' \in [Subscribers -> (0 .. now') \cup {NoStamp}]
    <3>1. history[Key(cur[s])] \in (0 .. now) \cup {NoStamp}
      BY <1>2, MessageFacts DEF ReadHistory
    <3>. QED
      BY <1>2, <3>1 DEF ReadHistory
  <2>2. /\ pc' \in [Subscribers -> {"idle", "lookup", "decide", "record", "cast", "db"}]
        /\ \A t \in Subscribers : IF pc'[t] = "idle" THEN cur'[t] = 0 ELSE cur'[t] \in Msgs'
    BY <1>2 DEF ReadHistory
  <2>. QED
    BY <1>2, <2>1, <2>2 DEF ReadHistory, dispatchVars
<1>3. ASSUME NEW s \in Subscribers, Suppress(s) PROVE TypeOK'
  BY <1>3 DEF Suppress, dispatchVars
<1>4. ASSUME NEW s \in Subscribers, Admit(s) PROVE TypeOK'
  BY <1>4 DEF Admit, dispatchVars
<1>5. ASSUME NEW s \in Subscribers, RecordHistory(s) PROVE TypeOK'
  <2>1. history' \in [Keys -> (0 .. now') \cup {NoStamp}]
    BY <1>5, MessageFacts DEF RecordHistory
  <2>2. stamp' \in [1 .. MaxMsgs -> (0 .. now') \cup {NoStamp}]
    BY <1>5 DEF RecordHistory
  <2>3. /\ pc' \in [Subscribers -> {"idle", "lookup", "decide", "record", "cast", "db"}]
        /\ \A t \in Subscribers : IF pc'[t] = "idle" THEN cur'[t] = 0 ELSE cur'[t] \in Msgs'
    BY <1>5 DEF RecordHistory
  <2>. QED
    BY <1>5, <2>1, <2>2, <2>3 DEF RecordHistory, dispatchVars
<1>6. ASSUME NEW s \in Subscribers, SendBroadcast(s) PROVE TypeOK'
  BY <1>6 DEF SendBroadcast, dispatchVars
<1>7. ASSUME NEW s \in Subscribers, SendDbUpdate(s) PROVE TypeOK'
  BY <1>7 DEF SendDbUpdate, dispatchVars
<1>8. CASE HandleBroadcast
  BY <1>8 DEF HandleBroadcast, handlerVars
<1>9. CASE HandleDBUpdate
  BY <1>9 DEF HandleDBUpdate, handlerVars
<1>10. CASE DBFatal \/ FatalElsewhere
  BY <1>10 DEF DBFatal, FatalElsewhere, handlerVars, dispatchVars
<1>11. CASE Tick
  <2>1. 0 .. now \subseteq 0 .. now'
    BY <1>11 DEF Tick
  <2>2. /\ history' \in [Keys -> (0 .. now') \cup {NoStamp}]
        /\ seen' \in [Subscribers -> (0 .. now') \cup {NoStamp}]
        /\ stamp' \in [1 .. MaxMsgs -> (0 .. now') \cup {NoStamp}]
    BY <1>11, <2>1 DEF Tick, handlerVars
  <2>3. \A m \in Msgs' : log'[m].at <= now'
    BY <1>11, MessageFacts DEF Tick, handlerVars
  <2>. QED
    BY <1>11, <2>2, <2>3 DEF Tick, handlerVars, dispatchVars
<1>12. CASE UNCHANGED vars
  BY <1>12 DEF vars
<1>. QED
  BY <1>1, <1>2, <1>3, <1>4, <1>5, <1>6, <1>7, <1>8, <1>9, <1>10, <1>11, <1>12
     DEF Next, Callback, Rest

\* Every step keeps every variable in its type: a time in a history or a log is
\* never later than the clock, and a goroutine that holds a message holds one
\* that was delivered (messagePubHandler, handleMessages).
THEOREM TypeCorrect == Spec => []TypeOK
<1>1. Init => TypeOK
  BY RelayAssumption DEF Init, TypeOK, Msgs
<1>. QED
  BY <1>1, TypeStep, PTL DEF Spec

-----------------------------------------------------------------------------
(* Whose message is whose: a callback holds the last message of its         *)
(* subscriber, and messages still to come carry no time stamp.             *)

Ownership ==
  /\ \A m \in Msgs : log[m].sub \in Route[Key(m)]
  /\ \A s \in Subscribers : pc[s] # "idle" => log[cur[s]].sub = s
  /\ \A s \in Subscribers, m \in Msgs :
       pc[s] # "idle" /\ log[m].sub = s => m <= cur[s]
  /\ \A i \in 1 .. MaxMsgs : i \notin Msgs => stamp[i] = NoStamp

LEMMA OwnershipStep == TypeOK /\ Ownership /\ [Next]_vars => Ownership'
<1>. SUFFICES ASSUME TypeOK, Ownership, [Next]_vars PROVE Ownership'
  OBVIOUS
<1>. USE DEF Ownership
<1>0. /\ pc \in [Subscribers -> {"idle", "lookup", "decide", "record", "cast", "db"}]
      /\ cur \in [Subscribers -> Nat]
      /\ \A s \in Subscribers : pc[s] # "idle" => cur[s] \in Msgs
      /\ stamp \in [1 .. MaxMsgs -> (0 .. now) \cup {NoStamp}]
  BY DEF TypeOK
<1>1. ASSUME NEW s \in Subscribers, NEW k \in Keys, Deliver(s, k) PROVE Ownership'
  <2>1. /\ Msgs' = 1 .. Len(log) + 1
        /\ Msgs = 1 .. Len(log)
        /\ \A m \in Msgs : log'[m] = log[m]
        /\ log'[Len(log) + 1] = [key |-> k, sub |-> s, at |-> now]
        /\ Len(log) \in Nat
    BY <1>1, DeliverFacts
  <2>2. \A m \in Msgs' : log'[m].sub \in Route[log'[m].key]
    BY <1>1, <2>1 DEF Deliver, Key
  <2>3. \A t \in Subscribers : pc'[t] # "idle" => log'[cur'[t]].sub = t
    BY <1>0, <1>1, <2>1 DEF Deliver
  <2>4. \A t \in Subscribers, m \in Msgs' :
          pc'[t] # "idle" /\ log'[m].sub = t => m <= cur'[t]
    BY <1>0, <1>1, <2>1 DEF Deliver
  <2>5. \A i \in 1 .. MaxMsgs : i \notin Msgs' => stamp'[i] = NoStamp
    BY <1>1, <2>1 DEF Deliver
  <2>. QED
    BY <2>2, <2>3, <2>4, <2>5 DEF Key
<1>2. ASSUME NEW s \in Subscribers, ReadHistory(s) PROVE Ownership'
  BY <1>0, <1>2 DEF ReadHistory, Msgs, Key
<1>3. ASSUME NEW s \in Subscribers, Suppress(s) PROVE Ownership'
  BY <1>0, <1>3 DEF Suppress, Msgs, Key
<1>4. ASSUME NEW s \in Subscribers, Admit(s) PROVE Ownership'
  BY <1>0, <1>4 DEF Admit, Msgs, Key
<1>5. ASSUME NEW s \in Subscribers, RecordHistory(s) PROVE Ownership'
  BY <1>0, <1>5 DEF RecordHistory, Msgs, Key
<1>6. ASSUME NEW s \in Subscribers, SendBroadcast(s) PROVE Ownership'
  BY <1>0, <1>6 DEF SendBroadcast, Msgs, Key
<1>7. ASSUME NEW s \in Subscribers, SendDbUpdate(s) PROVE Ownership'
  BY <1>0, <1>7 DEF SendDbUpdate, Msgs, Key
<1>8. CASE HandleBroadcast \/ HandleDBUpdate \/ DBFatal \/ FatalElsewhere \/ Tick
  BY <1>8 DEF HandleBroadcast, HandleDBUpdate, DBFatal, FatalElsewhere, Tick, handlerVars, Msgs, Key
<1>9. CASE UNCHANGED vars
  BY <1>9 DEF vars, Msgs, Key
<1>. QED
  BY <1>1, <1>2, <1>3, <1>4, <1>5, <1>6, <1>7, <1>8, <1>9 DEF Next, Callback, Rest

LEMMA OwnershipHolds == Spec => []Ownership
<1>1. Init => Ownership
  BY DEF Init, Ownership, Msgs
<1>. QED
  BY <1>1, TypeCorrect, OwnershipStep, PTL DEF Spec

-----------------------------------------------------------------------------
(* The window.  The recording of a message relies on what its callback      *)
(* read before it, under another lock.  With one subscriber per key the     *)
(* time stamp read is still the history's, which bounds every earlier one;  *)
(* the clock only moves away from it.                                       *)

HistoryLatest ==
  \A m \in Msgs :
    stamp[m] # NoStamp =>
      history[Key(m)] # NoStamp /\ stamp[m] <= history[Key(m)]

LookupCurrent ==
  \A s \in Subscribers :
    pc[s] \in {"decide", "record"} => seen[s] = history[Key(cur[s])]

AdmittedLate ==
  \A s \in Subscribers :
    pc[s] = "record" => seen[s] = NoStamp \/ seen[s] + Window <= now

Spacing == HistoryLatest /\ LookupCurrent /\ AdmittedLate /\ BroadcastsSpaced

LEMMA SpacingStep ==
  ASSUME ExclusiveRoute, TypeOK, Ownership, Spacing, [Next]_vars
  PROVE  Spacing'
<1>. USE RelayAssumption DEF Spacing
<1>0. /\ pc \in [Subscribers -> {"idle", "lookup", "decide", "record", "cast", "db"}]
      /\ cur \in [Subscribers -> Nat]
      /\ seen \in [Subscribers -> (0 .. now) \cup {NoStamp}]
      /\ history \in [Keys -> (0 .. now) \cup {NoStamp}]
      /\ \A s \in Subscribers : pc[s] # "idle" => cur[s] \in Msgs
      /\ stamp \in [1 .. MaxMsgs -> (0 .. now) \cup {NoStamp}]
      /\ now \in Nat
  BY DEF TypeOK
<1>m. \A m \in Msgs : Key(m) \in Keys /\ m \in 1 .. MaxMsgs
  BY MessageFacts DEF Key
<1>1. ASSUME NEW s \in Subscribers, NEW k \in Keys, Deliver(s, k) PROVE Spacing'
  <2>1. /\ Msgs' = 1 .. Len(log) + 1
        /\ Msgs = 1 .. Len(log)
        /\ \A m \in Msgs : log'[m] = log[m]
        /\ Len(log) \in Nat
    BY <1>1, DeliverFacts
  <2>2. stamp[Len(log) + 1] = NoStamp
    <3>1. Len(log) + 1 \in 1 .. MaxMsgs
      BY <1>1, <2>1 DEF Deliver
    <3>. QED
      BY <2>1, <3>1 DEF Ownership
  <2>3. /\ stamp' = stamp
        /\ history' = history
        /\ seen' = seen
        /\ now' = now
        /\ \A m \in Msgs : Key(m)' = Key(m)
    BY <1>1, <2>1 DEF Deliver, Key
  <2>4. HistoryLatest'
    BY <2>1, <2>2, <2>3 DEF HistoryLatest
  <2>5. LookupCurrent' /\ AdmittedLate'
    <3>1. \A t \in Subscribers : pc'[t] \in {"decide", "record"} =>
            pc[t] = pc'[t] /\ cur'[t] = cur[t] /\ cur[t] \in Msgs
      BY <1>0, <1>1 DEF Deliver
    <3>. QED
      BY <2>3, <3>1 DEF LookupCurrent, AdmittedLate
  <2>6. BroadcastsSpaced'
    BY <2>1, <2>2, <2>3 DEF BroadcastsSpaced, Stamped
  <2>. QED
    BY <2>4, <2>5, <2>6
<1>2. ASSUME NEW s \in Subscribers, ReadHistory(s) PROVE Spacing'
  <2>1. HistoryLatest' /\ BroadcastsSpaced'
    BY <1>2 DEF ReadHistory, HistoryLatest, BroadcastsSpaced, Stamped, Msgs, Key
  <2>2. LookupCurrent' /\ AdmittedLate'
    BY <1>0, <1>2 DEF ReadHistory, LookupCurrent, AdmittedLate, Key
  <2>. QED
    BY <2>1, <2>2
<1>3. ASSUME NEW s \in Subscribers, Suppress(s) \/ Admit(s) PROVE Spacing'
  <2>1. HistoryLatest' /\ BroadcastsSpaced'
    BY <1>3 DEF Suppress, Admit, HistoryLatest, BroadcastsSpaced, Stamped, Msgs, Key
  <2>2. LookupCurrent'
    BY <1>0, <1>3 DEF Suppress, Admit, LookupCurrent, Key
  <2>3. AdmittedLate'
    BY <1>0, <1>3 DEF Suppress, Admit, AdmittedLate, Recent
  <2>. QED
    BY <2>1, <2>2, <2>3
<1>4. ASSUME NEW s \in Subscribers, RecordHistory(s) PROVE Spacing'
  <2>. DEFINE c == cur[s]
  <2>1. /\ c \in Msgs /\ Key(c) \in Keys /\ c \in 1 .. MaxMsgs
        /\ Msgs' = Msgs /\ log' = log /\ now' = now /\ seen' = seen /\ cur' = cur
        /\ history' = [history EXCEPT ![Key(c)] = now]
        /\ stamp' = [stamp EXCEPT ![c] = now]
        /\ pc' = [pc EXCEPT ![s] = "cast"]
    BY <1>0, <1>m, <1>4 DEF RecordHistory, Msgs
  <2>2. \A m \in Msgs : stamp[m] # NoStamp => stamp[m] \in Nat /\ stamp[m] <= now
    BY <1>0, <1>m
  <2>3. HistoryLatest'
    BY <1>0, <1>m, <2>1, <2>2 DEF HistoryLatest, Key
  <2>4. LookupCurrent'
    <3>1. ASSUME NEW t \in Subscribers, pc'[t] \in {"decide", "record"}
          PROVE  pc[t] = pc'[t] /\ t # s /\ cur[t] \in Msgs
      BY <1>0, <2>1, <3>1
    <3>2. ASSUME NEW t \in Subscribers, pc'[t] \in {"decide", "record"}
          PROVE  Key(cur[t]) # Key(c)
      <4>1. t \in Route[Key(cur[t])] /\ s \in Route[Key(c)]
        BY <1>4, <2>1, <3>1, <3>2 DEF Ownership, RecordHistory
      <4>. QED
        BY <1>m, <2>1, <3>1, <3>2, <4>1 DEF ExclusiveRoute
    <3>. QED
      BY <1>0, <1>m, <2>1, <3>1, <3>2 DEF LookupCurrent, Key
  <2>5. AdmittedLate'
    BY <1>0, <2>1 DEF AdmittedLate
  <2>6. BroadcastsSpaced'
    <3>1. SUFFICES ASSUME NEW m1 \in Msgs, NEW m2 \in Msgs, m1 < m2, Key(m1) = Key(m2),
                          stamp'[m1] # NoStamp, stamp'[m2] # NoStamp
                   PROVE  stamp'[m1] + Window <= stamp'[m2]
      BY <2>1 DEF BroadcastsSpaced, Stamped, Key
    <3>2. CASE m1 # c /\ m2 # c
      BY <1>0, <1>m, <2>1, <3>1, <3>2 DEF BroadcastsSpaced, Stamped
    <3>3. CASE m2 = c
      <4>1. stamp'[m1] = stamp[m1] /\ stamp'[m2] = now
        BY <1>0, <1>m, <2>1, <3>1, <3>3
      <4>2. stamp[m1] <= seen[s] /\ seen[s] # NoStamp
        BY <1>4, <2>1, <3>1, <3>3, <4>1 DEF HistoryLatest, LookupCurrent, RecordHistory
      <4>3. seen[s] + Window <= now
        BY <1>4, <4>2 DEF AdmittedLate, RecordHistory
      <4>. QED
        BY <1>0, <2>2, <3>1, <4>1, <4>2, <4>3
    <3>4. CASE m1 = c
      <4>1. log[c].sub = s /\ s \in Route[Key(c)] /\ log[m2].sub \in Route[Key(c)]
        BY <1>4, <2>1, <3>1, <3>4 DEF Ownership, RecordHistory
      <4>2. m2 <= c
        BY <1>4, <2>1, <4>1 DEF Ownership, ExclusiveRoute, RecordHistory
      <4>. QED
        BY <1>m, <3>1, <3>4, <4>2
    <3>. QED
      BY <3>2, <3>3, <3>4
  <2>. QED
    BY <2>3, <2>4, <2>5, <2>6
<1>5. ASSUME NEW s \in Subscribers, SendBroadcast(s) \/ SendDbUpdate(s) PROVE Spacing'
  <2>1. HistoryLatest' /\ BroadcastsSpaced'
    BY <1>5 DEF SendBroadcast, SendDbUpdate, HistoryLatest, BroadcastsSpaced, Stamped, Msgs, Key
  <2>2. LookupCurrent' /\ AdmittedLate'
    BY <1>0, <1>5 DEF SendBroadcast, SendDbUpdate, LookupCurrent, AdmittedLate, Key
  <2>. QED
    BY <2>1, <2>2
<1>6. CASE Tick
  <2>1. HistoryLatest' /\ BroadcastsSpaced' /\ LookupCurrent'
    BY <1>6 DEF Tick, handlerVars, HistoryLatest, BroadcastsSpaced, Stamped,
                LookupCurrent, Msgs, Key
  <2>2. AdmittedLate'
    BY <1>0, <1>6 DEF Tick, handlerVars, AdmittedLate
  <2>. QED
    BY <2>1, <2>2
<1>7. CASE HandleBroadcast \/ HandleDBUpdate \/ DBFatal \/ FatalElsewhere \/ UNCHANGED vars
  BY <1>7 DEF HandleBroadcast, HandleDBUpdate, DBFatal, FatalElsewhere, vars, handlerVars, HistoryLatest,
              BroadcastsSpaced, Stamped, LookupCurrent, AdmittedLate, Msgs, Key
<1>. QED
  BY <1>1, <1>2, <1>3, <1>4, <1>5, <1>6, <1>7 DEF Next, Callback, Rest

\* With one subscriber per key, two messages of one topic and payload are never
\* recorded for broadcast less than the window apart (messagePubHandler).
THEOREM BroadcastsAreSpaced ==
  ASSUME ExclusiveRoute
  PROVE  Spec => []BroadcastsSpaced
<1>1. Init => Spacing
  BY DEF Init, Spacing, HistoryLatest, LookupCurrent, AdmittedLate, BroadcastsSpaced,
         Stamped, Msgs
<1>2. TypeOK /\ Ownership /\ Spacing /\ [Next]_vars => Spacing'
  BY SpacingStep
<1>3. Spacing => BroadcastsSpaced
  BY DEF Spacing
<1>. QED
  BY <1>1, <1>2, <1>3, TypeCorrect, OwnershipHolds, PTL DEF Spec

-----------------------------------------------------------------------------
(* The relay keeps its promise.  A message is finished once the database    *)
(* case has it; one that is not finished is in its subscriber's callback,   *)
(* which has no other: so messages of one subscriber take turns.            *)

Finished(m) == m \in applied \/ (chan = "db" /\ inHand = m)

Turns ==
  /\ \A m \in Msgs : ~Finished(m) => pc[log[m].sub] # "idle" /\ cur[log[m].sub] = m
  /\ \A s \in Subscribers : pc[s] # "idle" => ~Finished(cur[s])
  /\ \A s \in Subscribers :
       pc[s] \in {"lookup", "decide", "record", "cast"} => cur[s] \notin announced
  /\ chan = "cast" => /\ inHand \notin announced
                      /\ \E s \in Subscribers : pc[s] = "db" /\ cur[s] = inHand
  /\ chan = "db" => inHand \notin applied

LEMMA TurnsStep ==
  ASSUME TypeOK, Ownership, Turns, [Next]_vars
  PROVE  Turns'
<1>. USE DEF Turns, Finished
<1>0. /\ pc \in [Subscribers -> {"idle", "lookup", "decide", "record", "cast", "db"}]
      /\ cur \in [Subscribers -> Nat]
      /\ \A s \in Subscribers : pc[s] # "idle" => cur[s] \in Msgs /\ log[cur[s]].sub = s
      /\ chan \in {"select", "cast", "db"}
      /\ chan # "select" => inHand \in Msgs
      /\ applied \subseteq Msgs
      /\ announced \subseteq Msgs
      /\ \A m \in Msgs : log[m].sub \in Subscribers
  BY MessageFacts DEF TypeOK, Ownership
<1>1. ASSUME NEW s \in Subscribers, NEW k \in Keys, Deliver(s, k) PROVE Turns'
  <2>1. /\ Msgs' = 1 .. Len(log) + 1
        /\ Msgs = 1 .. Len(log)
        /\ \A m \in Msgs : log'[m] = log[m]
        /\ log'[Len(log) + 1] = [key |-> k, sub |-> s, at |-> now]
        /\ Len(log) \in Nat
    BY <1>1, DeliverFacts
  <2>2. Len(log) + 1 \notin Msgs
    BY <2>1
  <2>3. /\ pc' = [pc EXCEPT ![s] = "lookup"]
        /\ cur' = [cur EXCEPT ![s] = Len(log) + 1]
        /\ pc[s] = "idle"
        /\ chan' = chan /\ inHand' = inHand /\ applied' = applied /\ announced' = announced
    BY <1>1 DEF Deliver, dispatchVars
  <2>4. ASSUME NEW m \in Msgs', ~Finished(m)'
        PROVE  pc'[log'[m].sub] # "idle" /\ cur'[log'[m].sub] = m
    BY <1>0, <2>1, <2>3, <2>4
  <2>5. ASSUME NEW t \in Subscribers, pc'[t] # "idle"
        PROVE  ~Finished(cur[t])'
    BY <1>0, <2>2, <2>3, <2>5
  <2>6. ASSUME NEW t \in Subscribers, pc'[t] \in {"lookup", "decide", "record", "cast"}
        PROVE  cur'[t] \notin announced'
    BY <1>0, <2>2, <2>3, <2>6
  <2>7. chan' = "cast" => /\ inHand' \notin announced'
                         /\ \E t \in Subscribers : pc'[t] = "db" /\ cur'[t] = inHand'
    BY <1>0, <2>3
  <2>. QED
    BY <2>3, <2>4, <2>5, <2>6, <2>7
<1>2. ASSUME NEW s \in Subscribers,
             ReadHistory(s) \/ Suppress(s) \/ Admit(s) \/ RecordHistory(s)
      PROVE  Turns'
  <2>1. /\ log' = log /\ Msgs' = Msgs /\ cur' = cur
        /\ chan' = chan /\ inHand' = inHand /\ applied' = applied /\ announced' = announced
        /\ pc[s] \in {"lookup", "decide", "record"}
        /\ \E p \in {"decide", "record", "cast", "db"} : pc' = [pc EXCEPT ![s] = p]
    BY <1>2 DEF ReadHistory, Suppress, Admit, RecordHistory, dispatchVars, Msgs
  <2>. QED
    BY <1>0, <2>1
<1>3. ASSUME NEW s \in Subscribers, SendBroadcast(s) PROVE Turns'
  BY <1>0, <1>3 DEF SendBroadcast, Msgs
<1>4. ASSUME NEW s \in Subscribers, SendDbUpdate(s) PROVE Turns'
  BY <1>0, <1>4 DEF SendDbUpdate, Msgs
<1>5. CASE HandleBroadcast
  BY <1>0, <1>5 DEF HandleBroadcast, handlerVars, Msgs
<1>6. CASE HandleDBUpdate
  BY <1>0, <1>6 DEF HandleDBUpdate, handlerVars, Msgs
<1>7. CASE DBFatal \/ FatalElsewhere \/ Tick \/ UNCHANGED vars
  BY <1>7 DEF DBFatal, FatalElsewhere, Tick, vars, handlerVars, dispatchVars, Msgs
<1>. QED
  BY <1>1, <1>2, <1>3, <1>4, <1>5, <1>6, <1>7 DEF Next, Callback, Rest

LEMMA TurnsHold == Spec => []Turns
<1>1. Init => Turns
  BY DEF Init, Turns, Finished, Msgs
<1>2. TypeOK /\ Ownership /\ Turns /\ [Next]_vars => Turns'
  BY TurnsStep
<1>. QED
  BY <1>1, <1>2, TypeCorrect, OwnershipHolds, PTL DEF Spec

\* What the promise sees as received.
Received == [m \in Msgs |-> log[m].sub]

LEMMA AppendMapped ==
  ASSUME NEW n \in Nat, NEW S, NEW q \in [1 .. n -> S], NEW e \in S
  PROVE  Append(q, e) = [i \in 1 .. n + 1 |-> IF i = n + 1 THEN e ELSE q[i]]
<1>. DEFINE r == [i \in 1 .. n + 1 |-> IF i = n + 1 THEN e ELSE q[i]]
<1>1. q \in Seq(S) /\ Len(q) = n
  OBVIOUS
<1>2. r \in Seq(S) /\ Len(r) = n + 1
  <2>1. r \in [1 .. n + 1 -> S]
    OBVIOUS
  <2>. QED
    BY <2>1
<1>3. /\ Append(q, e) \in Seq(S)
      /\ Len(Append(q, e)) = n + 1
      /\ \A i \in 1 .. n + 1 : Append(q, e)[i] = r[i]
  BY <1>1, AppendFacts
<1>. QED
  BY <1>2, <1>3, SeqEqual

\* A message in hand is due: every earlier one of its subscriber is applied.
LEMMA InHandIsDue ==
  ASSUME TypeOK, Ownership, Turns, chan # "select"
  PROVE  Promise!Due(inHand)
<1>1. inHand \in Msgs /\ inHand \notin applied
  BY DEF TypeOK, Turns, Finished
<1>2. inHand \in Nat /\ 1 .. inHand - 1 \subseteq Msgs
  BY <1>1, MessageFacts, ElementFacts DEF TypeOK, Msgs
<1>3. ASSUME NEW e \in 1 .. inHand - 1, log[e].sub = log[inHand].sub
      PROVE  e \in applied
  <2>1. e \in Msgs /\ log[e].sub \in Subscribers
    BY <1>2, MessageFacts
  <2>2. CASE ~Finished(e)
    <3>1. pc[log[e].sub] # "idle" /\ cur[log[e].sub] = e
      BY <2>1, <2>2 DEF Turns
    <3>2. inHand <= e
      BY <1>1, <1>3, <2>1, <3>1 DEF Ownership
    <3>. QED
      BY <1>2, <3>2
  <2>3. CASE Finished(e)
    BY <1>2, <2>3 DEF Finished
  <2>. QED
    BY <2>2, <2>3
<1>4. DOMAIN Received = Msgs /\ \A m \in Msgs : Received[m] = log[m].sub
  BY DEF Received
<1>. QED
  BY <1>1, <1>2, <1>3, <1>4 DEF Promise!Due, Received

LEMMA PromiseStep ==
  ASSUME TypeOK, Ownership, Turns, [Next]_vars
  PROVE  [Promise!PromiseNext]_<<Received, announced, applied>>
<1>1. ASSUME NEW s \in Subscribers, NEW k \in Keys, Deliver(s, k)
      PROVE  Promise!Receive(s)
  <2>1. /\ Msgs' = 1 .. Len(log) + 1
        /\ Msgs = 1 .. Len(log)
        /\ \A m \in Msgs : log'[m] = log[m]
        /\ log'[Len(log) + 1] = [key |-> k, sub |-> s, at |-> now]
        /\ Len(log) \in Nat
    BY <1>1, DeliverFacts
  <2>2. Received \in [1 .. Len(log) -> Subscribers]
    BY <2>1, MessageFacts DEF Received
  <2>3. Append(Received, s)
          = [i \in 1 .. Len(log) + 1 |-> IF i = Len(log) + 1 THEN s ELSE Received[i]]
    BY <2>1, <2>2, AppendMapped
  <2>4. Received' = [i \in 1 .. Len(log) + 1 |-> IF i = Len(log) + 1 THEN s ELSE Received[i]]
    BY <2>1 DEF Received
  <2>. QED
    BY <1>1, <2>3, <2>4 DEF Promise!Receive, Received, Deliver, dispatchVars
<1>2. ASSUME log' = log PROVE Received' = Received
  BY <1>2 DEF Received, Msgs
<1>3. ASSUME NEW s \in Subscribers,
             \/ ReadHistory(s) \/ Suppress(s) \/ Admit(s)
             \/ RecordHistory(s) \/ SendBroadcast(s) \/ SendDbUpdate(s)
      PROVE  UNCHANGED <<Received, announced, applied>>
  BY <1>2, <1>3 DEF ReadHistory, Suppress, Admit, RecordHistory, SendBroadcast,
                    SendDbUpdate, dispatchVars
<1>4. CASE HandleBroadcast
  <2>1. Received' = Received /\ applied' = applied
    BY <1>2, <1>4 DEF HandleBroadcast, handlerVars
  <2>2. announced' = announced \/ announced' = announced \cup {inHand}
    BY <1>4 DEF HandleBroadcast
  <2>3. Promise!Due(inHand) /\ inHand \notin announced
    BY <1>4, InHandIsDue DEF HandleBroadcast, Turns
  <2>4. CASE announced' = announced \cup {inHand}
    <3>1. Promise!Announce(inHand)
      BY <2>1, <2>3, <2>4 DEF Promise!Announce, Received
    <3>. QED
      BY <2>3, <3>1 DEF Promise!PromiseNext, Promise!Due
  <2>. QED
    BY <2>1, <2>2, <2>4
<1>5. CASE HandleDBUpdate
  <2>1. Received' = Received /\ announced' = announced /\ applied' = applied \cup {inHand}
    BY <1>2, <1>5 DEF HandleDBUpdate, handlerVars
  <2>2. Promise!Due(inHand)
    BY <1>5, InHandIsDue DEF HandleDBUpdate
  <2>3. Promise!Apply(inHand)
    BY <2>1, <2>2 DEF Promise!Apply, Received
  <2>. QED
    BY <2>2, <2>3 DEF Promise!PromiseNext, Promise!Due
<1>6. CASE DBFatal \/ FatalElsewhere \/ Tick \/ UNCHANGED vars
  BY <1>2, <1>6 DEF DBFatal, FatalElsewhere, Tick, vars, handlerVars, dispatchVars
<1>7. ASSUME NEW s \in Subscribers, Promise!Receive(s)
      PROVE  Promise!PromiseNext
  BY <1>7 DEF Promise!PromiseNext
<1>. QED
  BY <1>1, <1>3, <1>4, <1>5, <1>6, <1>7 DEF Next, Callback, Rest

\* The relay implements RelayPromise: messages of one subscriber are dealt with
\* one after the other, each announced at most once and before it is applied,
\* and applied at most once (messagePubHandler, handleMessages).
THEOREM RelayImplementsPromise == Spec => ImplementsPromise
<1>1. Init => Promise!PromiseInit
  BY DEF Init, Promise!PromiseInit, Msgs
<1>2. TypeOK /\ Ownership /\ Turns /\ [Next]_vars
        => [Promise!PromiseNext]_<<Received, announced, applied>>
  BY PromiseStep
<1>3. TypeOK /\ Ownership /\ Turns /\ [Next]_vars
        => [Promise!PromiseNext]_(Promise!promiseVars)
  BY <1>2 DEF Promise!promiseVars, Received
<1>. QED
  BY <1>1, <1>3, TypeCorrect, OwnershipHolds, TurnsHold, PTL
     DEF Spec, ImplementsPromise, Promise!PromiseSpec

-----------------------------------------------------------------------------
(* Suppression.  Every time stamp in the history, and every one a callback  *)
(* has read, is that of a message recorded for broadcast; a message that is *)
(* not yet recorded is not its own witness.                                *)

Witness(k, t) == \E w \in Msgs : Key(w) = k /\ stamp[w] = t

HistoryWitnessed ==
  \A k \in Keys : history[k] # NoStamp => Witness(k, history[k])

LookupWitnessed ==
  \A s \in Subscribers :
    pc[s] \in {"decide", "record"} /\ seen[s] # NoStamp => Witness(Key(cur[s]), seen[s])

NotYetStamped ==
  \A s \in Subscribers :
    pc[s] \in {"lookup", "decide", "record"} => stamp[cur[s]] = NoStamp

Vouched == HistoryWitnessed /\ LookupWitnessed /\ NotYetStamped /\ SuppressionSound

LEMMA VouchedStep ==
  ASSUME TypeOK, Ownership, Vouched, [Next]_vars
  PROVE  Vouched'
<1>. USE RelayAssumption DEF Vouched
<1>0. /\ pc \in [Subscribers -> {"idle", "lookup", "decide", "record", "cast", "db"}]
      /\ cur \in [Subscribers -> Nat]
      /\ seen \in [Subscribers -> (0 .. now) \cup {NoStamp}]
      /\ history \in [Keys -> (0 .. now) \cup {NoStamp}]
      /\ stamp \in [1 .. MaxMsgs -> (0 .. now) \cup {NoStamp}]
      /\ \A s \in Subscribers : pc[s] = "idle" => cur[s] = 0
      /\ \A s \in Subscribers : pc[s] # "idle" => cur[s] \in Msgs /\ log[cur[s]].sub = s
      /\ now \in Nat
  BY DEF TypeOK, Ownership
<1>m. \A m \in Msgs : /\ Key(m) \in Keys
                      /\ m \in 1 .. MaxMsgs
                      /\ log[m].at \in Nat
                      /\ log[m].at <= now
  BY MessageFacts DEF Key
<1>1. ASSUME NEW s \in Subscribers, NEW k \in Keys, Deliver(s, k) PROVE Vouched'
  <2>1. /\ Msgs' = 1 .. Len(log) + 1
        /\ Msgs = 1 .. Len(log)
        /\ \A m \in Msgs : log'[m] = log[m]
        /\ Len(log) \in Nat
    BY <1>1, DeliverFacts
  <2>2. /\ stamp' = stamp /\ history' = history /\ seen' = seen
        /\ cur' = [cur EXCEPT ![s] = Len(log) + 1]
        /\ pc' = [pc EXCEPT ![s] = "lookup"]
        /\ pc[s] = "idle"
        /\ Len(log) + 1 \in 1 .. MaxMsgs
        /\ Len(log) + 1 \notin Msgs
    BY <1>1, <2>1 DEF Deliver
  <2>3. Msgs \subseteq Msgs' /\ \A m \in Msgs : Key(m)' = Key(m)
    BY <2>1 DEF Key
  <2>4. HistoryWitnessed'
    BY <2>2, <2>3 DEF HistoryWitnessed, Witness
  <2>5. LookupWitnessed'
    <3>1. ASSUME NEW t \in Subscribers, pc'[t] \in {"decide", "record"}
          PROVE  pc[t] = pc'[t] /\ cur'[t] = cur[t] /\ cur[t] \in Msgs
      BY <1>0, <2>2, <3>1
    <3>. QED
      BY <2>2, <2>3, <3>1 DEF LookupWitnessed, Witness, Key
  <2>6. NotYetStamped'
    BY <1>0, <2>2 DEF NotYetStamped, Ownership
  <2>7. SuppressionSound'
    <3>1. SUFFICES ASSUME NEW m \in Msgs', Decided(m)', ~Stamped(m)'
                   PROVE  \E w \in Msgs' \ {m} : /\ Stamped(w)'
                                                 /\ Key(w)' = Key(m)'
                                                 /\ log'[m].at < stamp'[w] + Window
      BY DEF SuppressionSound
    <3>2. m \in Msgs
      BY <1>0, <2>1, <2>2, <3>1 DEF Decided
    <3>3. Decided(m) /\ ~Stamped(m)
      BY <1>0, <1>m, <2>2, <3>1, <3>2 DEF Decided, Stamped
    <3>4. PICK w \in Msgs \ {m} : /\ Stamped(w)
                                  /\ Key(w) = Key(m)
                                  /\ log[m].at < stamp[w] + Window
      BY <3>2, <3>3 DEF SuppressionSound
    <3>. QED
      BY <2>1, <2>2, <2>3, <3>2, <3>4 DEF Stamped
  <2>. QED
    BY <2>4, <2>5, <2>6, <2>7
<1>2. ASSUME NEW s \in Subscribers, ReadHistory(s) PROVE Vouched'
  <2>1. /\ log' = log /\ Msgs' = Msgs /\ stamp' = stamp /\ history' = history /\ cur' = cur
        /\ seen' = [seen EXCEPT ![s] = history[Key(cur[s])]]
        /\ pc' = [pc EXCEPT ![s] = "decide"]
        /\ pc[s] = "lookup"
    BY <1>2 DEF ReadHistory, Msgs
  <2>2. HistoryWitnessed' /\ NotYetStamped'
    BY <1>0, <2>1 DEF HistoryWitnessed, NotYetStamped, Witness, Key
  <2>3. LookupWitnessed'
    <3>1. ASSUME NEW t \in Subscribers, pc'[t] \in {"decide", "record"}, seen'[t] # NoStamp
          PROVE  Witness(Key(cur[t]), seen'[t])
      <4>1. CASE t = s
        BY <1>0, <1>m, <2>1, <3>1, <4>1 DEF HistoryWitnessed
      <4>2. CASE t # s
        BY <1>0, <2>1, <3>1, <4>2 DEF LookupWitnessed
      <4>. QED
        BY <4>1, <4>2
    <3>. QED
      BY <2>1, <3>1 DEF LookupWitnessed, Witness, Key
  <2>4. SuppressionSound'
    BY <1>0, <2>1 DEF SuppressionSound, Decided, Stamped, Key
  <2>. QED
    BY <2>2, <2>3, <2>4
<1>3. ASSUME NEW s \in Subscribers, Suppress(s) PROVE Vouched'
  <2>1. /\ log' = log /\ Msgs' = Msgs /\ stamp' = stamp /\ history' = history /\ cur' = cur
        /\ seen' = seen /\ now' = now
        /\ pc' = [pc EXCEPT ![s] = "db"]
        /\ pc[s] = "decide"
        /\ seen[s] # NoStamp /\ now < seen[s] + Window
    BY <1>0, <1>3 DEF Suppress, Recent, Msgs
  <2>2. HistoryWitnessed' /\ NotYetStamped' /\ LookupWitnessed'
    BY <1>0, <2>1 DEF HistoryWitnessed, NotYetStamped, LookupWitnessed, Witness, Key
  <2>3. PICK w \in Msgs : Key(w) = Key(cur[s]) /\ stamp[w] = seen[s]
    BY <2>1 DEF LookupWitnessed, Witness
  <2>4. w # cur[s] /\ Stamped(w) /\ log[cur[s]].at < stamp[w] + Window
    <3>1. w # cur[s] /\ Stamped(w)
      BY <2>1, <2>3 DEF NotYetStamped, Stamped
    <3>2. log[cur[s]].at \in Nat /\ log[cur[s]].at <= now /\ seen[s] \in Nat
      BY <1>0, <1>m, <2>1
    <3>. QED
      BY <1>0, <2>1, <2>3, <3>1, <3>2
  <2>5. SuppressionSound'
    <3>1. SUFFICES ASSUME NEW m \in Msgs, Decided(m)', ~Stamped(m)
                   PROVE  \E v \in Msgs \ {m} : /\ Stamped(v)
                                                /\ Key(v) = Key(m)
                                                /\ log[m].at < stamp[v] + Window
      BY <2>1 DEF SuppressionSound, Stamped, Key
    <3>2. CASE m = cur[s]
      BY <2>3, <2>4, <3>2
    <3>3. CASE m # cur[s]
      BY <1>0, <2>1, <3>1, <3>3 DEF SuppressionSound, Decided
    <3>. QED
      BY <3>2, <3>3
  <2>. QED
    BY <2>2, <2>5
<1>4. ASSUME NEW s \in Subscribers, Admit(s) PROVE Vouched'
  <2>1. /\ log' = log /\ Msgs' = Msgs /\ stamp' = stamp /\ history' = history /\ cur' = cur
        /\ seen' = seen
        /\ pc' = [pc EXCEPT ![s] = "record"]
        /\ pc[s] = "decide"
    BY <1>4 DEF Admit, Msgs
  <2>2. HistoryWitnessed' /\ NotYetStamped' /\ LookupWitnessed'
    BY <1>0, <2>1 DEF HistoryWitnessed, NotYetStamped, LookupWitnessed, Witness, Key
  <2>3. SuppressionSound'
    BY <1>0, <2>1 DEF SuppressionSound, Decided, Stamped, Key
  <2>. QED
    BY <2>2, <2>3
<1>5. ASSUME NEW s \in Subscribers, RecordHistory(s) PROVE Vouched'
  <2>. DEFINE c == cur[s]
  <2>1. /\ log' = log /\ Msgs' = Msgs /\ cur' = cur /\ seen' = seen
        /\ history' = [history EXCEPT ![Key(c)] = now]
        /\ stamp' = [stamp EXCEPT ![c] = now]
        /\ pc' = [pc EXCEPT ![s] = "cast"]
        /\ pc[s] = "record"
        /\ c \in Msgs /\ c \in 1 .. MaxMsgs /\ Key(c) \in Keys
        /\ stamp[c] = NoStamp
        /\ stamp'[c] = now /\ now # NoStamp
    BY <1>0, <1>m, <1>5 DEF RecordHistory, NotYetStamped, Msgs
  <2>2. \A w \in Msgs : w # c => stamp'[w] = stamp[w]
    BY <1>0, <1>m, <2>1
  <2>3. HistoryWitnessed'
    <3>1. ASSUME NEW k \in Keys, history'[k] # NoStamp
          PROVE  \E w \in Msgs : Key(w) = k /\ stamp'[w] = history'[k]
      <4>1. CASE k = Key(c)
        BY <1>0, <2>1, <4>1
      <4>2. CASE k # Key(c)
        BY <1>0, <2>1, <2>2, <3>1, <4>2 DEF HistoryWitnessed, Witness
      <4>. QED
        BY <4>1, <4>2
    <3>. QED
      BY <2>1, <3>1 DEF HistoryWitnessed, Witness, Key
  <2>4. LookupWitnessed'
    <3>1. ASSUME NEW t \in Subscribers, pc'[t] \in {"decide", "record"}, seen[t] # NoStamp
          PROVE  \E w \in Msgs : Key(w) = Key(cur[t]) /\ stamp'[w] = seen[t]
      <4>1. pc[t] = pc'[t]
        BY <1>0, <2>1, <3>1
      <4>. QED
        BY <2>1, <2>2, <3>1, <4>1 DEF LookupWitnessed, Witness
    <3>. QED
      BY <2>1, <3>1 DEF LookupWitnessed, Witness, Key
  <2>5. NotYetStamped'
    <3>1. ASSUME NEW t \in Subscribers, pc'[t] \in {"lookup", "decide", "record"}
          PROVE  stamp'[cur[t]] = NoStamp
      <4>1. t # s /\ pc[t] = pc'[t]
        BY <1>0, <2>1, <3>1
      <4>2. cur[t] \in Msgs /\ cur[t] # c
        BY <1>0, <2>1, <3>1, <4>1
      <4>. QED
        BY <2>2, <3>1, <4>1, <4>2 DEF NotYetStamped
    <3>. QED
      BY <2>1, <3>1 DEF NotYetStamped
  <2>6. SuppressionSound'
    <3>1. SUFFICES ASSUME NEW m \in Msgs, Decided(m)', stamp'[m] = NoStamp
                   PROVE  \E v \in Msgs \ {m} : /\ stamp'[v] # NoStamp
                                                /\ Key(v) = Key(m)
                                                /\ log[m].at < stamp'[v] + Window
      BY <2>1 DEF SuppressionSound, Stamped, Key
    <3>2. m # c /\ Decided(m) /\ ~Stamped(m)
      BY <1>0, <2>1, <2>2, <3>1 DEF Decided, Stamped
    <3>3. PICK w \in Msgs \ {m} : /\ Stamped(w)
                                  /\ Key(w) = Key(m)
                                  /\ log[m].at < stamp[w] + Window
      BY <3>2 DEF SuppressionSound
    <3>. QED
      BY <2>1, <2>2, <3>3 DEF Stamped
  <2>. QED
    BY <2>3, <2>4, <2>5, <2>6
<1>6. ASSUME NEW s \in Subscribers, SendBroadcast(s) PROVE Vouched'
  <2>1. /\ log' = log /\ Msgs' = Msgs /\ stamp' = stamp /\ history' = history /\ cur' = cur
        /\ seen' = seen
        /\ pc' = [pc EXCEPT ![s] = "db"]
        /\ pc[s] = "cast"
    BY <1>6 DEF SendBroadcast, Msgs
  <2>2. HistoryWitnessed' /\ NotYetStamped' /\ LookupWitnessed'
    BY <1>0, <2>1 DEF HistoryWitnessed, NotYetStamped, LookupWitnessed, Witness, Key
  <2>3. SuppressionSound'
    BY <1>0, <2>1 DEF SuppressionSound, Decided, Stamped, Key
  <2>. QED
    BY <2>2, <2>3
<1>7. ASSUME NEW s \in Subscribers, SendDbUpdate(s) PROVE Vouched'
  <2>1. /\ log' = log /\ Msgs' = Msgs /\ stamp' = stamp /\ history' = history
        /\ seen' = seen
        /\ cur' = [cur EXCEPT ![s] = 0]
        /\ pc' = [pc EXCEPT ![s] = "idle"]
        /\ pc[s] = "db"
    BY <1>7 DEF SendDbUpdate, Msgs
  <2>2. HistoryWitnessed' /\ NotYetStamped' /\ LookupWitnessed'
    BY <1>0, <2>1 DEF HistoryWitnessed, NotYetStamped, LookupWitnessed, Witness, Key
  <2>3. SuppressionSound'
    BY <1>0, <2>1 DEF SuppressionSound, Decided, Stamped, Key
  <2>. QED
    BY <2>2, <2>3
<1>8. CASE HandleBroadcast \/ HandleDBUpdate \/ DBFatal \/ FatalElsewhere \/ Tick \/ UNCHANGED vars
  BY <1>8 DEF HandleBroadcast, HandleDBUpdate, DBFatal, FatalElsewhere, Tick, vars, handlerVars,
              HistoryWitnessed, LookupWitnessed, NotYetStamped, SuppressionSound,
              Witness, Decided, Stamped, Msgs, Key
<1>. QED
  BY <1>1, <1>2, <1>3, <1>4, <1>5, <1>6, <1>7, <1>8 DEF Next, Callback, Rest

\* A message kept from the web side always has a witness: the same topic and
\* payload, recorded for broadcast less than the window before it arrived, or
\* later.  It takes no assumption on the routes (messagePubHandler).
THEOREM SuppressionIsSound == Spec => []SuppressionSound
<1>1. Init => Vouched
  BY DEF Init, Vouched, HistoryWitnessed, LookupWitnessed, NotYetStamped,
         SuppressionSound, Msgs
<1>2. TypeOK /\ Ownership /\ Vouched /\ [Next]_vars => Vouched'
  BY VouchedStep
<1>3. Vouched => SuppressionSound
  BY DEF Vouched
<1>. QED
  BY <1>1, <1>2, <1>3, TypeCorrect, OwnershipHolds, PTL DEF Spec

-----------------------------------------------------------------------------
(* A message is recorded before it is sent to be broadcast, and for good.  *)

RecordedFirst ==
  /\ \A s \in Subscribers : pc[s] = "cast" => stamp[cur[s]] # NoStamp
  /\ chan = "cast" => stamp[inHand] # NoStamp

LEMMA StampKept ==
  ASSUME TypeOK, [Next]_vars, NEW m \in 1 .. MaxMsgs, stamp[m] # NoStamp
  PROVE  stamp'[m] # NoStamp
<1>1. ASSUME NEW s \in Subscribers, RecordHistory(s) PROVE stamp'[m] # NoStamp
  BY <1>1, RelayAssumption DEF RecordHistory, TypeOK
<1>2. CASE UNCHANGED stamp
  BY <1>2
<1>. QED
  BY <1>1, <1>2 DEF Next, Callback, Deliver, ReadHistory, Suppress, Admit, SendBroadcast,
                    SendDbUpdate, HandleBroadcast, HandleDBUpdate, DBFatal, FatalElsewhere,
                    Tick, Rest, handlerVars, vars

LEMMA RecordedStep == TypeOK /\ RecordedFirst /\ [Next]_vars => RecordedFirst'
<1>. SUFFICES ASSUME TypeOK, RecordedFirst, [Next]_vars PROVE RecordedFirst'
  OBVIOUS
<1>. USE DEF RecordedFirst
<1>0. /\ pc \in [Subscribers -> {"idle", "lookup", "decide", "record", "cast", "db"}]
      /\ cur \in [Subscribers -> Nat]
  BY DEF TypeOK
<1>1. ASSUME NEW s \in Subscribers, RecordHistory(s) PROVE RecordedFirst'
  <2>1. cur[s] \in 1 .. MaxMsgs /\ now # NoStamp
    BY <1>1, MessageFacts, RelayAssumption DEF RecordHistory, TypeOK
  <2>2. stamp' = [stamp EXCEPT ![cur[s]] = now] /\ stamp'[cur[s]] # NoStamp
    BY <1>1, <2>1 DEF RecordHistory, TypeOK
  <2>3. \A m : stamp[m] # NoStamp => stamp'[m] # NoStamp
    BY <2>1, <2>2 DEF TypeOK
  <2>. QED
    BY <1>0, <1>1, <2>2, <2>3 DEF RecordHistory, dispatchVars
<1>2. ASSUME NEW s \in Subscribers, NEW k \in Keys, Deliver(s, k) PROVE RecordedFirst'
  BY <1>0, <1>2 DEF Deliver, dispatchVars
<1>3. ASSUME NEW s \in Subscribers, ReadHistory(s) \/ Suppress(s) \/ Admit(s)
      PROVE  RecordedFirst'
  BY <1>0, <1>3 DEF ReadHistory, Suppress, Admit, dispatchVars
<1>4. ASSUME NEW s \in Subscribers, SendBroadcast(s) \/ SendDbUpdate(s)
      PROVE  RecordedFirst'
  BY <1>0, <1>4 DEF SendBroadcast, SendDbUpdate
<1>5. CASE HandleBroadcast \/ HandleDBUpdate \/ DBFatal \/ FatalElsewhere \/ Tick
  BY <1>5 DEF HandleBroadcast, HandleDBUpdate, DBFatal, FatalElsewhere, Tick, handlerVars,
              dispatchVars
<1>6. CASE UNCHANGED vars
  BY <1>6 DEF vars
<1>. QED
  BY <1>1, <1>2, <1>3, <1>4, <1>5, <1>6 DEF Next, Callback, Rest

LEMMA RecordedHolds == Spec => []RecordedFirst
<1>1. Init => RecordedFirst
  BY DEF Init, RecordedFirst
<1>. QED
  BY <1>1, TypeCorrect, RecordedStep, PTL DEF Spec

-----------------------------------------------------------------------------
(* Nothing is swallowed.  What is recorded for broadcast is on its way to   *)
(* the web side until it is announced, and what is suppressed leans on a    *)
(* message that has been recorded.  These are the facts of a state behind   *)
(* the liveness of the relay: once it has come to rest, all is done.        *)

\* Message m is about to be sent to handleMessages, or is in its broadcast case.
Underway(m) ==
  \/ chan = "cast" /\ inHand = m
  \/ \E s \in Subscribers : pc[s] = "cast" /\ cur[s] = m

RecordedArrives ==
  \A m \in Msgs : Stamped(m) =>
    /\ log[m].at <= stamp[m]
    /\ Parses(Key(m)) => m \in announced \/ Underway(m)

LEMMA ArrivesStep ==
  ASSUME TypeOK, Ownership, RecordedArrives, [Next]_vars
  PROVE  RecordedArrives'
<1>. USE DEF RecordedArrives, Stamped, Underway
<1>0. /\ pc \in [Subscribers -> {"idle", "lookup", "decide", "record", "cast", "db"}]
      /\ cur \in [Subscribers -> Nat]
      /\ stamp \in [1 .. MaxMsgs -> (0 .. now) \cup {NoStamp}]
      /\ \A s \in Subscribers : pc[s] # "idle" => cur[s] \in Msgs
      /\ \A m \in Msgs : m \in 1 .. MaxMsgs /\ log[m].at <= now
  BY MessageFacts DEF TypeOK
<1>1. ASSUME NEW s \in Subscribers, NEW k \in Keys, Deliver(s, k) PROVE RecordedArrives'
  <2>1. /\ Msgs' = 1 .. Len(log) + 1
        /\ Msgs = 1 .. Len(log)
        /\ \A m \in Msgs : log'[m] = log[m]
        /\ Len(log) \in Nat
    BY <1>1, DeliverFacts
  <2>2. /\ UNCHANGED <<stamp, announced, chan, inHand>>
        /\ cur' = [cur EXCEPT ![s] = Len(log) + 1]
        /\ pc' = [pc EXCEPT ![s] = "lookup"]
        /\ pc[s] = "idle"
        /\ Len(log) + 1 \in 1 .. MaxMsgs /\ Len(log) + 1 \notin Msgs
    BY <1>1, <2>1, RelayAssumption DEF Deliver, dispatchVars
  <2>3. stamp[Len(log) + 1] = NoStamp
    BY <2>2 DEF Ownership
  <2>4. ASSUME NEW m \in Msgs', stamp'[m] # NoStamp
        PROVE  m \in Msgs /\ Key(m)' = Key(m) /\ log'[m] = log[m]
    BY <2>1, <2>2, <2>3, <2>4 DEF Key
  <2>5. ASSUME NEW m, Underway(m) PROVE Underway(m)'
    BY <1>0, <2>2, <2>5
  <2>. QED
    BY <2>2, <2>4, <2>5 DEF Parses
<1>2. ASSUME NEW s \in Subscribers, ReadHistory(s) \/ Suppress(s) \/ Admit(s)
      PROVE  RecordedArrives'
  <2>1. /\ UNCHANGED <<log, Msgs, cur, stamp, announced, chan, inHand>>
        /\ pc[s] \in {"lookup", "decide"}
        /\ \E p \in {"decide", "record", "db"} : pc' = [pc EXCEPT ![s] = p]
    BY <1>2 DEF ReadHistory, Suppress, Admit, dispatchVars, Msgs
  <2>2. ASSUME NEW m, Underway(m) PROVE Underway(m)'
    BY <1>0, <2>1, <2>2
  <2>. QED
    BY <2>1, <2>2 DEF Parses, Key
<1>3. ASSUME NEW s \in Subscribers, RecordHistory(s) PROVE RecordedArrives'
  <2>1. /\ UNCHANGED <<log, Msgs, cur, announced, chan, inHand>>
        /\ pc[s] = "record" /\ pc' = [pc EXCEPT ![s] = "cast"]
        /\ stamp' = [stamp EXCEPT ![cur[s]] = now]
        /\ cur[s] \in Msgs
    BY <1>0, <1>3 DEF RecordHistory, dispatchVars, Msgs
  <2>2. Underway(cur[s])'
    BY <1>0, <2>1
  <2>3. ASSUME NEW m, Underway(m) PROVE Underway(m)'
    BY <1>0, <2>1, <2>3
  <2>4. ASSUME NEW m \in Msgs, m # cur[s] PROVE stamp'[m] = stamp[m]
    BY <1>0, <2>1, <2>4
  <2>5. stamp'[cur[s]] = now
    BY <1>0, <2>1
  <2>. QED
    BY <1>0, <2>1, <2>2, <2>3, <2>4, <2>5 DEF Parses, Key
<1>4. ASSUME NEW s \in Subscribers, SendBroadcast(s) PROVE RecordedArrives'
  <2>1. /\ UNCHANGED <<log, Msgs, cur, stamp, announced>>
        /\ chan = "select" /\ chan' = "cast" /\ inHand' = cur[s]
        /\ pc' = [pc EXCEPT ![s] = "db"]
    BY <1>4 DEF SendBroadcast, Msgs
  <2>2. ASSUME NEW m, Underway(m) PROVE Underway(m)'
    BY <1>0, <2>1, <2>2
  <2>. QED
    BY <2>1, <2>2 DEF Parses, Key
<1>5. ASSUME NEW s \in Subscribers, SendDbUpdate(s) PROVE RecordedArrives'
  <2>1. /\ UNCHANGED <<log, Msgs, stamp, announced>>
        /\ chan = "select" /\ chan' = "db"
        /\ pc[s] = "db" /\ pc' = [pc EXCEPT ![s] = "idle"]
        /\ cur' = [cur EXCEPT ![s] = 0]
    BY <1>5 DEF SendDbUpdate, Msgs
  <2>2. ASSUME NEW m, Underway(m) PROVE Underway(m)'
    BY <1>0, <2>1, <2>2
  <2>. QED
    BY <2>1, <2>2 DEF Parses, Key
<1>6. CASE HandleBroadcast
  <2>1. /\ UNCHANGED <<log, Msgs, pc, cur, stamp>>
        /\ announced \subseteq announced'
        /\ Parses(Key(inHand)) => inHand \in announced'
    BY <1>6 DEF HandleBroadcast, handlerVars, Msgs
  <2>. QED
    BY <2>1 DEF Parses, Key
<1>7. CASE HandleDBUpdate
  BY <1>7 DEF HandleDBUpdate, handlerVars, Msgs, Parses, Key
<1>8. CASE DBFatal \/ FatalElsewhere \/ Tick \/ UNCHANGED vars
  BY <1>8 DEF DBFatal, FatalElsewhere, Tick, vars, handlerVars, dispatchVars, Msgs, Parses, Key
<1>. QED
  BY <1>1, <1>2, <1>3, <1>4, <1>5, <1>6, <1>7, <1>8 DEF Next, Callback, Rest

LEMMA ArrivesHolds == Spec => []RecordedArrives
<1>1. Init => RecordedArrives
  BY DEF Init, RecordedArrives, Msgs
<1>2. TypeOK /\ Ownership /\ RecordedArrives /\ [Next]_vars => RecordedArrives'
  BY ArrivesStep
<1>. QED
  BY <1>1, <1>2, TypeCorrect, OwnershipHolds, PTL DEF Spec

\* Message w stands for m on the web side: it says the same and was recorded for
\* broadcast less than the window before m came, or later.
Vouches(w, m) == Stamped(w) /\ Key(w) = Key(m) /\ log[m].at < stamp[w] + Window

\* A message whose duplicate check is over, and that has something to announce, has
\* been heard, or a message that stands for it is on its way.
ContentKept ==
  \A m \in Msgs :
    Decided(m) /\ Parses(Key(m)) =>
      Heard(m) \/ \E w \in Msgs : Vouches(w, m) /\ Underway(w)

\* Whatever the interleaving of callbacks, the two locks and the two channels, the
\* content of a message past its duplicate check is announced already, or in a callback's
\* or handleMessages' hand: suppressing duplicates loses nothing.
THEOREM ContentIsKept ==
  ASSUME Window > 0
  PROVE  Spec => []ContentKept
<1>1. ASSUME TypeOK, RecordedArrives, SuppressionSound PROVE ContentKept
  <2>1. ASSUME NEW m \in Msgs, Decided(m), Parses(Key(m))
        PROVE  \E w \in Msgs : Vouches(w, m)
    <3>1. CASE Stamped(m)
      <4>1. /\ stamp[m] \in Nat /\ Window \in Nat
            /\ log[m].at \in Nat /\ log[m].at <= stamp[m]
        BY <1>1, <3>1, MessageFacts, RelayAssumption DEF Stamped, TypeOK, RecordedArrives
      <4>2. Vouches(m, m)
        BY <3>1, <4>1 DEF Vouches
      <4>. QED
        BY <4>2
    <3>2. CASE ~Stamped(m)
      BY <1>1, <2>1, <3>2 DEF SuppressionSound, Vouches
    <3>. QED
      BY <3>1, <3>2
  <2>2. ASSUME NEW m \in Msgs, NEW w \in Msgs, Vouches(w, m), Parses(Key(m))
        PROVE  Heard(m) \/ Underway(w)
    <3>1. w \in announced \/ Underway(w)
      BY <1>1, <2>2 DEF Vouches, RecordedArrives
    <3>. QED
      BY <2>2, <3>1 DEF Vouches, Heard
  <2>. QED
    BY <2>1, <2>2 DEF ContentKept
<1>. QED
  BY <1>1, TypeCorrect, ArrivesHolds, SuppressionIsSound, PTL

\* What is so at rest.
NothingSwallowed ==
  Resting => applied = Msgs /\ \A m \in Msgs : Parses(Key(m)) => Heard(m)

\* Whenever the relay has come to rest, every message delivered so far has been through
\* the database case, duplicates included, and the content of every one that parses has
\* been announced: what EveryMessageReachesDb and ContentAnnounced say of the end
\* (messagePubHandler, handleMessages).
THEOREM NothingIsSwallowed ==
  ASSUME Window > 0
  PROVE  Spec => []NothingSwallowed
<1>1. ASSUME TypeOK, Turns, ContentKept PROVE NothingSwallowed
  <2>1. SUFFICES ASSUME Resting
                 PROVE  applied = Msgs /\ \A m \in Msgs : Parses(Key(m)) => Heard(m)
    BY DEF NothingSwallowed
  <2>2. \A m \in Msgs : m \in applied
    BY <1>1, <2>1, MessageFacts DEF Turns, Finished, Resting
  <2>3. applied = Msgs
    BY <1>1, <2>2 DEF TypeOK
  <2>4. \A m \in Msgs : Decided(m) /\ ~Underway(m)
    BY <1>1, <2>1, ElementFacts DEF Decided, Underway, Resting, TypeOK, Msgs
  <2>. QED
    BY <1>1, <2>3, <2>4 DEF ContentKept
<1>. QED
  BY <1>1, TypeCorrect, TurnsHold, ContentIsKept, PTL
=============================================================================
