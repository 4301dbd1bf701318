----------------------------- MODULE HubProofs -----------------------------
(***************************************************************************)
(* Proofs about ClientHub, for any set of connections and any number of     *)
(* broadcasts.                                                             *)
(***************************************************************************)
EXTENDS ClientHub, FiniteSetTheorems, TLAPS

LEMMA GrowFacts ==
  ASSUME NEW n \in Nat, NEW q \in Seq(1 .. n)
  PROVE  /\ q \in Seq(1 .. n + 1)
         /\ Len(q) \in Nat
         /\ \A i \in 1 .. Len(q) : q[i] \in 1 .. n
<1>1. \A i \in 1 .. Len(q) : q[i] \in 1 .. n + 1
  OBVIOUS
<1>. QED
  BY <1>1

LEMMA AppendFacts ==
  ASSUME NEW S, NEW q \in Seq(S), NEW e \in S
  PROVE  /\ Append(q, e) \in Seq(S)
         /\ Len(q) \in Nat
         /\ Len(Append(q, e)) = Len(q) + 1
         /\ \A i \in 1 .. Len(q) : Append(q, e)[i] = q[i]
         /\ Append(q, e)[Len(q) + 1] = e
  OBVIOUS

LEMMA TypeStep == TypeOK /\ [Next]_vars => TypeOK'
<1>. USE HubAssumption
<1>. SUFFICES ASSUME TypeOK, [Next]_vars PROVE TypeOK'
  OBVIOUS
<1>. USE DEF TypeOK, Places, connVars, castVars
<1>1. ASSUME NEW c \in Conns, Upgrade(c) PROVE TypeOK'
  BY <1>1 DEF Upgrade
<1>2. ASSUME NEW c \in Conns, UpgradeRefused(c) PROVE TypeOK'
  BY <1>2 DEF UpgradeRefused
<1>3. ASSUME NEW c \in Conns, Insert(c) PROVE TypeOK'
  BY <1>3 DEF Insert, WriteMap
<1>4. ASSUME NEW c \in Conns, ReadFails(c) PROVE TypeOK'
  BY <1>4 DEF ReadFails
<1>5. ASSUME NEW c \in Conns, Delete(c) PROVE TypeOK'
  BY <1>5 DEF Delete, WriteMap
<1>6. ASSUME NEW c \in Conns, Peer(c) PROVE TypeOK'
  BY <1>6 DEF Peer, Stall, Recover, Break
<1>7. CASE StartRange
  <2>1. casts' \in Nat /\ inbox' \in [Conns -> Seq(1 .. casts')]
    BY <1>7, GrowFacts DEF StartRange
  <2>. QED
    BY <1>7, <2>1 DEF StartRange
<1>8. ASSUME NEW c \in Conns, Pick(c) PROVE TypeOK'
  BY <1>8 DEF Pick
<1>9. CASE WriteOk
  <2>1. target \in Conns /\ casts \in 1 .. casts
    BY <1>9 DEF WriteOk
  <2>2. inbox' \in [Conns -> Seq(1 .. casts)]
    BY <1>9, <2>1, AppendFacts DEF WriteOk
  <2>. QED
    BY <1>9, <2>2 DEF WriteOk
<1>10. CASE WriteLost \/ WriteFails
  BY <1>10 DEF WriteLost, WriteFails
<1>11. CASE Drop
  BY <1>11 DEF Drop, WriteMap
<1>12. CASE FinishRange
  BY <1>12 DEF FinishRange
<1>13. CASE MapFatal \/ FatalElsewhere
  BY <1>13 DEF MapFatal, FatalElsewhere
<1>14. CASE UNCHANGED vars
  BY <1>14 DEF vars
<1>. QED
  BY <1>1, <1>2, <1>3, <1>4, <1>5, <1>6, <1>7, <1>8, <1>9, <1>10, <1>11, <1>12, <1>13, <1>14
     DEF Next, Connection, Broadcasting, Rest

\* Every step keeps every variable in its type: a socket is only open while its
\* goroutine runs, and no peer has received a broadcast that has not begun
\* (handleConnections, handleBroadcast).
THEOREM TypeCorrect == Spec => []TypeOK
<1>1. Init => TypeOK
  <2>. SUFFICES ASSUME Init PROVE TypeOK
    OBVIOUS
  <2>. USE DEF Init
  <2>1. inbox \in [Conns -> Seq(1 .. casts)]
    OBVIOUS
  <2>2. place \in [Conns -> Places] /\ health \in [Conns -> {"ok", "stalled", "broken"}]
    BY DEF Places
  <2>3. hub \in {"idle", "range", "write", "drop"} /\ casts \in Nat
    OBVIOUS
  <2>. QED
    BY <2>1, <2>2, <2>3 DEF TypeOK
<1>. QED
  BY <1>1, TypeStep, PTL DEF Spec

-----------------------------------------------------------------------------
(* Membership.  While no race has gone unnoticed the map holds exactly the  *)
(* connections that are being read, give or take the ones on their way in   *)
(* or out; handleBroadcast deletes only what it has closed.                 *)

DropsClosed == hub = "drop" => target \notin open

EntriesCame ==
  /\ \A c \in clients : place[c] \notin {"fresh", "inserting"}
  /\ hub \in {"write", "drop"} => place[target] \notin {"fresh", "inserting"}

Membership == DropsClosed /\ EntriesCame /\ NoDeafClient /\ NoLeakedClient

LEMMA MembershipStep ==
  ASSUME TypeOK, Membership, [Next]_vars
  PROVE  Membership'
<1>. USE HubAssumption DEF Membership, DropsClosed, EntriesCame, NoDeafClient,
                           NoLeakedClient, connVars, castVars
<1>0. /\ place \in [Conns -> {"fresh", "inserting", "reading", "deleting", "closed"}]
      /\ clients \subseteq Conns
      /\ open \subseteq {c \in Conns : place[c] \notin {"fresh", "closed"}}
      /\ hub \in {"write", "drop"} => target \in Conns
      /\ raced \in BOOLEAN
  BY DEF TypeOK, Places
<1>1. ASSUME NEW c \in Conns, Upgrade(c) PROVE Membership'
  BY <1>0, <1>1 DEF Upgrade
<1>2. ASSUME NEW c \in Conns, UpgradeRefused(c) PROVE Membership'
  BY <1>2 DEF UpgradeRefused
<1>3. ASSUME NEW c \in Conns, Insert(c) PROVE Membership'
  BY <1>0, <1>3 DEF Insert, WriteMap
<1>4. ASSUME NEW c \in Conns, ReadFails(c) PROVE Membership'
  BY <1>0, <1>4 DEF ReadFails
<1>5. ASSUME NEW c \in Conns, Delete(c) PROVE Membership'
  BY <1>0, <1>5 DEF Delete, WriteMap
<1>6. ASSUME NEW c \in Conns, Peer(c) PROVE Membership'
  BY <1>0, <1>6 DEF Peer, Stall, Recover, Break
<1>7. CASE StartRange
  BY <1>7 DEF StartRange
<1>8. ASSUME NEW c \in Conns, Pick(c) PROVE Membership'
  BY <1>0, <1>8 DEF Pick
<1>9. CASE WriteOk
  BY <1>9 DEF WriteOk
<1>10. CASE WriteLost \/ WriteFails
  BY <1>0, <1>10 DEF WriteLost, WriteFails
<1>11. CASE Drop
  BY <1>0, <1>11 DEF Drop, WriteMap
<1>12. CASE FinishRange
  BY <1>12 DEF FinishRange
<1>13. CASE MapFatal \/ FatalElsewhere
  BY <1>13 DEF MapFatal, FatalElsewhere
<1>14. CASE UNCHANGED vars
  BY <1>14 DEF vars
<1>. QED
  BY <1>1, <1>2, <1>3, <1>4, <1>5, <1>6, <1>7, <1>8, <1>9, <1>10, <1>11, <1>12, <1>13, <1>14
     DEF Next, Connection, Broadcasting, Rest

LEMMA MembershipHolds == Spec => []Membership
<1>1. Init => Membership
  BY DEF Init, Membership, DropsClosed, EntriesCame, NoDeafClient, NoLeakedClient
<1>2. TypeOK /\ Membership /\ [Next]_vars => Membership'
  BY MembershipStep
<1>. QED
  BY <1>1, <1>2, TypeCorrect, PTL DEF Spec

\* A connection that is read and whose socket is open is in the map, as long as
\* no race on the map has gone unnoticed (handleConnections, handleBroadcast).
THEOREM NoClientIsDeaf == Spec => []NoDeafClient
<1>1. Membership => NoDeafClient
  BY DEF Membership
<1>. QED
  BY <1>1, MembershipHolds, PTL

\* The map holds no connection whose goroutine has ended (handleConnections).
THEOREM NoClientIsLeaked == Spec => []NoLeakedClient
<1>1. Membership => NoLeakedClient
  BY DEF Membership
<1>. QED
  BY <1>1, MembershipHolds, PTL

-----------------------------------------------------------------------------
(* The feed of a client.  Between broadcasts a client that can be written    *)
(* to has the last one, if it has had any; during one it has it, or is still *)
(* to be visited, or is being written to, and then it has the one before.    *)

Latest(c) == inbox[c][Len(inbox[c])]

\* The current broadcast has not reached c.
Pending(c) == hub # "idle" /\ (c \notin visited \/ (hub = "write" /\ target = c))

UpToDate ==
  ~raced =>
    \A c \in Conns : Fed(c) =>
      \/ Latest(c) = casts
      \/ Latest(c) + 1 = casts /\ hub # "idle" /\ (c \in owed \/ (hub = "write" /\ target = c))

NotAhead == \A c \in Conns : Len(inbox[c]) > 0 /\ Pending(c) => Latest(c) < casts

\* A client that has received anything has been in the map; it is read until
\* its socket fails.
FedIsRead ==
  \A c \in Conns :
    /\ Len(inbox[c]) > 0 => place[c] \notin {"fresh", "inserting"}
    /\ place[c] = "deleting" => health[c] = "broken" \/ c \notin open

Feed == FeedGapless /\ UpToDate /\ NotAhead /\ FedIsRead

LEMMA InboxFacts ==
  ASSUME TypeOK, NEW c \in Conns
  PROVE  /\ inbox[c] \in Seq(1 .. casts)
         /\ Len(inbox[c]) \in Nat
         /\ \A i \in 1 .. Len(inbox[c]) : inbox[c][i] \in 1 .. casts
         /\ casts \in Nat
<1>1. inbox[c] \in Seq(1 .. casts) /\ casts \in Nat
  BY DEF TypeOK
<1>. QED
  BY <1>1, GrowFacts

\* A step that leaves broadcasts and inboxes alone, and makes no socket
\* writable that was not, keeps every feed.
LEMMA FeedFrame ==
  ASSUME TypeOK, Feed,
         UNCHANGED <<inbox, casts, hub, target, owed, visited>>,
         raced => raced', raced' \in BOOLEAN,
         \A c \in Conns : Fed(c)' => Fed(c),
         FedIsRead'
  PROVE  Feed'
<1>1. raced \in BOOLEAN
  BY DEF TypeOK
<1>2. FeedGapless'
  BY <1>1 DEF Feed, FeedGapless
<1>3. UpToDate'
  BY <1>1 DEF Feed, UpToDate, Latest
<1>4. NotAhead'
  BY DEF Feed, NotAhead, Latest, Pending
<1>. QED
  BY <1>2, <1>3, <1>4 DEF Feed

LEMMA FeedStep ==
  ASSUME TypeOK, Membership, Feed, [Next]_vars
  PROVE  Feed'
<1>. USE HubAssumption DEF connVars, castVars
<1>0. /\ place \in [Conns -> {"fresh", "inserting", "reading", "deleting", "closed"}]
      /\ health \in [Conns -> {"ok", "stalled", "broken"}]
      /\ clients \subseteq Conns
      /\ open \subseteq {c \in Conns : place[c] \notin {"fresh", "closed"}}
      /\ hub \in {"idle", "range", "write", "drop"}
      /\ hub \in {"write", "drop"} => target \in visited /\ target \in Conns
      /\ visited \subseteq Conns
      /\ owed \subseteq Conns \ visited
      /\ casts \in Nat
      /\ inbox \in [Conns -> Seq(1 .. casts)]
      /\ raced \in BOOLEAN
  BY DEF TypeOK, Places
<1>1. ASSUME NEW c \in Conns, Upgrade(c) PROVE Feed'
  <2>1. FedIsRead'
    BY <1>0, <1>1 DEF Upgrade, Feed, FedIsRead
  <2>2. \A d \in Conns : Fed(d)' => Fed(d)
    BY <1>0, <1>1 DEF Upgrade, Feed, FedIsRead, Fed
  <2>. QED
    BY <1>0, <1>1, <2>1, <2>2, FeedFrame DEF Upgrade
<1>2. ASSUME NEW c \in Conns, UpgradeRefused(c) \/ ReadFails(c) PROVE Feed'
  <2>1. FedIsRead'
    BY <1>0, <1>2 DEF UpgradeRefused, ReadFails, Feed, FedIsRead
  <2>2. \A d \in Conns : Fed(d)' => Fed(d)
    BY <1>0, <1>2 DEF UpgradeRefused, ReadFails, Fed
  <2>. QED
    BY <1>0, <1>2, <2>1, <2>2, FeedFrame DEF UpgradeRefused, ReadFails
<1>3. ASSUME NEW c \in Conns, Insert(c) \/ Delete(c) PROVE Feed'
  <2>1. FedIsRead'
    BY <1>0, <1>3 DEF Insert, Delete, Feed, FedIsRead
  <2>2. \A d \in Conns : Fed(d)' => Fed(d)
    BY <1>0, <1>3 DEF Insert, Delete, Fed
  <2>. QED
    BY <1>0, <1>3, <2>1, <2>2, FeedFrame DEF Insert, Delete, WriteMap
<1>4. ASSUME NEW c \in Conns, Peer(c) PROVE Feed'
  <2>1. FedIsRead'
    BY <1>0, <1>4 DEF Peer, Stall, Recover, Break, Feed, FedIsRead
  <2>2. \A d \in Conns : Fed(d)' => Fed(d)
    BY <1>0, <1>4 DEF Peer, Stall, Recover, Break, Fed
  <2>. QED
    BY <1>0, <1>4, <2>1, <2>2, FeedFrame DEF Peer, Stall, Recover, Break
<1>5. CASE StartRange
  <2>1. /\ inbox' = inbox /\ open' = open /\ health' = health /\ place' = place
        /\ clients' = clients /\ raced' = raced /\ casts' = casts + 1
        /\ hub = "idle" /\ hub' = "range" /\ owed' = clients
    BY <1>5 DEF StartRange
  <2>2. FeedGapless' /\ FedIsRead'
    BY <2>1 DEF Feed, FeedGapless, FedIsRead
  <2>3. NotAhead'
    BY <2>1, InboxFacts DEF NotAhead, Latest
  <2>4. UpToDate'
    <3>1. ASSUME ~raced, NEW c \in Conns, Fed(c) PROVE Latest(c) = casts /\ c \in clients
      <4>1. Latest(c) = casts
        BY <2>1, <3>1 DEF Feed, UpToDate
      <4>2. place[c] = "reading" /\ c \in open
        BY <1>0, <3>1 DEF Fed, Feed, FedIsRead
      <4>. QED
        BY <3>1, <4>1, <4>2 DEF Membership, NoDeafClient
    <3>. QED
      BY <2>1, <3>1 DEF UpToDate, Fed, Latest
  <2>. QED
    BY <2>2, <2>3, <2>4 DEF Feed
<1>6. ASSUME NEW c \in Conns, Pick(c) PROVE Feed'
  <2>1. /\ inbox' = inbox /\ open' = open /\ health' = health /\ place' = place
        /\ raced' = raced /\ casts' = casts
        /\ hub = "range" /\ hub' = "write" /\ target' = c /\ c \notin visited
        /\ owed' = owed \ {c} /\ visited' = visited \cup {c}
    BY <1>6 DEF Pick
  <2>2. FeedGapless' /\ FedIsRead'
    BY <2>1 DEF Feed, FeedGapless, FedIsRead
  <2>3. NotAhead'
    BY <2>1 DEF Feed, NotAhead, Latest, Pending
  <2>4. UpToDate'
    BY <2>1 DEF Feed, UpToDate, Latest, Fed
  <2>. QED
    BY <2>2, <2>3, <2>4 DEF Feed
<1>7. CASE WriteOk
  <2>. DEFINE q == inbox[target]
  <2>1. /\ target \in Conns /\ target \in visited
        /\ inbox' = [inbox EXCEPT ![target] = Append(q, casts)]
        /\ open' = open /\ health' = health /\ place' = place
        /\ raced' = raced /\ casts' = casts
        /\ hub = "write" /\ hub' = "range" /\ target' = NoConn
        /\ owed' = owed /\ visited' = visited
        /\ target \in open /\ health[target] = "ok"
    BY <1>0, <1>7 DEF WriteOk
  <2>2. /\ q \in Seq(1 .. casts) /\ Len(q) \in Nat
        /\ \A i \in 1 .. Len(q) : q[i] \in 1 .. casts
    BY <2>1, InboxFacts
  <2>3. casts \in 1 .. casts
    BY <1>0, <2>1 DEF TypeOK
  <2>4. /\ Len(inbox'[target]) = Len(q) + 1
        /\ \A i \in 1 .. Len(q) : inbox'[target][i] = q[i]
        /\ inbox'[target][Len(q) + 1] = casts
    BY <1>0, <2>1, <2>2, <2>3, AppendFacts
  <2>5. \A c \in Conns : c # target => inbox'[c] = inbox[c]
    BY <1>0, <2>1
  <2>6. FeedGapless'
    <3>1. SUFFICES ASSUME ~raced, NEW c \in Conns, NEW i \in 1 .. Len(inbox'[c]) - 1
                   PROVE  inbox'[c][i + 1] = inbox'[c][i] + 1
      BY <2>1 DEF FeedGapless
    <3>2. CASE c # target
      BY <2>5, <3>1, <3>2 DEF Feed, FeedGapless
    <3>3. CASE c = target /\ i < Len(q)
      BY <2>1, <2>2, <2>4, <3>1, <3>3 DEF Feed, FeedGapless
    <3>4. CASE c = target /\ i = Len(q)
      <4>1. Fed(target) /\ Latest(target) = q[i] /\ q[i] \in 1 .. casts
        BY <2>1, <2>2, <3>1, <3>4 DEF Fed, Latest
      <4>2. q[i] < casts
        BY <2>1, <4>1 DEF Feed, NotAhead, Pending, Fed
      <4>3. q[i] + 1 = casts
        BY <1>0, <2>1, <3>1, <4>1, <4>2 DEF Feed, UpToDate
      <4>. QED
        BY <2>2, <2>4, <3>1, <3>4, <4>3
    <3>. QED
      BY <2>2, <2>4, <3>1, <3>2, <3>3, <3>4
  <2>7. FedIsRead'
    BY <1>0, <2>1, <2>5 DEF Feed, FedIsRead, Membership, EntriesCame
  <2>8. NotAhead'
    BY <1>0, <2>1, <2>5 DEF Feed, NotAhead, Latest, Pending
  <2>9. UpToDate'
    <3>1. SUFFICES ASSUME ~raced, NEW c \in Conns, Fed(c)'
                   PROVE  \/ Latest(c)' = casts
                          \/ Latest(c)' + 1 = casts /\ c \in owed
      BY <2>1 DEF UpToDate
    <3>2. CASE c = target
      BY <2>2, <2>4, <3>2 DEF Latest
    <3>3. CASE c # target
      BY <2>1, <2>5, <3>1, <3>3 DEF Feed, UpToDate, Latest, Fed
    <3>. QED
      BY <3>2, <3>3
  <2>. QED
    BY <2>6, <2>7, <2>8, <2>9 DEF Feed
<1>8. CASE WriteLost \/ WriteFails
  <2>1. /\ inbox' = inbox /\ open' \subseteq open /\ health' = health /\ place' = place
        /\ raced' = raced /\ casts' = casts
        /\ hub = "write" /\ hub' \in {"range", "drop"}
        /\ owed' = owed /\ visited' = visited
        /\ target \in visited /\ target \in Conns
        /\ target \notin open' \/ health[target] = "broken"
        /\ \A c \in open : c # target => c \in open'
    BY <1>0, <1>8 DEF WriteLost, WriteFails
  <2>2. FeedGapless' /\ FedIsRead'
    BY <2>1 DEF Feed, FeedGapless, FedIsRead
  <2>3. NotAhead'
    BY <2>1 DEF Feed, NotAhead, Latest, Pending
  <2>4. UpToDate'
    BY <2>1 DEF Feed, UpToDate, Latest, Fed
  <2>. QED
    BY <2>2, <2>3, <2>4 DEF Feed
<1>9. CASE Drop
  <2>1. /\ inbox' = inbox /\ open' = open /\ health' = health /\ place' = place
        /\ (raced => raced') /\ casts' = casts
        /\ hub = "drop" /\ hub' = "range"
        /\ owed' = owed /\ visited' = visited
    BY <1>0, <1>9 DEF Drop, WriteMap
  <2>2. FeedGapless' /\ FedIsRead'
    BY <2>1 DEF Feed, FeedGapless, FedIsRead
  <2>3. NotAhead'
    BY <2>1 DEF Feed, NotAhead, Latest, Pending
  <2>4. UpToDate'
    BY <2>1 DEF Feed, UpToDate, Latest, Fed
  <2>. QED
    BY <2>2, <2>3, <2>4 DEF Feed
<1>10. CASE FinishRange
  <2>1. /\ inbox' = inbox /\ open' = open /\ health' = health /\ place' = place
        /\ raced' = raced /\ casts' = casts
        /\ hub = "range" /\ hub' = "idle"
        /\ owed \cap clients = {} \/ raced
    BY <1>10 DEF FinishRange
  <2>2. FeedGapless' /\ FedIsRead' /\ NotAhead'
    BY <2>1 DEF Feed, FeedGapless, FedIsRead, NotAhead, Pending
  <2>3. UpToDate'
    <3>1. ASSUME ~raced, NEW c \in Conns, Fed(c) PROVE Latest(c) = casts
      <4>1. place[c] = "reading" /\ c \in open
        BY <1>0, <3>1 DEF Fed, Feed, FedIsRead
      <4>2. c \in clients
        BY <3>1, <4>1 DEF Membership, NoDeafClient
      <4>. QED
        BY <2>1, <3>1, <4>2 DEF Feed, UpToDate
    <3>. QED
      BY <2>1, <3>1 DEF UpToDate, Fed, Latest
  <2>. QED
    BY <2>2, <2>3 DEF Feed
<1>11. CASE MapFatal \/ FatalElsewhere \/ UNCHANGED vars
  BY <1>11 DEF MapFatal, FatalElsewhere, vars, Feed, FeedGapless, UpToDate, NotAhead,
               FedIsRead, Fed, Latest, Pending
<1>. QED
  BY <1>1, <1>2, <1>3, <1>4, <1>5, <1>6, <1>7, <1>8, <1>9, <1>10, <1>11
     DEF Next, Connection, Broadcasting, Rest

LEMMA FeedHolds == Spec => []Feed
<1>1. Init => Feed
  BY DEF Init, Feed, FeedGapless, UpToDate, NotAhead, FedIsRead, Fed
<1>2. TypeOK /\ Membership /\ Feed /\ [Next]_vars => Feed'
  BY FeedStep
<1>. QED
  BY <1>1, <1>2, TypeCorrect, MembershipHolds, PTL DEF Spec

\* From the first broadcast it receives on, a client misses none and gets none
\* twice or out of order, as long as no race on the map has gone unnoticed
\* (handleBroadcast).
THEOREM FeedsAreGapless == Spec => []FeedGapless
<1>1. Feed => FeedGapless
  BY DEF Feed
<1>. QED
  BY <1>1, FeedHolds, PTL

-----------------------------------------------------------------------------
(* No peer receives a broadcast twice or out of order, race or not: a range *)
(* visits no entry twice.                                                  *)

Rising ==
  \A c \in Conns : \A i, j \in 1 .. Len(inbox[c]) : i < j => inbox[c][i] < inbox[c][j]

LEMMA RisingStep ==
  ASSUME TypeOK, Feed, Rising, [Next]_vars
  PROVE  Rising'
<1>. USE DEF Rising, connVars, castVars
<1>1. CASE WriteOk
  <2>1. /\ hub = "write" /\ target \in Conns
        /\ inbox' = [inbox EXCEPT ![target] = Append(@, casts)]
    BY <1>1 DEF WriteOk, TypeOK
  <2>2. /\ inbox[target] \in Seq(1 .. casts)
        /\ Len(inbox[target]) \in Nat
        /\ \A i \in 1 .. Len(inbox[target]) : inbox[target][i] \in 1 .. casts
        /\ casts \in 1 .. casts
    BY <2>1, InboxFacts DEF TypeOK
  <2>3. Len(inbox[target]) > 0 => Latest(target) < casts
    BY <2>1 DEF Feed, NotAhead, Pending
  <2>4. \A i \in 1 .. Len(inbox[target]) : inbox[target][i] < casts
    BY <2>1, <2>2, <2>3 DEF Latest
  <2>5. /\ inbox'[target] = Append(inbox[target], casts)
        /\ \A c \in Conns : c # target => inbox'[c] = inbox[c]
    BY <2>1 DEF TypeOK
  <2>6. /\ Len(inbox'[target]) = Len(inbox[target]) + 1
        /\ \A i \in 1 .. Len(inbox[target]) : inbox'[target][i] = inbox[target][i]
        /\ inbox'[target][Len(inbox[target]) + 1] = casts
    BY <2>2, <2>5, AppendFacts
  <2>7. \A i, j \in 1 .. Len(inbox'[target]) : i < j => inbox'[target][i] < inbox'[target][j]
    BY <2>1, <2>2, <2>4, <2>6
  <2>. QED
    BY <2>5, <2>7
<1>2. CASE UNCHANGED inbox
  BY <1>2
<1>. QED
  BY <1>1, <1>2
     DEF Next, Connection, Upgrade, UpgradeRefused, Insert, ReadFails, Delete, Peer, Stall,
         Recover, Break, StartRange, Broadcasting, Pick, WriteLost, WriteFails, Drop,
         FinishRange, MapFatal, FatalElsewhere, Rest, vars

\* Every peer receives broadcasts in the order in which they were made, none of
\* them twice, even if a race on the map has gone unnoticed (handleBroadcast).
THEOREM FeedsRise == Spec => []Rising
<1>1. Init => Rising
  BY DEF Init, Rising
<1>2. TypeOK /\ Feed /\ Rising /\ [Next]_vars => Rising'
  BY RisingStep
<1>. QED
  BY <1>1, <1>2, TypeCorrect, FeedHolds, PTL DEF Spec

-----------------------------------------------------------------------------
(* Gaplessness speaks of neighbours in an inbox; put together, a peer has   *)
(* had every broadcast from its first one up to now.                       *)

Straight ==
  ~raced =>
    \A c \in Conns : \A i \in 1 .. Len(inbox[c]) : inbox[c][i] = inbox[c][1] + i - 1

\* A race that has gone unnoticed is remembered.
LEMMA RacedKept ==
  ASSUME TypeOK, [Next]_vars, raced
  PROVE  raced'
BY DEF Next, Connection, Upgrade, UpgradeRefused, Insert, ReadFails, Delete, WriteMap, Peer,
       Stall, Recover, Break, StartRange, Broadcasting, Pick, WriteOk, WriteLost, WriteFails,
       Drop, FinishRange, MapFatal, FatalElsewhere, Rest, vars

LEMMA StraightStep ==
  ASSUME TypeOK, Feed, Straight, [Next]_vars
  PROVE  Straight'
<1>. USE DEF Straight
<1>1. CASE WriteOk
  <2>. DEFINE q == inbox[target]
  <2>1. /\ hub = "write" /\ target \in Conns /\ target \in open /\ health[target] = "ok"
        /\ inbox' = [inbox EXCEPT ![target] = Append(q, casts)]
        /\ raced' = raced
    BY <1>1 DEF WriteOk, TypeOK
  <2>2. /\ q \in Seq(1 .. casts) /\ Len(q) \in Nat
        /\ \A i \in 1 .. Len(q) : q[i] \in 1 .. casts
        /\ casts \in 1 .. casts /\ casts \in Nat
    BY <2>1, InboxFacts DEF TypeOK
  <2>3. /\ inbox'[target] = Append(q, casts)
        /\ \A c \in Conns : c # target => inbox'[c] = inbox[c]
    BY <2>1 DEF TypeOK
  <2>4. /\ Len(inbox'[target]) = Len(q) + 1
        /\ \A i \in 1 .. Len(q) : inbox'[target][i] = q[i]
        /\ inbox'[target][Len(q) + 1] = casts
    BY <2>2, <2>3, AppendFacts
  <2>5. ASSUME ~raced, Len(q) > 0 PROVE casts = q[1] + Len(q)
    <3>1. 1 \in 1 .. Len(q) /\ Len(q) \in 1 .. Len(q)
      BY <2>2, <2>5
    <3>2. q[1] \in Nat /\ q[Len(q)] \in Nat /\ casts \in Nat
      BY <2>2, <3>1
    <3>3. q[Len(q)] = q[1] + Len(q) - 1
      BY <2>1, <2>5, <3>1
    <3>4. Fed(target) /\ Latest(target) = q[Len(q)] /\ Pending(target)
      BY <2>1, <2>5 DEF Fed, Latest, Pending
    <3>5. q[Len(q)] < casts
      BY <2>1, <2>5, <3>4 DEF Feed, NotAhead
    <3>6. q[Len(q)] + 1 = casts
      BY <2>1, <2>5, <3>2, <3>4, <3>5 DEF Feed, UpToDate
    <3>7. Len(q) \in Nat
      BY <2>2
    <3>. HIDE DEF q
    <3>. QED
      BY <3>2, <3>3, <3>6, <3>7
  <2>6. ASSUME ~raced, NEW i \in 1 .. Len(q) + 1
        PROVE  inbox'[target][i] = inbox'[target][1] + i - 1
    <3>0. Len(q) \in Nat /\ casts \in Nat
      BY <2>2
    <3>1. CASE i \in 1 .. Len(q)
      <4>1. q[i] = q[1] + i - 1
        BY <2>1, <2>6, <3>1
      <4>2. inbox'[target][i] = q[i] /\ inbox'[target][1] = q[1]
        BY <2>4, <3>0, <3>1
      <4>. QED
        BY <4>1, <4>2
    <3>2. CASE i = Len(q) + 1 /\ Len(q) > 0
      <4>1. inbox'[target][i] = casts /\ inbox'[target][1] = q[1]
        BY <2>4, <3>0, <3>2
      <4>2. casts = q[1] + Len(q) /\ q[1] \in Nat
        BY <2>2, <2>5, <2>6, <3>2
      <4>. HIDE DEF q
      <4>. QED
        BY <3>0, <3>2, <4>1, <4>2
    <3>3. CASE i = Len(q) + 1 /\ Len(q) = 0
      <4>1. i = 1 /\ inbox'[target][1] = casts
        BY <2>4, <3>3
      <4>. QED
        BY <3>0, <4>1
    <3>. QED
      BY <3>0, <3>1, <3>2, <3>3
  <2>. QED
    BY <2>1, <2>3, <2>4, <2>6
<1>2. CASE UNCHANGED inbox
  BY <1>2, RacedKept DEF TypeOK
<1>. QED
  BY <1>1, <1>2
     DEF Next, Connection, Upgrade, UpgradeRefused, Insert, ReadFails, Delete, Peer, Stall,
         Recover, Break, StartRange, Broadcasting, Pick, WriteLost, WriteFails, Drop,
         FinishRange, MapFatal, FatalElsewhere, Rest, vars

LEMMA StraightHolds == Spec => []Straight
<1>1. Init => Straight
  BY DEF Init, Straight
<1>2. TypeOK /\ Feed /\ Straight /\ [Next]_vars => Straight'
  BY StraightStep
<1>. QED
  BY <1>1, <1>2, TypeCorrect, FeedHolds, PTL DEF Spec

\* A peer that has had a broadcast, and can be written to, has had every one from then
\* on up to the last, except for the one that is being made.
FeedComplete ==
  ~raced =>
    \A c \in Conns : Fed(c) =>
      \A b \in inbox[c][1] .. casts :
        (b = casts /\ hub # "idle") \/ \E i \in 1 .. Len(inbox[c]) : inbox[c][i] = b

\* A browser that stays connected misses no broadcast after its first, as long as no
\* race on the map has gone unnoticed (handleBroadcast, handleConnections).
THEOREM FeedsAreComplete == Spec => []FeedComplete
<1>1. ASSUME TypeOK, Feed, Straight PROVE FeedComplete
  <2>1. SUFFICES ASSUME ~raced, NEW c \in Conns, Fed(c), NEW b \in inbox[c][1] .. casts,
                        ~(b = casts /\ hub # "idle")
                 PROVE  \E i \in 1 .. Len(inbox[c]) : inbox[c][i] = b
    BY DEF FeedComplete
  <2>2. /\ Len(inbox[c]) \in Nat /\ Len(inbox[c]) > 0 /\ casts \in Nat
        /\ inbox[c][1] \in 1 .. casts /\ Latest(c) \in 1 .. casts
    BY <1>1, <2>1, InboxFacts DEF Fed, Latest
  <2>3. b <= Latest(c)
    BY <1>1, <2>1, <2>2 DEF Feed, UpToDate
  <2>4. Latest(c) = inbox[c][1] + Len(inbox[c]) - 1
    BY <1>1, <2>1, <2>2 DEF Straight, Latest
  <2>. DEFINE i == b - inbox[c][1] + 1
  <2>5. i \in 1 .. Len(inbox[c]) /\ b = inbox[c][1] + i - 1
    BY <2>1, <2>2, <2>3, <2>4
  <2>6. inbox[c][i] = b
    BY <1>1, <2>1, <2>5 DEF Straight
  <2>. QED
    BY <2>5, <2>6
<1>. QED
  BY <1>1, TypeCorrect, FeedHolds, StraightHolds, PTL

-----------------------------------------------------------------------------
(* What is behind BroadcastEnds: a range has at most three steps per        *)
(* connection to go, nobody else can add to them, and only a peer that has  *)
(* stopped reading can hold it up.                                         *)

Stage == CASE hub = "write" -> 3 [] hub = "drop" -> 2 [] hub = "range" -> 1 [] hub = "idle" -> 0

\* The steps that are left at most.
Left == 3 * Cardinality(Conns \ visited) + Stage

RangeAdvances ==
  [][hub # "idle" => Left' < Left \/ hub' = "idle" \/ UNCHANGED castVars]_vars

\* The conditions of the broadcast's own steps: the next entry, the end of the range, the
\* write and the removal.
CanGoOn ==
  \/ hub = "range" /\ (clients \ visited # {} \/ owed \cap clients = {} \/ raced)
  \/ hub = "write" /\ (target \notin open \/ health[target] \in {"ok", "broken"})
  \/ hub = "drop"

OnlyPeersBlock ==
  hub # "idle" => CanGoOn \/ (hub = "write" /\ target \in open /\ health[target] = "stalled")

LEMMA PickShrinks ==
  ASSUME IsFiniteSet(Conns), TypeOK, NEW c \in Conns, Pick(c)
  PROVE  /\ Cardinality(Conns \ visited) \in Nat
         /\ Cardinality(Conns \ visited)' = Cardinality(Conns \ visited) - 1
<1>1. IsFiniteSet(Conns \ visited)
  BY FS_Difference
<1>2. c \in Conns \ visited /\ (Conns \ visited)' = (Conns \ visited) \ {c}
  BY DEF Pick
<1>. QED
  BY <1>1, <1>2, FS_RemoveElement, FS_CardinalityType

LEMMA RangeAdvancesStep ==
  ASSUME IsFiniteSet(Conns), TypeOK, [Next]_vars, hub # "idle"
  PROVE  Left' < Left \/ hub' = "idle" \/ UNCHANGED castVars
<1>0. /\ Cardinality(Conns \ visited) \in Nat
      /\ hub \in {"range", "write", "drop"}
  BY FS_Difference, FS_CardinalityType DEF TypeOK
<1>1. ASSUME NEW c \in Conns, Pick(c) PROVE Left' < Left
  <2>1. Stage = 1 /\ Stage' = 3
    BY <1>1 DEF Pick, Stage
  <2>. DEFINE n == Cardinality(Conns \ visited)
  <2>2. n \in Nat /\ n' = n - 1
    BY <1>0, <1>1, PickShrinks
  <2>3. Left = 3 * n + Stage /\ Left' = 3 * n' + Stage'
    BY DEF Left
  <2>. HIDE DEF n
  <2>. QED
    BY <2>1, <2>2, <2>3
<1>2. CASE WriteOk \/ WriteLost \/ WriteFails \/ Drop
  <2>1. /\ visited' = visited
        /\ \/ hub = "write" /\ hub' \in {"range", "drop"}
           \/ hub = "drop" /\ hub' = "range"
    BY <1>2 DEF WriteOk, WriteLost, WriteFails, Drop
  <2>2. Cardinality(Conns \ visited)' = Cardinality(Conns \ visited)
    BY <2>1
  <2>3. Stage \in Nat /\ Stage' \in Nat /\ Stage' < Stage
    BY <2>1 DEF Stage
  <2>. QED
    BY <1>0, <2>2, <2>3 DEF Left
<1>3. CASE FinishRange
  BY <1>3 DEF FinishRange
<1>4. CASE UNCHANGED castVars
  BY <1>4
<1>. QED
  BY <1>1, <1>2, <1>3, <1>4
     DEF Next, Connection, Upgrade, UpgradeRefused, Insert, ReadFails, Delete, Peer, Stall,
         Recover, Break, StartRange, Broadcasting, MapFatal, FatalElsewhere, Rest, vars, castVars

\* While a broadcast lasts, every step of the bridge brings its end nearer, ends it, or has
\* nothing to do with it, even with races on the map; and if it cannot go on, that is
\* because the peer it is writing to has stopped reading (handleBroadcast: WriteMessage has
\* no deadline).
THEOREM BroadcastsAdvance ==
  ASSUME IsFiniteSet(Conns)
  PROVE  Spec => [](Left \in Nat) /\ RangeAdvances /\ []OnlyPeersBlock
<1>0. ASSUME TypeOK PROVE Left \in Nat
  <2>1. IsFiniteSet(Conns \ visited)
    BY FS_Subset
  <2>2. Cardinality(Conns \ visited) \in Nat
    BY <2>1, FS_CardinalityType
  <2>3. Stage \in Nat
    BY <1>0 DEF TypeOK, Stage
  <2>. QED
    BY <2>2, <2>3 DEF Left
<1>1. ASSUME TypeOK PROVE OnlyPeersBlock
  BY <1>1 DEF TypeOK, OnlyPeersBlock, CanGoOn
<1>2. TypeOK /\ [Next]_vars =>
        [hub # "idle" => Left' < Left \/ hub' = "idle" \/ UNCHANGED castVars]_vars
  BY RangeAdvancesStep
<1>. QED
  BY <1>0, <1>1, <1>2, TypeCorrect, PTL DEF Spec, RangeAdvances
=============================================================================
