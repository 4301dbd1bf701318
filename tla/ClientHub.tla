----------------------------- MODULE ClientHub -----------------------------
(***************************************************************************)
(* The WebSocket side of the bridge: the map clients, the goroutine of each *)
(* connection (handleConnections), which enters its socket into the map,    *)
(* reads until the socket fails and takes it out again, and the broadcast   *)
(* (handleBroadcast), which ranges over the map, writes to every socket and *)
(* closes and removes the ones that fail.  No lock protects the map.        *)
(*                                                                         *)
(* An access to the map lasts: it spans the states of its goroutine named   *)
(* after it.  Two accesses at once, one of them a write, are a data race,   *)
(* with the outcomes the Go runtime has for it: it sees the race and ends   *)
(* the process, or it does not, and a write may be lost.  A write to a      *)
(* socket has no deadline: it waits for as long as the peer does not read.  *)
(* What a client sends is parsed and forgotten, so it is not modelled.      *)
(***************************************************************************)
EXTENDS Naturals, Sequences, FiniteSets

CONSTANTS
  Conns,     \* the connections browsers make
  NoConn,    \* no connection
  MaxCasts   \* bound: broadcasts

ASSUME HubAssumption ==
  /\ NoConn \notin Conns
  /\ MaxCasts \in Nat

VARIABLES
  alive,     \* FALSE once the process has ended
  place,     \* where each connection's goroutine is
  health,    \* the peer of each connection: reading, not reading, or gone
  open,      \* the sockets the bridge has not closed
  clients,   \* the map clients: the sockets a broadcast reaches
  hub,       \* where handleBroadcast is
  target,    \* the socket it writes to or removes
  casts,     \* broadcasts begun so far; the last one is the current one
  owed,      \* sockets in the map when the range began, not yet visited
  visited,   \* sockets the range has visited
  inbox,     \* the broadcasts each peer has received, in order
  raced      \* TRUE once a race on the map has gone unnoticed

connVars == <<place, health>>
castVars == <<hub, target, casts, owed, visited>>
vars == <<alive, place, health, open, clients, hub, target, casts, owed,
          visited, inbox, raced>>

Places == {"fresh", "inserting", "reading", "deleting", "closed"}

TypeOK ==
  /\ alive \in BOOLEAN
  /\ place \in [Conns -> Places]
  /\ health \in [Conns -> {"ok", "stalled", "broken"}]
  /\ open \subseteq {c \in Conns : place[c] \notin {"fresh", "closed"}}
  /\ clients \subseteq Conns
  /\ hub \in {"idle", "range", "write", "drop"}
  /\ IF hub \in {"write", "drop"} THEN target \in visited ELSE target = NoConn
  /\ casts \in Nat
  /\ hub # "idle" => casts > 0
  /\ owed \subseteq Conns \ visited
  /\ visited \subseteq Conns
  /\ inbox \in [Conns -> Seq(1 .. casts)]
  /\ raced \in BOOLEAN

Init ==
  /\ alive = TRUE
  /\ place = [c \in Conns |-> "fresh"]
  /\ health = [c \in Conns |-> "ok"]
  /\ open = {}
  /\ clients = {}
  /\ hub = "idle"
  /\ target = NoConn
  /\ casts = 0
  /\ owed = {}
  /\ visited = {}
  /\ inbox = [c \in Conns |-> <<>>]
  /\ raced = FALSE

-----------------------------------------------------------------------------
(* Races on the map.                                                       *)

\* Connections whose goroutine is writing to the map.
Writers == {c \in Conns : place[c] \in {"inserting", "deleting"}}

\* The broadcast is at the map: the range takes its next entry, or an entry
\* is deleted.
HubAtMap == hub \in {"range", "drop"}

\* c's write to the map overlaps another access.
Contended(c) == Writers \ {c} # {} \/ HubAtMap

\* The map becomes m; the write is lost if it raced unseen.
WriteMap(m, contended) ==
  \/ clients' = m /\ UNCHANGED raced
  \/ contended /\ raced' = TRUE /\ UNCHANGED clients

\* The runtime notices two accesses at once and ends the process.
MapFatal ==
  /\ \E c \in Writers : Contended(c)
  /\ alive' = FALSE
  /\ UNCHANGED <<connVars, open, clients, castVars, inbox, raced>>

-----------------------------------------------------------------------------
(* handleConnections, run by connection c's goroutine.                     *)

Upgrade(c) ==
  /\ place[c] = "fresh"
  /\ place' = [place EXCEPT ![c] = "inserting"]
  /\ open' = open \cup {c}
  /\ UNCHANGED <<alive, health, clients, castVars, inbox, raced>>

\* A request on /websocket that is no WebSocket handshake ends the process.
UpgradeRefused(c) ==
  /\ place[c] = "fresh"
  /\ alive' = FALSE
  /\ UNCHANGED <<connVars, open, clients, castVars, inbox, raced>>

\* clients[ws] = true
Insert(c) ==
  /\ place[c] = "inserting"
  /\ WriteMap(clients \cup {c}, Contended(c))
  /\ place' = [place EXCEPT ![c] = "reading"]
  /\ UNCHANGED <<alive, health, open, castVars, inbox>>

\* A slip: the goroutine leaves without delete(clients, ws).
ReadFailsForgets(c) ==
  /\ place[c] = "reading"
  /\ health[c] = "broken" \/ c \notin open
  /\ place' = [place EXCEPT ![c] = "closed"]
  /\ open' = open \ {c}
  /\ UNCHANGED <<alive, health, clients, castVars, inbox, raced>>

\* ReadMessage fails: the peer is gone, or the broadcast closed the socket.
ReadFails(c) ==
  /\ place[c] = "reading"
  /\ health[c] = "broken" \/ c \notin open
  /\ place' = [place EXCEPT ![c] = "deleting"]
  /\ UNCHANGED <<alive, health, open, clients, castVars, inbox, raced>>

\* A slip: the deferred ws.Close() is missing.
DeleteKeepsSocket(c) ==
  /\ place[c] = "deleting"
  /\ WriteMap(clients \ {c}, Contended(c))
  /\ place' = [place EXCEPT ![c] = "closed"]
  /\ UNCHANGED <<alive, health, open, castVars, inbox>>

\* delete(clients, ws), and the deferred ws.Close().
Delete(c) ==
  /\ place[c] = "deleting"
  /\ WriteMap(clients \ {c}, Contended(c))
  /\ place' = [place EXCEPT ![c] = "closed"]
  /\ open' = open \ {c}
  /\ UNCHANGED <<alive, health, castVars, inbox>>

-----------------------------------------------------------------------------
(* handleBroadcast, run by the goroutine of handleMessages.                *)

StartRange ==
  /\ hub = "idle"
  /\ casts < MaxCasts
  /\ casts' = casts + 1
  /\ hub' = "range"
  /\ owed' = clients
  /\ visited' = {}
  /\ UNCHANGED <<alive, connVars, open, clients, target, inbox, raced>>

\* The range takes an entry: one it has not had, and that is in the map.
Pick(c) ==
  /\ hub = "range"
  /\ c \in clients \ visited
  /\ hub' = "write"
  /\ target' = c
  /\ visited' = visited \cup {c}
  /\ owed' = owed \ {c}
  /\ UNCHANGED <<alive, connVars, open, clients, casts, inbox, raced>>

\* WriteMessage hands the broadcast to a peer that reads.
WriteOk ==
  /\ hub = "write"
  /\ target \in open
  /\ health[target] = "ok"
  /\ inbox' = [inbox EXCEPT ![target] = Append(@, casts)]
  /\ hub' = "range"
  /\ target' = NoConn
  /\ UNCHANGED <<alive, connVars, open, clients, casts, owed, visited, raced>>

\* The peer is gone, but the system still takes the bytes.
WriteLost ==
  /\ hub = "write"
  /\ target \in open
  /\ health[target] = "broken"
  /\ hub' = "range"
  /\ target' = NoConn
  /\ UNCHANGED <<alive, connVars, open, clients, casts, owed, visited, inbox, raced>>

\* A slip: the failed socket is not closed.
WriteFailsNoClose ==
  /\ hub = "write"
  /\ target \notin open \/ health[target] = "broken"
  /\ hub' = "drop"
  /\ UNCHANGED <<alive, connVars, open, clients, target, casts, owed, visited, inbox, raced>>

\* A slip: the first failure ends the broadcast.
WriteFailsReturns ==
  /\ hub = "write"
  /\ target \notin open \/ health[target] = "broken"
  /\ open' = open \ {target}
  /\ clients' = clients \ {target}
  /\ hub' = "idle"
  /\ target' = NoConn
  /\ owed' = {}
  /\ visited' = {}
  /\ UNCHANGED <<alive, connVars, casts, inbox, raced>>

\* A slip: the write is tried again until it succeeds.
WriteFailsRetries ==
  /\ hub = "write"
  /\ target \notin open \/ health[target] = "broken"
  /\ open' = open \ {target}
  /\ UNCHANGED <<alive, connVars, clients, castVars, inbox, raced>>

\* WriteMessage fails; client.Close().
WriteFails ==
  /\ hub = "write"
  /\ target \notin open \/ health[target] = "broken"
  /\ open' = open \ {target}
  /\ hub' = "drop"
  /\ UNCHANGED <<alive, connVars, clients, target, casts, owed, visited, inbox, raced>>

\* delete(clients, client)
Drop ==
  /\ hub = "drop"
  /\ WriteMap(clients \ {target}, Writers # {})
  /\ hub' = "range"
  /\ target' = NoConn
  /\ UNCHANGED <<alive, connVars, open, casts, owed, visited, inbox>>

\* The range ends when it has had every entry that was there when it began and
\* still is; entries that came later it may have had or not.
FinishRange ==
  /\ hub = "range"
  /\ owed \cap clients = {} \/ raced
  /\ hub' = "idle"
  /\ owed' = {}
  /\ visited' = {}
  /\ UNCHANGED <<alive, connVars, open, clients, target, casts, inbox, raced>>

-----------------------------------------------------------------------------
(* The peers, and the rest of the process.                                 *)

Connected(c) == place[c] \notin {"fresh", "closed"}

Stall(c) ==
  /\ Connected(c)
  /\ health[c] = "ok"
  /\ health' = [health EXCEPT ![c] = "stalled"]
  /\ UNCHANGED <<alive, place, open, clients, castVars, inbox, raced>>

Recover(c) ==
  /\ Connected(c)
  /\ health[c] = "stalled"
  /\ health' = [health EXCEPT ![c] = "ok"]
  /\ UNCHANGED <<alive, place, open, clients, castVars, inbox, raced>>

Break(c) ==
  /\ Connected(c)
  /\ health[c] # "broken"
  /\ health' = [health EXCEPT ![c] = "broken"]
  /\ UNCHANGED <<alive, place, open, clients, castVars, inbox, raced>>

\* log.Fatal or a panic in another part of the process.
FatalElsewhere ==
  /\ alive' = FALSE
  /\ UNCHANGED <<connVars, open, clients, castVars, inbox, raced>>

Connection(c) == Upgrade(c) \/ UpgradeRefused(c) \/ Insert(c) \/ ReadFails(c) \/ Delete(c)
Peer(c) == Stall(c) \/ Recover(c) \/ Break(c)

Broadcasting ==
  \/ \E c \in Conns : Pick(c)
  \/ WriteOk
  \/ WriteLost
  \/ WriteFails
  \/ Drop

\* A process that has ended does nothing more.
Rest == ~alive /\ UNCHANGED vars

Next ==
  \/ /\ alive
     /\ \/ \E c \in Conns : Connection(c) \/ Peer(c)
        \/ StartRange
        \/ Broadcasting
        \/ FinishRange
        \/ MapFatal
        \/ FatalElsewhere
  \/ Rest

Spec == Init /\ [][Next]_vars

-----------------------------------------------------------------------------
(* Fairness.  A goroutine that can go on does.  The write to a socket goes   *)
(* on whenever its peer reads, were it only now and then: strong fairness.   *)
(* Nothing is assumed of browsers: they may never read, leave or come.       *)
Running(A) == alive /\ A

ConnFairness(c) ==
  /\ WF_vars(Running(Insert(c)))
  /\ WF_vars(Running(ReadFails(c)))
  /\ WF_vars(Running(Delete(c)))

RangeFairness ==
  /\ WF_vars(Running(\E c \in Conns : Pick(c)))
  /\ SF_vars(Running(WriteOk))
  /\ WF_vars(Running(WriteLost \/ WriteFails))
  /\ WF_vars(Running(Drop))
  /\ WF_vars(Running(FinishRange))

FairSpec == Spec /\ RangeFairness /\ \A c \in Conns : ConnFairness(c)

-----------------------------------------------------------------------------
(* Properties.                                                             *)

\* c has been written to, and still can be.
Fed(c) == Len(inbox[c]) > 0 /\ c \in open /\ health[c] # "broken"

\* From the first broadcast it receives on, a client misses none, gets none
\* twice and none out of order, until its connection is over (handleBroadcast).
FeedGapless ==
  ~raced =>
    \A c \in Conns : \A i \in 1 .. Len(inbox[c]) - 1 : inbox[c][i + 1] = inbox[c][i] + 1

\* A connection that is being read and whose socket is open is in the map: no
\* browser believes itself connected and is never written to again
\* (handleConnections, handleBroadcast).
NoDeafClient ==
  ~raced => \A c \in Conns : place[c] = "reading" /\ c \in open => c \in clients

\* The map holds no connection whose goroutine is gone, so it does not grow with
\* every page a browser reloads (handleConnections).
NoLeakedClient ==
  ~raced => \A c \in clients : place[c] \in {"reading", "deleting"}

\* A client whose peer is gone leaves the map, with or without a broadcast.
BrokenClientRemoved ==
  \A c \in Conns :
    health[c] = "broken" /\ c \in clients ~> c \notin clients \/ raced \/ ~alive

\* No peer stops reading for good.
PeersRead == \A c \in Conns : []<>(health[c] # "stalled")

\* If no peer stops reading for good, every broadcast ends (handleBroadcast).
BroadcastEnds == PeersRead => (hub # "idle" ~> hub = "idle" \/ ~alive)
=============================================================================
