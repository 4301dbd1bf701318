---------------------------- MODULE DomainPoller ----------------------------
(***************************************************************************)
(* Who is subscribed to what.  pollDomains reads the domains from the auth  *)
(* database every five seconds; if their number is not the one it knows, it *)
(* disconnects every MQTT client it has made and makes one for every domain *)
(* it has read, each connecting and then subscribing to the channel of the  *)
(* domain's comID.  The calls wait for the broker, so each is a step.       *)
(*                                                                         *)
(* Of the client library there is what the options set in the code ask for: *)
(* it connects again on its own when the connection is lost, in a clean     *)
(* session, so that its subscription is gone.                               *)
(***************************************************************************)
EXTENDS Naturals, Sequences, FiniteSets

CONSTANTS
  Domains,   \* the rows of the table domains, there or not
  Coms,      \* comIDs
  ComOf,     \* the comID of each domain
  NoDomain,  \* no domain
  MaxEdits   \* bound: domains created and removed

ASSUME PollerAssumption ==
  /\ IsFiniteSet(Domains)
  /\ ComOf \in [Domains -> Coms]
  /\ NoDomain \notin Domains
  /\ MaxEdits \in Nat

VARIABLES
  alive,        \* FALSE once log.Fatal has ended the process
  domains,      \* the domains in the table that have a comID
  edits,        \* changes of the table so far
  phase,        \* where queryDomains is
  found,        \* the domains the last query has read
  comIDs,       \* the domains whose comIDs are kept from the last poll
  todo,         \* domains found that have no client yet
  making,       \* the domain whose client is being made
  made,         \* every client ever made, with its connection
  mqttClients,  \* the clients kept, by number; 0 for nil
  next,         \* the entry of mqttClients to disconnect
  basis,        \* the domains of the last poll that found another number
  troubled      \* since then a call has failed or a connection was lost

tableVars == <<domains, edits>>
pollVars == <<phase, found, comIDs, todo, making, mqttClients, next, basis>>
vars == <<alive, tableVars, pollVars, made, troubled>>

TypeOK ==
  /\ alive \in BOOLEAN
  /\ domains \subseteq Domains
  /\ edits \in Nat
  /\ phase \in {"idle", "disconnect", "connect", "subscribe"}
  /\ found \subseteq Domains
  /\ comIDs \subseteq Domains
  /\ todo \subseteq found
  /\ phase = "idle" => todo = {}
  /\ IF phase = "subscribe"
     THEN making \in todo /\ made # <<>> /\ made[Len(made)].com = ComOf[making]
     ELSE making = NoDomain
  /\ made \in Seq([com : Coms, link : {"up", "lost", "off"}, sub : BOOLEAN])
  /\ mqttClients \in Seq(0 .. Len(made))
  /\ next \in 1 .. Len(mqttClients) + 1
  /\ basis \subseteq Domains
  /\ troubled \in BOOLEAN

Init ==
  /\ alive = TRUE
  /\ domains \in SUBSET Domains
  /\ edits = 0
  /\ phase = "idle"
  /\ found = {}
  /\ comIDs = {}
  /\ todo = {}
  /\ making = NoDomain
  /\ made = <<>>
  /\ mqttClients = <<>>
  /\ next = 1
  /\ basis = {}
  /\ troubled = FALSE

-----------------------------------------------------------------------------
\* The clients, with the connection and the subscription of client i changed.
Linked(i, l, s) == [made EXCEPT ![i] = [com |-> made[i].com, link |-> l, sub |-> s]]

(* queryDomains.                                                           *)

\* As many domains as last time: they are kept, whichever they are.
QueryUnchanged ==
  /\ phase = "idle"
  /\ Cardinality(domains) = Cardinality(comIDs)
  /\ found' = domains
  /\ comIDs' = domains
  /\ UNCHANGED <<alive, tableVars, phase, todo, making, mqttClients, next, basis, made, troubled>>

\* A slip: the domains known from before get a client again.
QueryChangedKeepsOld ==
  /\ phase = "idle"
  /\ Cardinality(domains) # Cardinality(comIDs)
  /\ phase' = "disconnect"
  /\ found' = domains
  /\ todo' = domains \cup comIDs
  /\ next' = 1
  /\ basis' = domains
  /\ troubled' = FALSE
  /\ UNCHANGED <<alive, tableVars, comIDs, making, mqttClients, made>>

\* A slip: only the domains that are new get a client.
QueryChangedAddsNew ==
  /\ phase = "idle"
  /\ Cardinality(domains) # Cardinality(comIDs)
  /\ phase' = "disconnect"
  /\ found' = domains
  /\ todo' = domains \ comIDs
  /\ next' = 1
  /\ basis' = domains
  /\ troubled' = FALSE
  /\ UNCHANGED <<alive, tableVars, comIDs, making, mqttClients, made>>

\* Another number of domains: all clients are to go, and new ones to come.
QueryChanged ==
  /\ phase = "idle"
  /\ Cardinality(domains) # Cardinality(comIDs)
  /\ phase' = "disconnect"
  /\ found' = domains
  /\ todo' = domains
  /\ next' = 1
  /\ basis' = domains
  /\ troubled' = FALSE
  /\ UNCHANGED <<alive, tableVars, comIDs, making, mqttClients, made>>

\* log.Fatal
QueryFails ==
  /\ phase = "idle"
  /\ alive' = FALSE
  /\ UNCHANGED <<tableVars, pollVars, made, troubled>>

\* disconnectFromMQTT, for the next client kept; nothing for nil.
Disconnect ==
  /\ phase = "disconnect"
  /\ next <= Len(mqttClients)
  /\ LET i == mqttClients[next]
     IN  made' = IF i = 0 THEN made ELSE Linked(i, "off", FALSE)
  /\ next' = next + 1
  /\ UNCHANGED <<alive, tableVars, phase, found, comIDs, todo, making, mqttClients, basis, troubled>>

\* A slip: the last client kept is passed over.
DisconnectedButLast ==
  /\ phase = "disconnect"
  /\ next >= Len(mqttClients)
  /\ phase' = "connect"
  /\ next' = 1
  /\ UNCHANGED <<alive, tableVars, found, comIDs, todo, making, mqttClients, basis, made, troubled>>

\* All of them have been disconnected; they stay in mqttClients.
Disconnected ==
  /\ phase = "disconnect"
  /\ next > Len(mqttClients)
  /\ phase' = "connect"
  /\ next' = 1
  /\ UNCHANGED <<alive, tableVars, found, comIDs, todo, making, mqttClients, basis, made, troubled>>

-----------------------------------------------------------------------------
(* subscribeToMQTTTopic, for domain d.                                     *)

Connect(d) ==
  /\ phase = "connect"
  /\ d \in todo
  /\ made' = Append(made, [com |-> ComOf[d], link |-> "up", sub |-> FALSE])
  /\ making' = d
  /\ phase' = "subscribe"
  /\ UNCHANGED <<alive, tableVars, found, comIDs, todo, mqttClients, next, basis, troubled>>

ConnectFails(d) ==
  /\ phase = "connect"
  /\ d \in todo
  /\ mqttClients' = Append(mqttClients, 0)
  /\ todo' = todo \ {d}
  /\ troubled' = TRUE
  /\ UNCHANGED <<alive, tableVars, phase, found, comIDs, making, next, basis, made>>

Subscribe ==
  /\ phase = "subscribe"
  /\ made[Len(made)].link = "up"
  /\ made' = Linked(Len(made), "up", TRUE)
  /\ mqttClients' = Append(mqttClients, Len(made))
  /\ todo' = todo \ {making}
  /\ making' = NoDomain
  /\ phase' = "connect"
  /\ UNCHANGED <<alive, tableVars, found, comIDs, next, basis, troubled>>

\* The client stays connected, and is not kept.
SubscribeFails ==
  /\ phase = "subscribe"
  /\ mqttClients' = Append(mqttClients, 0)
  /\ todo' = todo \ {making}
  /\ making' = NoDomain
  /\ phase' = "connect"
  /\ troubled' = TRUE
  /\ UNCHANGED <<alive, tableVars, found, comIDs, next, basis, made>>

\* A slip: if no domain was found the mutex is not unlocked, and the next poll
\* waits for it.
DoneKeepsLock ==
  /\ phase = "connect"
  /\ todo = {}
  /\ found # {}
  /\ comIDs' = found
  /\ phase' = "idle"
  /\ UNCHANGED <<alive, tableVars, found, todo, making, mqttClients, next, basis, made, troubled>>

\* comIDs = newComIDs
Done ==
  /\ phase = "connect"
  /\ todo = {}
  /\ comIDs' = found
  /\ phase' = "idle"
  /\ UNCHANGED <<alive, tableVars, found, todo, making, mqttClients, next, basis, made, troubled>>

-----------------------------------------------------------------------------
(* The table, the connections, the rest of the process.                    *)

\* The platform creates or removes a domain.
EditDomains(d) ==
  /\ edits < MaxEdits
  /\ edits' = edits + 1
  /\ domains' = IF d \in domains THEN domains \ {d} ELSE domains \cup {d}
  /\ UNCHANGED <<alive, pollVars, made, troubled>>

ConnectionLost(i) ==
  /\ made[i].link = "up"
  /\ made' = Linked(i, "lost", FALSE)
  /\ troubled' = TRUE
  /\ UNCHANGED <<alive, tableVars, pollVars>>

\* SetAutoReconnect(true): the client connects again, and is subscribed to nothing.
Reconnect(i) ==
  /\ made[i].link = "lost"
  /\ made' = Linked(i, "up", FALSE)
  /\ UNCHANGED <<alive, tableVars, pollVars, troubled>>

FatalElsewhere ==
  /\ alive' = FALSE
  /\ UNCHANGED <<tableVars, pollVars, made, troubled>>

queryDomains ==
  \/ QueryUnchanged
  \/ QueryChanged
  \/ QueryFails
  \/ Disconnect
  \/ Disconnected
  \/ \E d \in Domains : Connect(d) \/ ConnectFails(d)
  \/ Subscribe
  \/ SubscribeFails
  \/ Done

\* A process that has ended does nothing more.
Rest == ~alive /\ UNCHANGED vars

Next ==
  \/ /\ alive
     /\ \/ queryDomains
        \/ \E d \in Domains : EditDomains(d)
        \/ \E i \in DOMAIN made : ConnectionLost(i) \/ Reconnect(i)
        \/ FatalElsewhere
  \/ Rest

Spec == Init /\ [][Next]_vars

\* The poller sleeps and goes on; a call of the broker or the database returns.
FairSpec == Spec /\ WF_vars(alive /\ queryDomains)

-----------------------------------------------------------------------------
(* Properties.                                                             *)

\* No two domains have one comID.
DistinctComs == \A d, e \in Domains : ComOf[d] = ComOf[e] => d = e

Subscribed == {i \in DOMAIN made : made[i].sub}

\* However domains come and go and calls fail, no comID has two subscriptions:
\* no message comes in twice.  It needs DistinctComs (queryDomains).
OneSubscription ==
  \A i, j \in Subscribed : made[i].com = made[j].com => i = j

\* Once the old clients are gone, the bridge listens to no domain that the poll
\* that made the clients has not found (queryDomains).
OnlyFoundDomains ==
  phase # "disconnect" => \A i \in Subscribed : \E d \in basis : made[i].com = ComOf[d]

\* After a poll that found another number of domains, if no call has failed and
\* no connection was lost, the bridge listens to all it found (queryDomains).
FoundDomainsServed ==
  phase = "idle" /\ ~troubled =>
    \A d \in basis : \E i \in Subscribed : made[i].com = ComOf[d]

\* A poll ends, and another number of domains is noticed: the numbers agree in
\* the end, unless the process has (pollDomains).
PollCatchesUp ==
  Cardinality(domains) # Cardinality(comIDs) ~>
    Cardinality(domains) = Cardinality(comIDs) \/ ~alive
=============================================================================
