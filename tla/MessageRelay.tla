---------------------------- MODULE MessageRelay ----------------------------
(***************************************************************************)
(* The relay between MQTT and the rest of the bridge: the message callback *)
(* messagePubHandler, which one goroutine per MQTT client runs, the        *)
(* history it shares under messageHistory's lock, the two unbuffered       *)
(* channels broadcast and dbUpdateChan, and the goroutine handleMessages   *)
(* that receives from both.                                                *)
(*                                                                         *)
(* A key is what the code uses as one: topic and payload together.  The    *)
(* two locked sections are single steps, everything between them is not.   *)
(* A channel without a buffer is a rendezvous: sending and receiving is    *)
(* one step of both goroutines.  What handleMessages does with a message   *)
(* it has received is one step here; ClientHub opens the broadcast up.     *)
(***************************************************************************)
EXTENDS Naturals, Sequences

CONSTANTS
  Subscribers,  \* the MQTT clients, each with its callback goroutine
  Keys,         \* topic and payload of a message
  Route,        \* Route[k]: the subscribers whose filter matches k's topic
  Silent,       \* keys with nothing to announce: the payload is rejected by
                \* parseMessage, or its content has no JSON form
  Stored,       \* keys whose payload handleDBUpdate stores: logins, device infos
  Window,       \* the two seconds of the duplicate check, in ticks
  NoStamp,      \* the time stamp of a key the history does not hold
  MaxMsgs,      \* bound: messages the brokers deliver
  MaxTime       \* bound: ticks of the clock

ASSUME RelayAssumption ==
  /\ Route \in [Keys -> SUBSET Subscribers]
  /\ Silent \subseteq Keys
  /\ Stored \subseteq Keys
  /\ Window \in Nat
  /\ NoStamp \notin Nat
  /\ MaxMsgs \in Nat
  /\ MaxTime \in Nat

VARIABLES
  now,        \* the monotonic clock
  alive,      \* FALSE once log.Fatal has ended the process
  history,    \* messageHistory.m: key -> time of its last broadcast
  pc,         \* where each subscriber's callback is
  cur,        \* the message each callback has in hand, 0 when none
  seen,       \* the time stamp each callback read from history
  chan,       \* where handleMessages is: at the select, or in one of its cases
  inHand,     \* the message handleMessages has received, 0 at the select
  log,        \* every message delivered so far: key, subscriber, arrival time
  stamp,      \* per message: when the callback recorded it for broadcast
  announced,  \* messages handleBroadcast has written out
  applied     \* messages the database case has finished

handlerVars == <<history, pc, cur, seen, log, stamp>>
dispatchVars == <<chan, inHand, announced, applied>>
vars == <<now, alive, history, pc, cur, seen, chan, inHand, log, stamp,
          announced, applied>>

Msgs == DOMAIN log
Key(m) == log[m].key

\* The payload is a message of a kind parseMessage knows, and parses as one.
Parses(k) == k \notin Silent

TypeOK ==
  /\ now \in Nat
  /\ alive \in BOOLEAN
  /\ history \in [Keys -> (0 .. now) \cup {NoStamp}]
  /\ pc \in [Subscribers ->
              {"idle", "lookup", "decide", "record", "cast", "db"}]
  /\ cur \in [Subscribers -> Nat]
  /\ \A s \in Subscribers : IF pc[s] = "idle" THEN cur[s] = 0 ELSE cur[s] \in Msgs
  /\ seen \in [Subscribers -> (0 .. now) \cup {NoStamp}]
  /\ chan \in {"select", "cast", "db"}
  /\ IF chan = "select" THEN inHand = 0 ELSE inHand \in Msgs
  /\ log \in Seq([key : Keys, sub : Subscribers, at : Nat])
  /\ Len(log) <= MaxMsgs
  /\ \A m \in Msgs : log[m].at <= now
  /\ stamp \in [1 .. MaxMsgs -> (0 .. now) \cup {NoStamp}]
  /\ announced \subseteq Msgs
  /\ applied \subseteq Msgs

Init ==
  /\ now = 0
  /\ alive = TRUE
  /\ history = [k \in Keys |-> NoStamp]
  /\ pc = [s \in Subscribers |-> "idle"]
  /\ cur = [s \in Subscribers |-> 0]
  /\ seen = [s \in Subscribers |-> NoStamp]
  /\ chan = "select"
  /\ inHand = 0
  /\ log = <<>>
  /\ stamp = [m \in 1 .. MaxMsgs |-> NoStamp]
  /\ announced = {}
  /\ applied = {}

-----------------------------------------------------------------------------
(* messagePubHandler, run by subscriber s's goroutine.                     *)

\* The client calls the callback with the next message of a topic it gets.
Deliver(s, k) ==
  /\ pc[s] = "idle"
  /\ s \in Route[k]
  /\ Len(log) < MaxMsgs
  /\ log' = Append(log, [key |-> k, sub |-> s, at |-> now])
  /\ cur' = [cur EXCEPT ![s] = Len(log) + 1]
  /\ pc' = [pc EXCEPT ![s] = "lookup"]
  /\ UNCHANGED <<now, alive, history, seen, stamp, dispatchVars>>

\* Under the read lock: the time stamp of the key, if there is one.
ReadHistory(s) ==
  /\ pc[s] = "lookup"
  /\ seen' = [seen EXCEPT ![s] = history[Key(cur[s])]]
  /\ pc' = [pc EXCEPT ![s] = "decide"]
  /\ UNCHANGED <<now, alive, history, cur, log, stamp, dispatchVars>>

\* A slip for the properties to catch: an entry never grows old.
RecentForever(t) == t # NoStamp
\* A slip: the window is one tick short.
RecentTooShort(t) == t # NoStamp /\ now - t + 1 < Window

\* exists && time.Since(timestamp) < 2*time.Second
Recent(t) == t # NoStamp /\ now - t < Window

\* A slip: a duplicate is dropped altogether.
SuppressAndDrop(s) ==
  /\ pc[s] = "decide"
  /\ Recent(seen[s])
  /\ pc' = [pc EXCEPT ![s] = "idle"]
  /\ cur' = [cur EXCEPT ![s] = 0]
  /\ UNCHANGED <<now, alive, history, seen, log, stamp, dispatchVars>>

\* A duplicate is not broadcast, it only goes to the database.
Suppress(s) ==
  /\ pc[s] = "decide"
  /\ Recent(seen[s])
  /\ pc' = [pc EXCEPT ![s] = "db"]
  /\ UNCHANGED <<now, alive, history, cur, seen, log, stamp, dispatchVars>>

\* Anything else goes on to be recorded; the clock may move in between.
Admit(s) ==
  /\ pc[s] = "decide"
  /\ ~Recent(seen[s])
  /\ pc' = [pc EXCEPT ![s] = "record"]
  /\ UNCHANGED <<now, alive, history, cur, seen, log, stamp, dispatchVars>>

\* A slip: the history keeps the time the entry expires.
RecordDeadline(s) ==
  /\ pc[s] = "record"
  /\ history' = [history EXCEPT ![Key(cur[s])] = now + Window]
  /\ stamp' = [stamp EXCEPT ![cur[s]] = now]
  /\ pc' = [pc EXCEPT ![s] = "cast"]
  /\ UNCHANGED <<now, alive, cur, seen, log, dispatchVars>>

\* Under the write lock: the key's time stamp is the time of this step.
RecordHistory(s) ==
  /\ pc[s] = "record"
  /\ history' = [history EXCEPT ![Key(cur[s])] = now]
  /\ stamp' = [stamp EXCEPT ![cur[s]] = now]
  /\ pc' = [pc EXCEPT ![s] = "cast"]
  /\ UNCHANGED <<now, alive, cur, seen, log, dispatchVars>>

\* A slip: the callback sends the message once more.
SendBroadcastAgain(s) ==
  /\ pc[s] = "cast"
  /\ chan = "select"
  /\ chan' = "cast"
  /\ inHand' = cur[s]
  /\ pc' \in {pc, [pc EXCEPT ![s] = "db"]}
  /\ UNCHANGED <<now, alive, history, cur, seen, log, stamp, announced, applied>>

\* broadcast <- payload meets case payload := <-broadcast.
SendBroadcast(s) ==
  /\ pc[s] = "cast"
  /\ chan = "select"
  /\ chan' = "cast"
  /\ inHand' = cur[s]
  /\ pc' = [pc EXCEPT ![s] = "db"]
  /\ UNCHANGED <<now, alive, history, cur, seen, log, stamp, announced, applied>>

\* dbUpdateChan <- payload meets case payload := <-dbUpdateChan; the callback
\* returns.
SendDbUpdate(s) ==
  /\ pc[s] = "db"
  /\ chan = "select"
  /\ chan' = "db"
  /\ inHand' = cur[s]
  /\ pc' = [pc EXCEPT ![s] = "idle"]
  /\ cur' = [cur EXCEPT ![s] = 0]
  /\ UNCHANGED <<now, alive, history, seen, log, stamp, announced, applied>>

-----------------------------------------------------------------------------
(* handleMessages.                                                         *)

\* The broadcast case: a payload without anything to announce is skipped, any
\* other is written to the web clients.
HandleBroadcast ==
  /\ chan = "cast"
  /\ announced' = announced \cup IF Parses(Key(inHand)) THEN {inHand} ELSE {}
  /\ chan' = "select"
  /\ inHand' = 0
  /\ UNCHANGED <<now, alive, handlerVars, applied>>

\* The database case ends: the payload is rejected, is of no kind the database
\* keeps, or has been written.
HandleDBUpdate ==
  /\ chan = "db"
  /\ applied' = applied \cup {inHand}
  /\ chan' = "select"
  /\ inHand' = 0
  /\ UNCHANGED <<now, alive, handlerVars, announced>>

\* The database case ends the process: the device's row cannot be read
\* (log.Fatal), or the device information lacks its channels (nil pointer).
DBFatal ==
  /\ chan = "db"
  /\ Key(inHand) \in Stored
  /\ alive' = FALSE
  /\ UNCHANGED <<now, handlerVars, dispatchVars>>

\* log.Fatal, a panic or a fatal error of the runtime in another part of the
\* process: the domain poller, the WebSocket side, the HTTP server.
FatalElsewhere ==
  /\ alive' = FALSE
  /\ UNCHANGED <<now, handlerVars, dispatchVars>>

Tick ==
  /\ now < MaxTime
  /\ now' = now + 1
  /\ UNCHANGED <<alive, handlerVars, dispatchVars>>

\* A process that has ended does nothing more.
Rest == ~alive /\ UNCHANGED vars

Callback(s) ==
  \/ \E k \in Keys : Deliver(s, k)
  \/ ReadHistory(s)
  \/ Suppress(s)
  \/ Admit(s)
  \/ RecordHistory(s)
  \/ SendBroadcast(s)
  \/ SendDbUpdate(s)

Next ==
  \/ /\ alive
     /\ \/ \E s \in Subscribers : Callback(s)
        \/ HandleBroadcast
        \/ HandleDBUpdate
        \/ DBFatal
        \/ FatalElsewhere
        \/ Tick
  \/ Rest

Spec == Init /\ [][Next]_vars

-----------------------------------------------------------------------------
(* Fairness.  A callback that can go on does (the scheduler is fair), and   *)
(* so does the database case, whose calls return.  Among ready cases select *)
(* picks at random and a channel serves its senders in order, so a callback *)
(* whose send is possible again and again gets through: strong fairness.    *)
(* Nothing is assumed of HandleBroadcast: WriteMessage has no deadline, so  *)
(* the broadcast case lasts for as long as a browser does not read.         *)
Running(A) == alive /\ A

RelayFairness ==
  /\ \A s \in Subscribers :
       /\ WF_vars(Running(ReadHistory(s)))
       /\ WF_vars(Running(Suppress(s) \/ Admit(s)))
       /\ WF_vars(Running(RecordHistory(s)))
       /\ SF_vars(Running(SendBroadcast(s)))
       /\ SF_vars(Running(SendDbUpdate(s)))
  /\ WF_vars(Running(HandleDBUpdate \/ DBFatal))

FairSpec == Spec /\ RelayFairness

-----------------------------------------------------------------------------
(* Properties.                                                             *)

Stamped(m) == m \in Msgs /\ stamp[m] # NoStamp

\* Every key reaches one subscriber at most.
ExclusiveRoute ==
  \A k \in Keys : \A s1, s2 \in Route[k] : s1 = s2

\* Two different messages with one topic and payload are never recorded for
\* broadcast less than the window apart, though the look-up and the recording
\* are two locked sections with the clock running in between
\* (messagePubHandler).  It needs ExclusiveRoute.
BroadcastsSpaced ==
  \A m1, m2 \in Msgs :
    /\ m1 < m2
    /\ Key(m1) = Key(m2)
    /\ Stamped(m1)
    /\ Stamped(m2)
    => stamp[m1] + Window <= stamp[m2]

\* The duplicate check of message m is over.
Decided(m) ==
  /\ m \in Msgs
  /\ \A s \in Subscribers : cur[s] = m => pc[s] \in {"cast", "db"}

\* A message that was kept from the web side had a witness: another message
\* with its topic and payload, recorded for broadcast less than the window
\* before it arrived or later (messagePubHandler).
SuppressionSound ==
  \A m \in Msgs :
    Decided(m) /\ ~Stamped(m) =>
      \E w \in Msgs \ {m} :
        /\ Stamped(w)
        /\ Key(w) = Key(m)
        /\ log[m].at < stamp[w] + Window

\* What the comment on messagePubHandler says: a message received in the last
\* two seconds is not broadcast again.  Recording m for broadcast is the step
\* that broadcasts it.
ReceivedRecentlyNotBroadcast ==
  [][\A m \in Msgs :
       stamp'[m] # stamp[m] =>
         ~ \E e \in Msgs :
             e < m /\ Key(e) = Key(m) /\ now - log[e].at < Window]_vars

\* The relay keeps the promise: one subscriber's messages one after the other,
\* each announced at most once and before it is applied, applied exactly once.
Promise == INSTANCE RelayPromise WITH
  Sources <- Subscribers,
  received <- [m \in Msgs |-> log[m].sub]

ImplementsPromise == Promise!PromiseSpec

\* No callback has a message on its way, and handleMessages is at its select.
Resting == chan = "select" /\ \A s \in Subscribers : pc[s] = "idle"

\* Every broadcast case ends: no browser keeps it in a write for good.
BroadcastsEnd == []<>(chan # "cast")

\* While the process lives, every message delivered reaches the database side,
\* duplicates too ("all messages are handled, without deduplication").
EveryMessageReachesDb ==
  \A m \in 1 .. MaxMsgs : m \in Msgs ~> m \in applied \/ ~alive

\* It does as long as broadcasts end: one dispatcher serves both channels, and
\* no callback waits for it for good, whichever cases select takes
\* (messagePubHandler, handleMessages).
ReachesDbWhileBroadcastsEnd == BroadcastsEnd => EveryMessageReachesDb

\* What m says has been announced, by m or by a message that vouches for it.
Heard(m) ==
  /\ m \in Msgs
  /\ \E w \in announced : Key(w) = Key(m) /\ log[m].at < stamp[w] + Window

\* While the process lives, the content of every message that has something to
\* announce is announced, by the message itself or by its witness.
ContentAnnounced ==
  \A m \in 1 .. MaxMsgs :
    m \in Msgs /\ Parses(Key(m)) ~> Heard(m) \/ ~alive

\* It is as long as broadcasts end: no duplicate is kept back for a witness that
\* is recorded and then never sent (messagePubHandler, handleMessages).
AnnouncedWhileBroadcastsEnd == BroadcastsEnd => ContentAnnounced
=============================================================================
