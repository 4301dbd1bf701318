-------------------------- MODULE DeviceDiscovery --------------------------
(***************************************************************************)
(* The discovery of devices: the goroutine of startUDPListener, which reads *)
(* multicast datagrams and saves the advertisements among them in pbMsgs,   *)
(* the goroutine that empties pbMsgs every 15 seconds, and the handlers of  *)
(* the HTTP requests that read it.  They share pbMsgs under one mutex.      *)
(*                                                                         *)
(* Saving and emptying do not wait while they hold the mutex, so each is a  *)
(* single step that needs it free.  A reader holds it while it writes its   *)
(* response, which has no deadline: for as long as its client does not read.*)
(* Entries keep no time stamp here: nothing in the code reads it.           *)
(***************************************************************************)
EXTENDS Naturals, Sequences

CONSTANTS
  Adverts,   \* advertisements of an allowed product, by their JSON text
  Names,     \* device names
  NameOf,    \* the device name of each advertisement
  Words,     \* Words[a]: the names that occur somewhere in a's JSON text
  Ignored,   \* datagrams that do not parse, are of another kind or of a product
             \* that is not allowed
  Replies,   \* datagrams the bridge multicasts to devices that were added
  Readers,   \* HTTP requests for the devices
  Nobody,    \* nobody holds the mutex; no datagram is in hand
  Backlog    \* the datagrams the socket's buffer holds

ASSUME DiscoveryAssumption ==
  /\ NameOf \in [Adverts -> Names]
  /\ Words \in [Adverts -> SUBSET Names]
  /\ Adverts \cap (Ignored \cup Replies) = {}
  /\ Nobody \notin Adverts \cup Ignored \cup Replies \cup Readers
  /\ Backlog \in Nat

VARIABLES
  socket,   \* datagrams the listener has yet to read
  hand,     \* the datagram in savePbMsg, or Nobody
  due,      \* the cleaner has slept its 15 seconds
  pbMsgs,   \* the advertisements saved
  holder,   \* the reader that holds mutex, or Nobody
  asking,   \* readers whose request is not answered yet
  slow,     \* readers whose client does not take the response
  view      \* the response each reader is writing, {} when none

vars == <<socket, hand, due, pbMsgs, holder, asking, slow, view>>

Datagrams == Adverts \cup Ignored \cup Replies

\* The advertisements in the table.
Listed == {pbMsgs[i] : i \in DOMAIN pbMsgs}

TypeOK ==
  /\ socket \in Seq(Datagrams)
  /\ Len(socket) <= Backlog
  /\ hand \in Datagrams \cup {Nobody}
  /\ due \in BOOLEAN
  /\ pbMsgs \in Seq(Adverts)
  /\ holder \in asking \cup {Nobody}
  /\ asking \subseteq Readers
  /\ slow \subseteq Readers
  /\ view \in [Readers -> SUBSET Adverts]

Init ==
  /\ socket = <<>>
  /\ hand = Nobody
  /\ due = FALSE
  /\ pbMsgs = <<>>
  /\ holder = Nobody
  /\ asking = {}
  /\ slow = {}
  /\ view = [r \in Readers |-> {}]

-----------------------------------------------------------------------------
(* The network: a datagram that finds the socket's buffer full is lost.     *)

Arrive(d) ==
  /\ Len(socket) < Backlog
  /\ socket' = Append(socket, d)
  /\ UNCHANGED <<hand, due, pbMsgs, holder, asking, slow, view>>

\* Each reply goes to the group the bridge itself listens to.  A request is any
\* number of these steps, one per item of its list up to the first that cannot be
\* encoded; an item whose datagram cannot be sent takes none.  Nothing else that
\* the handler does, such as refusing a request, changes what the bridge keeps.
addDeviceReplyHandler == \E d \in Replies : Arrive(d)

-----------------------------------------------------------------------------
(* startUDPListener and savePbMsg.                                         *)

ReadFromUDP ==
  /\ hand = Nobody
  /\ socket # <<>>
  /\ hand' = Head(socket)
  /\ socket' = Tail(socket)
  /\ UNCHANGED <<due, pbMsgs, holder, asking, slow, view>>

\* A slip: only an equal text passes.
MatchesText(a) == {i \in DOMAIN pbMsgs : pbMsgs[i] = a}

\* Entries that pass for an older advertisement of a's device: the same text, or
\* any text that contains a's device name.
Matches(a) == {i \in DOMAIN pbMsgs : pbMsgs[i] = a \/ NameOf[a] \in Words[pbMsgs[i]]}

\* The first entry that matches is replaced.
SaveOver ==
  /\ hand \in Adverts
  /\ holder = Nobody
  /\ \E i \in Matches(hand) :
       /\ \A j \in Matches(hand) : i <= j
       /\ pbMsgs' = [pbMsgs EXCEPT ![i] = hand]
  /\ hand' = Nobody
  /\ UNCHANGED <<socket, due, holder, asking, slow, view>>

\* A device that matches no entry gets one.
SaveNew ==
  /\ hand \in Adverts
  /\ holder = Nobody
  /\ Matches(hand) = {}
  /\ pbMsgs' = Append(pbMsgs, hand)
  /\ hand' = Nobody
  /\ UNCHANGED <<socket, due, holder, asking, slow, view>>

\* Even a datagram that is not saved waits for the mutex.
SkipDatagram ==
  /\ hand \in Ignored \cup Replies
  /\ holder = Nobody
  /\ hand' = Nobody
  /\ UNCHANGED <<socket, due, pbMsgs, holder, asking, slow, view>>

-----------------------------------------------------------------------------
(* The cleaner.                                                            *)

Wake ==
  /\ ~due
  /\ due' = TRUE
  /\ UNCHANGED <<socket, hand, pbMsgs, holder, asking, slow, view>>

\* A slip: the table is emptied up to its last entry.
ClearButLast ==
  /\ due
  /\ holder = Nobody
  /\ pbMsgs' = IF pbMsgs = <<>> THEN <<>> ELSE <<pbMsgs[Len(pbMsgs)]>>
  /\ due' = FALSE
  /\ UNCHANGED <<socket, hand, holder, asking, slow, view>>

clearPbMsgs ==
  /\ due
  /\ holder = Nobody
  /\ pbMsgs' = <<>>
  /\ due' = FALSE
  /\ UNCHANGED <<socket, hand, holder, asking, slow, view>>

-----------------------------------------------------------------------------
(* getDevicesHandler, run for reader r.                                    *)

Request(r) ==
  /\ r \notin asking
  /\ asking' = asking \cup {r}
  /\ UNCHANGED <<socket, hand, due, pbMsgs, holder, slow, view>>

\* mutex.Lock(), and the table is made JSON.
Marshal(r) ==
  /\ r \in asking
  /\ holder = Nobody
  /\ holder' = r
  /\ view' = [view EXCEPT ![r] = Listed]
  /\ UNCHANGED <<socket, hand, due, pbMsgs, asking, slow>>

\* A slip: the handler returns without mutex.Unlock().
WriteKeepsLock(r) ==
  /\ holder = r
  /\ r \notin slow
  /\ asking' = asking \ {r}
  /\ view' = [view EXCEPT ![r] = {}]
  /\ UNCHANGED <<socket, hand, due, pbMsgs, holder, slow>>

\* w.Write returns, with or without an error, and the handler unlocks.
Write(r) ==
  /\ holder = r
  /\ r \notin slow
  /\ holder' = Nobody
  /\ asking' = asking \ {r}
  /\ view' = [view EXCEPT ![r] = {}]
  /\ UNCHANGED <<socket, hand, due, pbMsgs, slow>>

\* The client stops reading, or reads again.
Pause(r) ==
  /\ r \notin slow
  /\ slow' = slow \cup {r}
  /\ UNCHANGED <<socket, hand, due, pbMsgs, holder, asking, view>>

Resume(r) ==
  /\ r \in slow
  /\ slow' = slow \ {r}
  /\ UNCHANGED <<socket, hand, due, pbMsgs, holder, asking, view>>

-----------------------------------------------------------------------------
savePbMsg == SaveOver \/ SaveNew \/ SkipDatagram
getDevicesHandler(r) == Request(r) \/ Marshal(r) \/ Write(r)

Next ==
  \/ \E d \in Adverts \cup Ignored : Arrive(d)
  \/ addDeviceReplyHandler
  \/ ReadFromUDP
  \/ savePbMsg
  \/ Wake
  \/ clearPbMsgs
  \/ \E r \in Readers : getDevicesHandler(r) \/ Pause(r) \/ Resume(r)

Spec == Init /\ [][Next]_vars

-----------------------------------------------------------------------------
(* Fairness, while the process lives.  Whoever waits for a sync.Mutex that is *)
(* free again and again gets it (its starvation mode): strong fairness.  A    *)
(* write goes on whenever its client reads, were it only now and then.        *)
(* Nothing is assumed of devices and clients.                                 *)
FairSpec ==
  /\ Spec
  /\ WF_vars(ReadFromUDP)
  /\ SF_vars(savePbMsg)
  /\ WF_vars(Wake)
  /\ SF_vars(clearPbMsgs)
  /\ \A r \in Readers : SF_vars(Marshal(r)) /\ SF_vars(Write(r))

-----------------------------------------------------------------------------
(* Properties.                                                             *)

\* A device name occurs in the advertisements of its device and in no other.
ExactNames == \A a \in Adverts : Words[a] = {NameOf[a]}

\* No device has two entries, however its advertisements, the cleaner and the
\* readers interleave (savePbMsg).  It needs ExactNames.
OneEntryPerDevice ==
  \A i, j \in DOMAIN pbMsgs : NameOf[pbMsgs[i]] = NameOf[pbMsgs[j]] => i = j

\* The table of the code is the table promised: the newest advertisement per
\* device, answered as of one instant (savePbMsg, clearPbMsgs,
\* getDevicesHandler).  It needs ExactNames.
Table == INSTANCE DeviceTable WITH known <- Listed

ImplementsTable == Table!TableSpec

\* What the comment in savePbMsg says: what a new advertisement replaces is an
\* equal one, or one with the same device name.
ReplacesSameName ==
  [][\A i \in DOMAIN pbMsgs :
       i \in DOMAIN pbMsgs' => NameOf[pbMsgs'[i]] = NameOf[pbMsgs[i]]]_vars

\* No client stops reading for good.
ClientsRead == \A r \in Readers : []<>(r \notin slow)

\* An advertisement that reaches the socket gets into the table, if no client
\* stops reading for good: no reader or cleaner keeps the listener from the
\* mutex (startUDPListener, savePbMsg).
AdvertListed ==
  ClientsRead =>
    \A a \in Adverts : (\E i \in DOMAIN socket : socket[i] = a) ~> a \in Listed

\* Under the same condition the table is emptied again and again, so that a
\* device that is gone does not stay in it (clearPbMsgs).
TableForgets == ClientsRead => []<>(pbMsgs = <<>>)
=============================================================================
