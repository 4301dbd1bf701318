# Verification of websocket_bridge

TLA+ models of websocket_bridge, the Go process that stands between the MQTT
brokers, the databases and the browsers of an audio platform.  TLC checks them on
small instances, TLAPS proves the central results for all values of the
constants.  Line numbers below are those of the repository.

## 1. The system

Devices publish protobuf messages (`PbMsg`) on MQTT channels.  The bridge receives
them, shows them to browsers over WebSockets as JSON, and keeps the rows of the
things database up to date.  Beside that path it discovers devices by UDP
multicast, sends commands to devices, and stores tasks as objects in MinIO.

| Component | State | Operations | Works with |
| --- | --- | --- | --- |
| MQTT relay (`mqtt_handler.go:16-34`, `websocket_handler.go:271-321`) | `messageHistory` (RWMutex), unbuffered `broadcast` and `dbUpdateChan` | the callback per message, the select of `handleMessages` | domain poller makes the subscriptions; hands to hub and things |
| WebSocket hub (`websocket_handler.go:15-42, 251-269`) | the map `clients`, no lock | connect, read until failure, broadcast | called by the relay's dispatcher; browsers |
| Thing synchronisation (`websocket_handler.go:227-249`, `database_handler.go:101-297`) | rows of `clients` in the things database | login, device information | called by the relay's dispatcher; the platform edits the same rows |
| Device discovery (`udp_handler.go`, `tools.go:31-42`) | `pbMsgs` under `mutex` | listen, save, empty every 15 s, answer requests, multicast replies | devices, HTTP clients |
| Domain poller (`database_handler.go:32-82`, `mqtt_handler.go:36-69`) | `comIDs`, `mqttClients` under `domainMu` | poll every 5 s, subscribe, disconnect | auth database, brokers; decides who calls the relay |
| Task store (`task_handler.go`) | none of its own; objects in MinIO | list, add, update, copy, delete | HTTP clients, MinIO |
| Console store (`broadcast_handler.go`) | none of its own; objects in MinIO | create or update, get | HTTP clients, MinIO |
| Device control (`mqtt_handler.go:71-252`, `tools.go:76-226`) | an MQTT client per request | one request, one publication | HTTP clients, broker, devices |
| HTTP middleware (`middleware.go`), message definitions (`proto/pbmsg.pb.go`) | none | preflight answers, compression; numbers and encoding of messages | all handlers |
| Start-up (`main.go`, `minio_handler.go`) | none worth modelling | | |

What is hard here:

* **Concurrency.** One callback goroutine per MQTT client, one goroutine per
  WebSocket connection, one dispatcher, one poller, one listener, one cleaner, and
  one goroutine per HTTP request.  `clients` is shared without a lock;
  `messageHistory` is locked twice for one decision; `pbMsgs` is locked across a
  write to a client.
* **One dispatcher for two jobs.** `handleMessages` writes to browsers and to the
  database, so a slow browser holds up the database.
* **Calls without a transaction.** The handlers of tasks and scenes look and then
  write, or list and then read, while others change the same objects; a call that fails
  may have taken effect; the status is written before anything is known.
* **Failure.** Most errors are ignored (`_ = updateThingDB`), others end the process
  (`log.Fatal`, nil pointers, the runtime's check on maps), which may leave a
  device's rows half changed.
* **Time.** The two-second window of the duplicate check, with the clock read
  between two locked sections.

What makes each component correct:

* *Relay*: broadcasts of one message are spaced by the window, no content is lost by
  suppressing duplicates, messages of one client stay in order, every message reaches
  the database side as long as browsers read.
* *Hub*: every open connection is in the map and no finished one is; a client misses
  no broadcast between its first and its end; every broadcast ends.
* *Whole path*: browsers see messages in order, each at most once, recorded first.
* *Things*: the rows of a device of several channels agree; the platform's edits
  survive except in the window the code leaves.
* *Discovery*: one entry per device, the newest; neither listener nor cleaner is
  starved by a reader.
* *Poller*: no channel is subscribed to twice, not even while the clients are
  exchanged; none is listened to that was not found; all that were found are, unless a
  call failed or a connection was lost.

* *Task and console store*: a request takes effect at most once, on one object of its
  own folder; what it is told and shown was true while it was open, unless a call failed;
  a new task takes a place that was free; objects bear the names they are stored under;
  every request ends.
* *Device control*: at most one message, the one asked for, in the numbers devices know;
  success is told of a message that was written, unless the connection was lost; no MQTT
  client is left behind.

`PROJECT.json` lists the hazards line by line with the properties that cover them.

## 2. Modules

| Module | What it is |
| --- | --- |
| `RelayPromise` | abstract: messages come from sources, are announced at most once and before they are applied, applied once, in order per source |
| `MessageRelay` | the callbacks, the history, the two channels, the dispatcher, the clock |
| `ClientHub` | the map, the connections, the broadcast, the peers, races on the map |
| `Bridge` | `MessageRelay` and `ClientHub` in one process |
| `ThingSync` | the database case of the dispatcher, call by call |
| `DeviceTable` | abstract: the newest advertisement per device, forgotten now and then |
| `DeviceDiscovery` | listener, cleaner, readers, mutex |
| `DomainPoller` | the poll, the MQTT clients it disconnects and makes, their connections and subscriptions |
| `TaskPromise` | abstract: requests take effect once, all at once, and are answered truly |
| `TaskStore` | the handlers of tasks and console scenes over MinIO, call by call |
| `DeviceControl` | the handler that sends a command to a device, its MQTT client, the table of messages |
| `HttpReply` | an answer as `http.ResponseWriter` makes it: operators shared by the two above |
| `RelayProofs`, `HubProofs`, `BridgeProofs`, `ThingProofs`, `DiscoveryProofs`, `PollerProofs`, `TaskProofs`, `ControlProofs` | theorems |
| `MCRelay`, `MCHub`, `MCBridge`, `MCThings`, `MCDiscovery`, `MCPoller`, `MCApi` | instances for TLC |

Operators commented "A slip" stand beside the definition they vary.  They are not
used by the specifications: each is a mistake the code could contain, and
`PROJECT.json` ("mutants") says which property finds it.

### MessageRelay

`pc[s]` is the place of subscriber s's callback: `idle`, `lookup` (before
`RLock`), `decide` (after `RUnlock`), `record` (before `Lock`), `cast` (at
`broadcast <-`), `db` (at `dbUpdateChan <-`).  The locked sections are single steps
because no step inside them waits.  The clock (`Tick`) moves between any two steps, so
the time tested at `decide` and the time recorded are different readings.  A
rendezvous on an unbuffered channel is one step of sender and dispatcher, possible
only when the dispatcher is at its `select`.  paho runs the callbacks of one client in
order and one at a time (its default), hence one `pc` per client.  `log` and
`stamp` are history variables: what was delivered, and when a message was recorded
for broadcast.  A key is topic and payload together; the code concatenates the two
strings, so two different pairs may give one key, which the model counts as one key.
Quality of service is 0: a message lost before the callback is one that is never
delivered.

### ClientHub

A connection's goroutine is `fresh`, `inserting`, `reading`, `deleting` or
`closed`; `inserting` and `deleting` are states because an access to the map lasts.  If
two accesses overlap and one is a write, the runtime may notice and end the process
(`MapFatal`), or not, and then the write may be lost (`WriteMap`, which sets
`raced`).  `Pick` and `FinishRange` follow the language's rules for ranging over a map
that changes: entries present throughout are visited once, entries deleted before
they are reached are not, entries inserted may be.  `WriteMessage` has no deadline:
`WriteOk` needs a peer that reads.  `inbox` and `casts` record what each peer gets.

### Bridge

The variables of both parts, `alive` shared, and `sent`, the message each broadcast
carries.  `BeginBroadcast` is the hub's `StartRange` in the relay's broadcast case;
`EndBroadcast` is `FinishRange` and `HandleBroadcast` in one step;
`SkipBroadcast` is the case that rejects its payload.  Everything else is a step of
one part that leaves the other alone.  By this shape every step of the composition is a
step of each part or leaves it alone; that is how it is written and no result.

### ThingSync

`at` is the place within one handling: `lookup` (before the row of the device is
read), `store` (before it is written), `fetch` and `put` (the same for a further
channel).  `mem` is what has been read.  Every call may fail: a failed read of the
device's row ends the process, everything else is passed over, and a failed write may
have been done.  A device information that cannot be compared with the stored one
(`database_handler.go:203-221`) changes nothing (`LookupUncompared`).  `PlatformEdit`
comes between any two steps.  `settled`, `failed`,
`faulty` and `edited` are history variables.  A login writes the field `online`
(`is_online`), a device information the field `info`, with which go the fields the
code derives from it (`aliase`, `out_channel_array`); `note` is all that the platform
keeps.  The number of channels of a row is a constant: the bridge never writes
`out_channel`.

### DeviceDiscovery

`savePbMsg` and `clearPbMsgs` are single steps that need the mutex free, because
nothing in them waits; `getDevicesHandler` is a request, a step that takes the mutex
and makes the response (`Marshal`), and a step that ends the write and releases it
(`Write`).  `Words[a]` is the set of device names that occur in the JSON text of
advertisement a, which is all that `strings.Contains` tells apart.

### DomainPoller

`phase` is the place in `queryDomains`: `idle` (asleep, or before the query), `disconnect`
(the loop at `:62`, at entry `next`), `connect` (the loop at `:67`, `todo` still to do, in
any order because the query has none) and `subscribe` (between the two calls of
`subscribeToMQTTTopic`, for the domain `making`).  `made` holds every client ever made,
because the code forgets one whose subscription failed and the library does not;
`mqttClients` holds those the code keeps, by number, with 0 for nil, and grows for ever
as in the code.  A domain stands for its row; `ComOf` gives its comID.  A row without a
comID is one that is not there.

Of the library there is only what the options ask for: a client whose connection is lost
connects again (`SetAutoReconnect`), in a clean session, which is the default, so its
subscription is gone, and `disconnectFromMQTT` ends it for good.  `basis` (the domains
of the last poll that found another number) and `troubled` (something has failed since)
are history variables.  The mutex `domainMu` is taken by nobody else and is left out.

The relay takes the subscriptions as its constant `Route`; that at most one client is
subscribed to a channel (`ExclusiveRoute` there) is `OneSubscription` here.

### TaskStore

`pc[r]` is the place of the handler of connection r between two calls of MinIO:
`choose` and `check` (the loop at `task_handler.go:183`, before `uuid.New` and before
`CheckFileExists`), `stat` (before `StatObject`), `put`, `create` and `remove` (before the
call that takes effect; `create` is the first branch of
`updateBroadcastTaskHandler`), `list` and `read` (`buildTaskList`), `get`, and `done`,
`made`, `absent` and `failed` (before the answer).  `req` is the decoded request, `uuid`
the task's uuid as the handler has set it, `names` and `found` the state of the listing
loop, `answer` what has been written.  Every call may fail without effect (`CallFails`,
`ReadFails`); a put or a removal may also fail with its effect (`Change`).  The process
may end at any time (`Restart`); the objects stay.  An object is the uuid it bears and
the connection whose body it holds; other contents make no difference to a handler.  A
listing is one step, the reads that follow are a step each.  A copy is an addition that
words its answer differently, so `copyTaskHandler` is `addTaskHandler`.

`seen`, `took` and `trouble` are history variables: what there has been in its folder that
concerns a request since it is open, its effect, and whether a call has failed it.
`TaskPromise` is written with these alone: `TakeEffect` is one step, and `Tell` says what
may be answered (`Honest`).  It promises less than a transaction would: an update needs
the task to have been there at some time while it was open, not at the time it writes, so
a task deleted in between is back afterwards (`task_handler.go:278-286`); a list holds
what was there at some time, not all at one time; and after a failed call (`trouble`) a
list may be short and a task said to be missing may be there.  The status of every answer
to a request in work is 200 (`task_handler.go:158`), which `Tell` states.

Requests for tasks are taken to address folders of tasks and requests for scenes folders
of scenes.  `task_handler.go:174` lets a request give any path; one that gives a
path of scenes meets the other handlers on the same objects, which is not modelled.

### DeviceControl

`at[r]` is the place of `controlDeviceHandler`: `connect`, `build` (before
`createRequestData`), `publish` and `leave` (before the deferred `Disconnect`).  `link[r]`
is its MQTT client's connection, which may be lost and come back at any time
(`SetAutoReconnect(true)`).  `Table` is the switch of `createRequestData`, all 33 control
types with the message each sends and its literal number; `MsgId` and `TaskSyncType` are
the numbers of the generated code.  `part` says whether the nested part of the request is
there: three types read through it (`Dereferenced`), and the handler panics without it,
which `net/http` turns into a closed connection after the deferred call has run: the
client gets no answer (`Aborted`), though a status had been written.
`Publish` writes the message if the connection is up; while the library (paho v1.4.3) is
connecting again it drops a message of quality 0 and completes its token without an
error, so the request is told that it was sent.  `lost` remembers that.

## 3. Runs

| Run | Expect | What it shows |
| --- | --- | --- |
| `relay` | pass | 2 subscribers, 2 keys (one login, one payload that does not parse), 3 messages, window 2, clock to 3; progress as long as broadcasts end |
| `relay_shared` | violation of `BroadcastsSpaced` | 2 subscribers to one key: both look up before either records |
| `relay_doc` | violation of `ReceivedRecentlyNotBroadcast` | a duplicate does not refresh the stamp |
| `hub` | pass | 2 connections, 3 broadcasts, all peers and races |
| `bridge` | pass | 1 subscriber, 2 keys, 3 messages, 1 connection; what browsers have at rest, and progress while they read |
| `bridge_stall` | violation of `EveryMessageReachesDb` | a browser that stops reading stops the database updates |
| `things` | pass | a device of 3 channels and a platform, 2 states, 2 informations (one without channels), 2 notes |
| `things_doc` | violation of `ChannelsFollowInfo` | a channel that could not be written is never repaired |
| `discovery` | pass | 3 advertisements of 2 devices, 2 readers, a socket of 2 datagrams |
| `discovery_names` | violation of `ReplacesSameName` | the name of one device occurs in the other's |
| `poller` | pass | 2 domains with a comID each, created and removed twice in all |
| `api` | pass | 2 connections over one folder of tasks (2 uuids) and one of scenes (1 uuid), every initial store; and 2 connections of which one sends commands of all 33 types to one device |

### Bounds

* `MaxMsgs = 3`: a message, its duplicate inside the window and one after it; or two
  of one key and one of another in between.  With `Window = 2` and `MaxTime = 3` a key
  can be recorded, suppressed, and recorded again at exactly the boundary.
* Two subscribers: every race of the callback is between two of them.
* Two connections, three broadcasts: one connection fails in a range in which the
  other is written to, before and after; a gap needs three broadcasts (received,
  missed, received).
* Three channels: the loop has a first, a middle and a last row.
* Two readers and a backlog of 2: one reader holds the mutex while another and the
  listener wait and a further datagram arrives.
* Two connections, one of which (`Asking` in `MCApi`) may ask for anything, the other
  for whatever changes an object: two readers do nothing to each other.  Two uuids of
  tasks: an addition finds one taken and one free, a list has one object read and one
  still to be read.  `TaskStore` and `DeviceControl` share no variable, so `MCApi` runs one
  or the other in a behaviour and not their product; neither bounds its behaviours in
  length.
* Two domains and two edits of their table: three generations of clients, a domain
  replaced by another between two polls, and edits in the middle of an exchange.

None of these bounds is in the proofs (the bounds that are constants of the
specification, `MaxMsgs`, `MaxTime`, `MaxCasts`, `Backlog`, `MaxEdits`, are arbitrary
there).

### Fairness

* A goroutine that can go on does: weak fairness of its steps, while the process lives.
* A send on a channel, the lock of a mutex: strong fairness.  Go's channels serve
  waiting senders in order and `select` chooses at random among ready cases;
  `sync.Mutex` has a starvation mode that hands it to the longest waiter.
* A write to a peer goes on if the peer reads again and again (strong fairness of
  `WriteOk` and `Write`).  That peers do read is assumed of nobody; the liveness
  properties that need it say so (`PeersRead`, `ClientsRead`).
* The relay alone knows nothing of browsers, so nothing is assumed of its
  `HandleBroadcast`: the broadcast case ends in a write without a deadline
  (`websocket_handler.go:262`).  Its liveness properties have the premise `BroadcastsEnd`:
  a broadcast in hand is not in hand for ever.  In the composition the premise is
  `PeersRead`, and that broadcasts then end is `BroadcastEnds`, checked by `hub`.
* A call of the database or of the MQTT client returns, with or without an error
  (weak fairness of `HandleDBUpdate` in the relay and of `Handling` in `ThingSync`).  The
  poller is one goroutine that sleeps and goes on: weak fairness of `queryDomains`.
* A call of MinIO returns: weak fairness of an open request's handler
  (`HandlerFairness`).  That is not enough for the loop at `task_handler.go:183`, which
  goes on while calls fail or names are taken; `RequestAnswered` says so and has the
  premise that from some time on no call fails and `uuid.New` draws names that are not
  in use.
* Nothing is assumed of devices, browsers, the platform, the clock or a restart.

## 4. Disagreements between code and comments

Five runs end in a violation; each property is what a comment in the code says.

1. `mqtt_handler.go:16-17` against `:19-28`: check and recording are two locked
   sections, so two clients of one channel broadcast the same message twice.
2. `mqtt_handler.go:16` against `:27`: "received in the last two seconds" is
   "broadcast in the last two seconds".
3. `mqtt_handler.go:32` against `websocket_handler.go:262`: "unconditionally to the
   database" holds only while every browser reads.
4. `udp_handler.go:100` against `:103`: "the same device name" is "a text that
   contains the name".
5. `database_handler.go:240` against `:226, :254, :273`: "all channels together" is
   lost with one failed write, and sending the information again does not repair it.

## 5. Proofs

All theorems are proved by TLAPS for arbitrary constants that satisfy the named
assumptions of the modules (`RelayAssumption`, `HubAssumption`,
`BridgeAssumption`, `ThingAssumption`, `DiscoveryAssumption`, `PollerAssumption`,
`StoreAssumption`).

* **Relay.** `TypeCorrect`.  `BroadcastsAreSpaced` assumes `ExclusiveRoute` (one
  subscriber per key).  The inductive invariant says that a message at work is in hand of
  its own subscriber only (*Ownership*), that a key's stamp in the history is the latest
  of its broadcasts (`HistoryLatest`), and that what a callback has looked up is still the
  stamp in the history when it acts on it (`LookupCurrent`): this is the step that fails
  with two subscribers.
  `SuppressionIsSound` needs no such assumption: whatever a callback saw was stamped by
  some other message (`StampKept`).  `RelayImplementsPromise` maps every step to a step
  of `RelayPromise` or to none; it rests on the messages of one subscriber taking turns
  (*Turns*).
  `ContentIsKept` joins the two halves of the relay: a recorded message is announced or on
  its way to it (`RecordedArrives`), and so is the witness of a suppressed one; so no
  content is lost to the duplicate check.  `NothingIsSwallowed` is the same at rest: all
  messages applied, all that parses announced.  Both assume `Window > 0`, by which a
  recorded message is within the window of itself; it is two seconds (`mqtt_handler.go:23`).
* **Hub.** `NoClientIsDeaf`, `NoClientIsLeaked` and `FeedsAreGapless` until a race goes
  unnoticed; the last one needs an invariant about the range in progress: who has been
  visited has the current broadcast last in its inbox, who is owed a visit has the one
  before it.  `FeedsRise` holds through all races: nothing comes twice or out of order.
  `FeedsAreComplete` adds that a feed is an interval (`Straight`): who stays connected has
  every broadcast from the first on.  `BroadcastsAdvance` (for finitely many connections)
  is the argument that a broadcast ends, see below.
* **Bridge.** The invariants of the parts hold in the composition
  (`BridgeSuppressionIsSound`, `BridgeBroadcastsAreSpaced`, `BridgeFeedsAreGapless`).
  End to end, `BridgeShowsInOrder` rests on `Carried`: all that has been sent was
  announced, recorded, and is in order per client, and the message in the dispatcher's
  hand is later than all of its client that were sent.  `BridgeKeepsPromise` chains the
  two refinements (composition to relay, relay to `RelayPromise`), and `BridgeMapIsTrue`
  carries the hub's invariants over.  `BridgeReachesBrowsers` is the result from end to
  end: when all is at rest, each message delivered that parses has had a broadcast with
  its content, recorded less than the window before it came or later, and each browser
  that has been connected since that broadcast has it.  It joins `NothingIsSwallowed`,
  `FeedsAreComplete` and `AnnouncedSent` (an announced message is one of those sent); the run
  `bridge` checks it as the invariant `ReachesBrowsers`.
  `BridgeWaitsOnlyForPeers` is freedom from deadlock: callbacks, channels, the dispatcher
  and the broadcast never wait in a circle; the only one they may wait for is a browser
  that does not read, as the run `bridge_stall` shows.  Its proof has to show that the
  model's bound on broadcasts never binds (`CastsAreMessages`): broadcasts are as many as
  messages sent, none is sent twice, and there are at most `MaxMsgs`.
* **Things.** `StatusAgrees` and `InfoAgrees` from the loop invariant `Behind` (the rows
  behind the loop hold the new value unless a step failed), `Fresh` (what is in memory
  is still what the row holds) and `Cleared` (nothing is promised of the field being
  set).  `EditsSurvive` is the action property, from `NoteFresh`.
  `InfoFollowsIfNothingFails` is the counterpart of the run `things_doc`: what the comment
  at `database_handler.go:240` says does hold until a handling fails or is cut short.
* **Discovery.** `DevicesListedOnce` and `DiscoveryImplementsTable` assume `ExactNames`
  (no device's text contains another's name), without which both are false.  So does
  `TableIsBounded`: one entry per device, so by pigeonhole no more entries than devices.
* **Poller.** `SubscribedOnce` assumes `DistinctComs` (no two domains have one comID);
  `NothingElseHeard` and `AllFoundHeard` assume nothing.  The invariant: every
  subscription is held by a client that is kept (`Kept`: a client forgotten after a failed
  subscription has none, and none when it reconnects, by `Live`), the loop has left
  none behind it (`Cut`), and of the domains found those dealt with, and no others, are
  subscribed to (`Served`).  `CountSuffices` says when comparing the number of domains,
  as `database_handler.go:60` does, is right: while domains are only created, or only
  removed, a subset with the same number is the same set, so a poll that finds the number
  it knows leaves the bridge subscribed to what the table says, unless a call has failed
  or a connection was lost.  Section 6 says what goes wrong when both happen.
* **Task store.** `TypeCorrect`, `NamesAgree` and `TaskStoreKeepsPromise`, from one
  inductive invariant.  `Inv` says where the handler of each operation can be (`Placed`)
  and that a handler that does not work has no locals (`Idle`).  `IInv` adds what an answer
  rests on (`Past`): what is there now that concerns a request has been seen
  (`Watching`); a place tells what was found out and whether the effect has been taken
  (`Knows`: a handler about to put a new task has seen its name free, one about to update
  has seen the task); and every uuid is still to be read, was free at some time, or is
  found (`Reading`).  The five kinds of steps (`Begins`, `Looks`, `Changes`, `Tells`,
  `Forget`) are each reduced to what they do to one request; a lemma leaves the others
  alone (`LeftInPlace`, `LeftPast`).
* **Device control.** `ControlTypeCorrect`, `CommandsAreTrue` and `NoClientIsLeft` from
  `Working`: no reply but the status before the publication, a client exactly from
  `build` to `leave`, and a connection that is down was lost.  That the literals of
  `createRequestData` are the numbers of the generated code is a lemma on the table
  (`TableFacts`).

What liveness rests on is proved, though liveness itself is not.  That something happens
in the end needs fairness, and with it ENABLED, which the provers cannot deal with.  What
the code contributes is safety: each step of the one who is at work brings it nearer to its
end, by a measure in `Nat`; nobody else sets it back; and it is not kept waiting but by
those the property names.

| Liveness (TLC) | What is proved |
| --- | --- |
| `ReachesDbWhileBroadcastsEnd`, `AnnouncedWhileBroadcastsEnd` | `NothingIsSwallowed`: it can only fail by the relay not coming to rest |
| `BroadcastEnds` | `BroadcastsAdvance`: at most three steps per connection that the range has not visited, and one that waits, waits for a stalled peer |
| `BrokenClientRemoved` | `NoClientIsLeaked`: the goroutine of a client in the map is there to remove it |
| `ReachesDbWhilePeersRead`, `AnnouncedWhilePeersRead` | `BridgeWaitsOnlyForPeers`, and `BridgeReachesBrowsers` for what holds at rest |
| `AdvertListed`, `TableForgets` | `ListenerWaitsForReaders`: no datagram and no table makes `savePbMsg` wait, and who holds the mutex is a request not yet answered |
| `HandlingEnds` | `HandlingsAdvance`: at most two steps per channel left, failures included |
| `PollCatchesUp` | `PollsAdvance`: the clients left to disconnect and twice the domains left to connect |
| `RequestAnswered` | `RequestsGoOn`: a request goes back only when a name is in use or could not be looked up; `UndisturbedGoOn`: under the premise of `RequestAnswered` it does not, as a name unused when drawn stays unused until it is looked up (`Fresh`) |

`UndisturbedGoOn` assumes that no folder holds both tasks and scenes, as the model does.

Only model-checked: the eleven liveness properties of the table, the violations
(`ReceivedRecentlyNotBroadcast`, `ReplacesSameName`, `ChannelsFollowInfo`, and
`BroadcastsSpaced` and `EveryMessageReachesDb` under the constants that refute them), and
the step from the right column to the left one.

## 6. Not modelled

* Most of the generated file `proto/pbmsg.pb.go`, 20,467 of the 22,962 lines of Go: it
  encodes and decodes messages and describes their fields.  Only its numbering of messages
  and of task changes enters a module.  The share of the implementation that the modules
  map is small for that reason; of the 2,495 lines written by hand it is about seven tenths.
* The MQTT protocol and the client library beyond connections that break and come back:
  queueing, and a callback that is still running when its client is disconnected.
* That the subscriptions follow the table of domains: they do not, when one domain is
  replaced by another between two polls (`database_handler.go:60`), after a failed call
  or after a lost connection.  No text in the repository says they do, so it is a hazard
  and no finding.
* The contents of messages, tasks and scenes beyond kind, parsing, identity and, for
  messages to devices, number and change.
* Datagrams that the socket drops while the listener waits are in the model, but no
  property promises anything of them.  Requests to `addDeviceReplyHandler` that are
  refused, items that cannot be encoded and sends that fail change nothing that the bridge
  keeps; they are left out.
* The retries of the MinIO client itself: it may send a call that got no answer again, and
  then one call takes effect twice.  A call of the model has one effect or none.
* Requests for tasks whose path is that of scenes, and paging within a listing.
* What browsers send: it is parsed and dropped (`websocket_handler.go:36-42`).
* Compression and the headers for CORS.  Statuses are modelled in `TaskStore` and
  `DeviceControl` only.
* Growth of `messageHistory`, which has no bound.
* Start-up and shutdown; the latter cannot be reached (`main.go:95-102`).
* `testMqttHandler`, which is not registered.

## 7. Plan

Done, in the order of importance: (1) relay, hub and their composition; (2) discovery
and things; (3) the domain poller; (4) the task and console store with its promise;
(5) device control; (6) what the liveness properties rest on, and the results from end to
end of the composition.  Left:

7. The relay composed with the poller: `Route` a function of `made`, `ExclusiveRoute`
   in part a consequence.  `OneSubscription` gives at most one subscriber of a channel at a
   time, which is not yet what `BroadcastsAreSpaced` assumes: a callback of a client that
   has been disconnected may still be between `lookup` and `record` when the client that
   replaces it delivers the same message.  The composition is to say how long that window
   is.
8. A folder that tasks and scenes share, by a path given in the request.
