---------------------------- MODULE ControlProofs ----------------------------
(***************************************************************************)
(* Theorems about DeviceControl, for every number of connections and        *)
(* devices.                                                                *)
(***************************************************************************)
EXTENDS DeviceControl, TLAPS

-----------------------------------------------------------------------------
(* Messages.                                                               *)

\* The table numbers every message as the devices do.
LEMMA TableFacts ==
  ASSUME NEW t \in ControlTypes
  PROVE  /\ MsgId[Table[t][1]] = Table[t][2]
         /\ Table[t][1] = "TaskSync" => t \in {"taskAdd", "taskEdit", "taskDelete"}
BY DEF ControlTypes, Table, MsgId

LEMMA RequestCarries ==
  ASSUME NEW c \in Commands, c.type \in ControlTypes
  PROVE  /\ createRequestData(c) \in Messages
         /\ Carries(createRequestData(c), c)
<1>1. PICK t \in ControlTypes, d \in Things, b \in BOOLEAN :
        c = [type |-> t, thing |-> d, part |-> b]
  BY DEF Commands
<1>2. c \in [type : ControlTypes, thing : Things, part : BOOLEAN]
  BY <1>1
<1>3. createRequestData(c) \in Messages
  BY <1>2 DEF Messages
<1> DEFINE m == createRequestData(c)
<1>4. /\ m.topic = IF c.type = "taskStatGet" THEN "common/device" ELSE c.thing
      /\ m.id = Table[c.type][2]
      /\ m.data = Table[c.type][1]
      /\ m.change = IF c.type \in DOMAIN taskSyncType THEN taskSyncType[c.type] ELSE 0
  BY DEF createRequestData
<1>5. c.type \in {"taskAdd", "taskEdit", "taskDelete"} =>
        m.change = CASE c.type = "taskAdd" -> TaskSyncType.ADD
                     [] c.type = "taskEdit" -> TaskSyncType.EDIT
                     [] c.type = "taskDelete" -> TaskSyncType.DELETE
  BY <1>4 DEF taskSyncType, TaskSyncType
<1> HIDE DEF m
<1>6. Carries(m, c)
  BY <1>4, <1>5, TableFacts DEF Carries
<1>. QED
  BY <1>3, <1>6 DEF m

-----------------------------------------------------------------------------
(* The invariant.                                                          *)

Says == {"nothing", "refused", "invalid", "failed", "aborted", "sent"}
Reply == [status : {0, 200, 204}, shows : {{}}, says : Says]

\* What is written before a handler knows how it ends.
Started == [status |-> 200, says |-> "nothing", shows |-> {}]

LEMMA ReplyFacts ==
  /\ WriteHeader(Silence, 200) = Started
  /\ \A says, shows : Body(Started, says, shows) = [status |-> 200, says |-> says, shows |-> shows]
  /\ \A says, code : Error(Started, says, code) = [status |-> 200, says |-> says, shows |-> {}]
  /\ handlePreflight = [status |-> 204, says |-> "refused", shows |-> {}]
  /\ Refused = [status |-> 200, says |-> "refused", shows |-> {}]
  /\ Aborted = [status |-> 0, says |-> "aborted", shows |-> {}]
<1>1. WriteHeader(Silence, 200) = Started
  BY DEF WriteHeader, Silence, Started
<1>2. \A code : WriteHeader(Started, code) = Started
  BY DEF WriteHeader, Started
<1>3. WriteHeader(Silence, 204) = [status |-> 204, says |-> "nothing", shows |-> {}]
  BY DEF WriteHeader, Silence
<1>4. \A says, shows : Body(Started, says, shows) = [status |-> 200, says |-> says, shows |-> shows]
  BY <1>2 DEF Body, Started
<1>5. handlePreflight = [status |-> 204, says |-> "refused", shows |-> {}]
  <2>1. WriteHeader([status |-> 204, says |-> "nothing", shows |-> {}], 200).status = 204
    BY DEF WriteHeader
  <2>. QED
    BY <1>3, <2>1 DEF handlePreflight, Body, WriteHeader, Silence
<1>6. Aborted = [status |-> 0, says |-> "aborted", shows |-> {}]
  BY DEF Aborted
<1>. QED
  BY <1>1, <1>2, <1>4, <1>5, <1>6 DEF Error, Refused

\* Where the handler of r is, and what it has and has not done.
Works(r) ==
  /\ at[r] \in {"free", "connect"} <=> link[r] = "off"
  /\ at[r] \in {"connect", "build", "publish"} => reply[r] = Started /\ sent[r] = <<>>
  /\ at[r] = "publish" => cmd[r].type \in ControlTypes
  /\ link[r] = "down" => lost[r]

\* What r has sent is what it was asked to, and what it has told.
Sends(r) ==
  \/ sent[r] = <<>> /\ (reply[r].says = "sent" => lost[r])
  \/ /\ cmd[r] \in Commands /\ cmd[r].type \in ControlTypes
     /\ sent[r] = <<createRequestData(cmd[r])>>
     /\ reply[r].says = "sent"

Working(r) == Works(r) /\ Sends(r)

ControlInv == ControlTypeOK /\ \A r \in Requests : Working(r)

LEMMA ControlInitInv == ControlInit => ControlInv
<1> SUFFICES ASSUME ControlInit PROVE ControlInv
  OBVIOUS
<1>1. ControlTypeOK
  BY DEF ControlInit, ControlTypeOK, Silence
<1>2. \A r \in Requests : Working(r)
  BY DEF ControlInit, Working, Works, Sends, Silence
<1>. QED
  BY <1>1, <1>2 DEF ControlInv

\* A step of another request leaves p.
Spared(p) ==
  /\ at'[p] = at[p] /\ cmd'[p] = cmd[p] /\ link'[p] = link[p]
  /\ reply'[p] = reply[p] /\ lost'[p] = lost[p] /\ sent'[p] = sent[p]

LEMMA SparedWorking ==
  ASSUME NEW p \in Requests, Working(p), Spared(p)
  PROVE  Working(p)'
BY DEF Working, Works, Sends, Spared

\* Every step of one request.
Steps(r) == controlDeviceHandler(r) \/ ConnectionLost(r) \/ Reconnect(r)

LEMMA StepSpares ==
  ASSUME ControlTypeOK, NEW r \in Requests, Steps(r), NEW p \in Requests, p # r
  PROVE  Spared(p)
<1> USE DEF ControlTypeOK, Spared, Goes, Replies, Returns
<1>1. CASE RefuseControl(r) \/ Receive(r)
  BY <1>1 DEF RefuseControl, Receive
<1>2. CASE Connect(r) \/ ConnectFails(r)
  BY <1>2 DEF Connect, ConnectFails
<1>3. CASE Build(r) \/ BuildFails(r) \/ BuildPanics(r)
  BY <1>3 DEF Build, BuildFails, BuildPanics
<1>4. CASE Publish(r) \/ PublishFails(r) \/ Disconnect(r)
  BY <1>4 DEF Publish, PublishFails, Disconnect
<1>5. CASE ConnectionLost(r) \/ Reconnect(r)
  BY <1>5 DEF ConnectionLost, Reconnect
<1>. QED
  BY <1>1, <1>2, <1>3, <1>4, <1>5 DEF Steps, controlDeviceHandler

LEMMA ReceiveKeeps ==
  ASSUME ControlInv, NEW r \in Requests, Receive(r)
  PROVE  ControlTypeOK' /\ Working(r)'
<1> USE DEF ControlInv, ControlTypeOK, Goes, Replies
<1>1. PICK c \in Commands : cmd' = [cmd EXCEPT ![r] = c]
  BY DEF Receive
<1>2. reply' = [reply EXCEPT ![r] = Started] /\ Started \in Reply
  <2>1. Started \in Reply
    BY DEF Started, Reply, Says
  <2>. QED
    BY <2>1, ReplyFacts DEF Receive
<1>3. ControlTypeOK'
  <2>1. reply' \in [Requests -> Reply] /\ sent' \in [Requests -> Seq(Messages)]
    BY <1>2 DEF Receive, Reply, Says
  <2>2. at' \in [Requests -> {"free", "connect", "build", "publish", "leave"}]
    BY DEF Receive
  <2>3. link' \in [Requests -> {"off", "up", "down"}] /\ lost' \in [Requests -> BOOLEAN]
    BY DEF Receive
  <2>4. /\ cmd' \in [Requests -> Commands \cup {NoCommand}]
        /\ \A p \in Requests : at'[p] # "free" => cmd'[p] \in Commands
    BY <1>1 DEF Receive
  <2>. QED
    BY <2>1, <2>2, <2>3, <2>4 DEF Reply, Says
<1>4. /\ at[r] = "free" /\ at'[r] = "connect" /\ link'[r] = link[r]
      /\ reply'[r] = Started /\ sent'[r] = <<>>
  BY <1>2 DEF Receive
<1>5. Works(r)'
  BY <1>4 DEF Working, Works
<1>6. Sends(r)'
  BY <1>4 DEF Sends, Started
<1>. QED
  BY <1>3, <1>5, <1>6 DEF Working

LEMMA RefuseKeeps ==
  ASSUME ControlInv, NEW r \in Requests, RefuseControl(r)
  PROVE  ControlTypeOK' /\ Working(r)'
<1> USE DEF ControlInv, ControlTypeOK, Replies
<1>1. PICK w \in {handlePreflight, Refused} : reply' = [reply EXCEPT ![r] = w]
  BY DEF RefuseControl
<1>2. w \in Reply /\ w.says = "refused"
  BY ReplyFacts DEF Reply, Says
<1>3. ControlTypeOK'
  <2>1. reply' \in [Requests -> Reply] /\ sent' \in [Requests -> Seq(Messages)]
    BY <1>1, <1>2 DEF RefuseControl, Reply, Says
  <2>2. /\ cmd' \in [Requests -> Commands \cup {NoCommand}]
        /\ \A p \in Requests : at'[p] # "free" => cmd'[p] \in Commands
        /\ lost' \in [Requests -> BOOLEAN]
    BY DEF RefuseControl
  <2>. QED
    BY <2>1, <2>2 DEF RefuseControl, Reply, Says
<1>4. /\ at[r] = "free" /\ at'[r] = at[r] /\ link'[r] = link[r]
      /\ reply'[r].says = "refused" /\ sent'[r] = <<>>
  BY <1>1, <1>2 DEF RefuseControl
<1>. QED
  BY <1>3, <1>4 DEF Working, Works, Sends

\* r connects, builds, disconnects, or its connection changes: nothing is written.
LEMMA QuietKeeps ==
  ASSUME ControlInv, NEW r \in Requests,
         \/ Connect(r) \/ ConnectFails(r) \/ Build(r) \/ Disconnect(r)
         \/ ConnectionLost(r) \/ Reconnect(r)
  PROVE  ControlTypeOK' /\ Working(r)'
<1> USE DEF ControlInv, ControlTypeOK, Goes
<1>1. CASE Connect(r)
  BY <1>1 DEF Connect, Working, Works, Sends
<1>2. CASE ConnectFails(r)
  BY <1>2 DEF ConnectFails, Working, Works, Sends
<1>3. CASE Build(r)
  BY <1>3 DEF Build, Working, Works, Sends
<1>4. CASE Disconnect(r)
  BY <1>4 DEF Disconnect, Working, Works, Sends
<1>5. CASE ConnectionLost(r)
  BY <1>5 DEF ConnectionLost, Working, Works, Sends
<1>6. CASE Reconnect(r)
  BY <1>6 DEF Reconnect, Working, Works, Sends
<1>. QED
  BY <1>1, <1>2, <1>3, <1>4, <1>5, <1>6

\* r leaves without having published.
LEMMA LeavesKeeps ==
  ASSUME ControlInv, NEW r \in Requests, BuildFails(r) \/ BuildPanics(r) \/ PublishFails(r)
  PROVE  ControlTypeOK' /\ Working(r)'
<1> USE DEF ControlInv, ControlTypeOK, Goes
<1>1. at[r] \in {"build", "publish"}
  BY DEF BuildFails, BuildPanics, PublishFails
<1>2. reply[r] = Started /\ sent[r] = <<>> /\ link[r] # "off" /\ cmd[r] \in Commands
  BY <1>1 DEF Working, Works
<1>3. \A w : (\E code \in {0, 200}, says \in {"invalid", "failed", "aborted"} :
                w = [status |-> code, says |-> says, shows |-> {}]) =>
              w \in Reply /\ w.says # "sent"
  BY DEF Reply, Says
<1>4. PICK w \in Reply : Returns(r, w) /\ w.says # "sent"
  <2>1. CASE BuildFails(r)
    <3>1. Returns(r, Error(reply[r], "invalid", 400))
      BY <2>1 DEF BuildFails
    <3>2. Error(reply[r], "invalid", 400) = [status |-> 200, says |-> "invalid", shows |-> {}]
      BY <1>2, ReplyFacts
    <3>. QED
      BY <1>3, <3>1, <3>2
  <2>2. CASE BuildPanics(r)
    <3>1. Returns(r, Aborted)
      BY <2>2 DEF BuildPanics
    <3>. QED
      BY <1>3, <3>1, ReplyFacts
  <2>3. CASE PublishFails(r)
    <3>1. Returns(r, Error(reply[r], "failed", 500))
      BY <2>3 DEF PublishFails
    <3>2. Error(reply[r], "failed", 500) = [status |-> 200, says |-> "failed", shows |-> {}]
      BY <1>2, ReplyFacts
    <3>. QED
      BY <1>3, <3>1, <3>2
  <2>. QED
    BY <2>1, <2>2, <2>3
<1>5. /\ at' = [at EXCEPT ![r] = "leave"] /\ reply' = [reply EXCEPT ![r] = w]
      /\ UNCHANGED <<cmd, sent>>
      /\ \/ UNCHANGED <<link, lost>>
         \/ link' = [link EXCEPT ![r] = "down"] /\ lost' = [lost EXCEPT ![r] = TRUE]
  BY <1>4 DEF Returns, Replies, BuildFails, BuildPanics, PublishFails
<1>6. ControlTypeOK'
  <2>1. reply' \in [Requests -> Reply]
    BY <1>5 DEF Reply, Says
  <2>2. at' \in [Requests -> {"free", "connect", "build", "publish", "leave"}]
    BY <1>5
  <2>3. link' \in [Requests -> {"off", "up", "down"}] /\ lost' \in [Requests -> BOOLEAN]
    <3>1. link \in [Requests -> {"off", "up", "down"}] /\ lost \in [Requests -> BOOLEAN]
      OBVIOUS
    <3>2. CASE UNCHANGED <<link, lost>>
      BY <3>1, <3>2
    <3>3. CASE link' = [link EXCEPT ![r] = "down"] /\ lost' = [lost EXCEPT ![r] = TRUE]
      BY ONLY <3>1, <3>3
    <3>. QED
      BY <1>5, <3>2, <3>3
  <2>4. \A p \in Requests : at'[p] # "free" => cmd'[p] \in Commands
    BY <1>2, <1>5
  <2>. QED
    BY <1>5, <2>1, <2>2, <2>3, <2>4 DEF Reply, Says
<1>7. Working(r)'
  BY <1>2, <1>4, <1>5 DEF Working, Works, Sends
<1>. QED
  BY <1>6, <1>7

LEMMA PublishKeeps ==
  ASSUME ControlInv, NEW r \in Requests, Publish(r)
  PROVE  ControlTypeOK' /\ Working(r)'
<1> USE DEF ControlInv, ControlTypeOK, Goes
<1> DEFINE m == createRequestData(cmd[r])
           w == [status |-> 200, says |-> "sent", shows |-> {}]
<1>1. at[r] = "publish"
  BY DEF Publish
<1>2. reply[r] = Started /\ sent[r] = <<>> /\ link[r] # "off"
  BY <1>1 DEF Working, Works
<1>3. cmd[r] \in Commands /\ cmd[r].type \in ControlTypes
  BY <1>1 DEF Working, Works
<1>4. m \in Messages
  BY <1>3, RequestCarries
<1>5. w \in Reply /\ w.says = "sent"
  BY DEF Reply, Says
<1> HIDE DEF m
<1>6. /\ at' = [at EXCEPT ![r] = "leave"] /\ reply' = [reply EXCEPT ![r] = w]
      /\ UNCHANGED <<cmd, link, lost>>
  BY <1>2, ReplyFacts DEF Publish, Returns, Replies
<1>7. sent' = [sent EXCEPT ![r] = IF link[r] = "up" THEN <<m>> ELSE <<>>]
  <2>1. Append(<<>>, m) = <<m>>
    BY <1>4
  <2>. QED
    BY <1>2, <2>1 DEF Publish, m
<1> HIDE DEF w
<1>8. ControlTypeOK'
  <2>1. reply' \in [Requests -> Reply]
    BY <1>5, <1>6 DEF Reply, Says
  <2>2. <<m>> \in Seq(Messages) /\ <<>> \in Seq(Messages)
    BY <1>4
  <2>3. sent' \in [Requests -> Seq(Messages)]
    BY <1>7, <2>2
  <2>. QED
    BY <1>3, <1>6, <2>1, <2>3 DEF Reply, Says
<1>9. Works(r)'
  BY <1>2, <1>6 DEF Working, Works
<1>10. Sends(r)'
  <2>1. CASE link[r] = "up"
    <3>1. sent'[r] = <<m>> /\ reply'[r] = w /\ cmd'[r] = cmd[r]
      BY <1>6, <1>7, <2>1
    <3>. QED
      BY <1>3, <1>5, <3>1 DEF Sends, m
  <2>2. CASE link[r] = "down"
    <3>1. sent'[r] = <<>> /\ lost'[r]
      BY <1>6, <1>7, <2>2 DEF Working, Works
    <3>. QED
      BY <3>1 DEF Sends
  <2>. QED
    BY <1>2, <2>1, <2>2
<1>. QED
  BY <1>8, <1>9, <1>10 DEF Working

LEMMA ControlNextInv ==
  ASSUME ControlInv, [ControlNext]_controlVars
  PROVE  ControlInv'
<1>1. ASSUME NEW r \in Requests, Steps(r)
      PROVE  ControlInv'
  <2>1. ControlTypeOK' /\ Working(r)'
    BY <1>1, ReceiveKeeps, RefuseKeeps, QuietKeeps, LeavesKeeps, PublishKeeps
       DEF Steps, controlDeviceHandler
  <2>2. \A p \in Requests : p # r => Working(p)'
    BY <1>1, StepSpares, SparedWorking DEF ControlInv
  <2>. QED
    BY <2>1, <2>2 DEF ControlInv
<1>2. CASE ControlRestart
  <2>1. ControlTypeOK'
    BY <1>2 DEF ControlRestart, ControlTypeOK, Silence
  <2>2. \A r \in Requests : Working(r)'
    BY <1>2 DEF ControlRestart, Working, Works, Sends, Silence
  <2>. QED
    BY <2>1, <2>2 DEF ControlInv
<1>3. CASE UNCHANGED controlVars
  BY <1>3, SparedWorking DEF controlVars, Spared, ControlInv, ControlTypeOK
<1>. QED
  BY <1>1, <1>2, <1>3 DEF ControlNext, Steps

\* A request in work has a command, its client is off, up or down, and what it has sent
\* are messages of the table.
THEOREM ControlTypeCorrect == ControlSpec => []ControlTypeOK
<1>1. ControlInv /\ [ControlNext]_controlVars => ControlInv'
  BY ControlNextInv
<1>2. ControlInv => ControlTypeOK
  BY DEF ControlInv
<1>. QED
  BY ControlInitInv, <1>1, <1>2, PTL DEF ControlSpec

\* A request publishes at most one message, the one it asks for in the numbers devices
\* know, none if it is refused, fails or panics, and the one it is told of unless the
\* connection was lost meanwhile (controlDeviceHandler, createRequestData).
THEOREM CommandsAreTrue == ControlSpec => []CommandTrue
<1>1. ControlInv /\ [ControlNext]_controlVars => ControlInv'
  BY ControlNextInv
<1>2. ControlInv => CommandTrue
  <2> SUFFICES ASSUME ControlInv, NEW r \in Requests
               PROVE  /\ Len(sent[r]) <= 1
                      /\ \A i \in 1 .. Len(sent[r]) : Carries(sent[r][i], cmd[r])
                      /\ sent[r] # <<>> => reply[r].says = "sent"
                      /\ reply[r].says = "sent" => sent[r] # <<>> \/ lost[r]
    BY DEF CommandTrue
  <2>1. Sends(r)
    BY DEF ControlInv, Working
  <2>2. CASE sent[r] = <<>> /\ (reply[r].says = "sent" => lost[r])
    BY <2>2
  <2>3. CASE /\ cmd[r] \in Commands /\ cmd[r].type \in ControlTypes
             /\ sent[r] = <<createRequestData(cmd[r])>>
             /\ reply[r].says = "sent"
    <3>1. Carries(createRequestData(cmd[r]), cmd[r])
      BY <2>3, RequestCarries
    <3>. QED
      BY <2>3, <3>1
  <2>. QED
    BY <2>1, <2>2, <2>3 DEF Sends
<1>. QED
  BY ControlInitInv, <1>1, <1>2, PTL DEF ControlSpec

\* Whichever way a handler leaves, its MQTT client is disconnected when the request is
\* over, and not before (the deferred Disconnect of controlDeviceHandler).
THEOREM NoClientIsLeft == ControlSpec => []NoClientLeft
<1>1. ControlInv /\ [ControlNext]_controlVars => ControlInv'
  BY ControlNextInv
<1>2. ControlInv => NoClientLeft
  BY DEF ControlInv, Working, Works, NoClientLeft
<1>. QED
  BY ControlInitInv, <1>1, <1>2, PTL DEF ControlSpec
=============================================================================
