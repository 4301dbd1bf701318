---------------------------- MODULE DeviceControl ----------------------------
(***************************************************************************)
(* The HTTP handler that sends a command to a device: a request makes an    *)
(* MQTT client of its own, publishes one message and disconnects.  The      *)
(* client library connects again when the connection is lost, and takes a   *)
(* message for sent that it drops meanwhile.                               *)
(*                                                                         *)
(* A thing stands for its channel and identity.  Of the other parameters    *)
(* there is whether the nested part that the control type calls for is      *)
(* given: part.                                                            *)
(***************************************************************************)
EXTENDS Naturals, Sequences, HttpReply

CONSTANT Things  \* the devices

VARIABLES
  at,     \* where the handler of each connection is
  cmd,    \* the parameters of the request, the last one if there is none
  link,   \* the connection of its MQTT client: "off", "up", or "down" and coming back
  reply,  \* the answer, as written so far, and until the next request comes
  lost,   \* whether the MQTT connection was lost during the request
  sent    \* what has been written to it during the request

controlVars == <<at, cmd, link, reply, lost, sent>>

\* The message that each control type sends, and its number.
Table == [
  taskAdd |-> <<"TaskSync", 312>>, taskEdit |-> <<"TaskSync", 312>>,
  taskDelete |-> <<"TaskSync", 312>>, taskStart |-> <<"TaskStart", 231>>,
  taskStop |-> <<"TaskStop", 233>>, taskStatGet |-> <<"TaskStatusGet", 314>>,
  taskSyncStatusGet |-> <<"TaskSyncStatusGet", 333>>,
  soundConsleTaskControl |-> <<"SoundConsoleTaskControl", 275>>,
  deviceReboot |-> <<"DeviceReboot", 359>>, deviceInfoGet |-> <<"DeviceInfoGet", 229>>,
  deviceInfoSet |-> <<"DeviceInfoSet", 302>>, deviceAliaseSet |-> <<"DeviceAliaseSet", 331>>,
  deviceOutChannelEdit |-> <<"OutChannelEdit", 265>>,
  deviceInChannelEdit |-> <<"InChannelEdit", 269>>,
  deviceRestore |-> <<"DeviceRestore", 304>>, deviceLEDSet |-> <<"LedCfgSet", 336>>,
  deviceAmpCheckSet |-> <<"AmpCheckCfgSet", 344>>, deviceStereoSet |-> <<"StereoCfgSet", 329>>,
  devicePowerCfgSet |-> <<"DevicePowerSet", 310>>,
  deviceAudioMatrixCfgSet |-> <<"AudioMatrixCfgSet", 373>>,
  deviceRadioFreqGet |-> <<"RadioFreqGet", 294>>, deviceRadioFreqAdd |-> <<"RadioFreqAdd", 296>>,
  deviceRadioFreqSet |-> <<"RadioFreqSet", 298>>,
  deviceRadioFreqDelete |-> <<"RadioFreqDelete", 300>>,
  deviceUChannelSet |-> <<"UChannelSet", 397>>, deviceEqCfgSet |-> <<"EqCfgSet", 395>>,
  deviceSpeakerVolumeSet |-> <<"SpeakerVolumeSet", 391>>,
  deviceSpeechCfgSet |-> <<"SpeechCfgSet", 340>>,
  deviceBluetoothCfgSet |-> <<"BluetoothCfgSet", 348>>,
  deviceBluetoothWhitelistAdd |-> <<"BluetoothWhitelistAdd", 352>>,
  deviceBluetoothWhitelistDelete |-> <<"BluetoothWhitelistDelete", 354>>,
  deviceLogGet |-> <<"GetLog", 247>>, deviceUpgrade |-> <<"DeviceUpgrade", 306>>]

\* What a change of a task is called in a message of type TaskSync.
taskSyncType == [taskAdd |-> 0, taskEdit |-> 2, taskDelete |-> 1]

\* The numbers of messages and of changes that devices know.
MsgId == [
  TaskSync |-> 312, TaskStart |-> 231, TaskStop |-> 233, TaskStatusGet |-> 314,
  TaskSyncStatusGet |-> 333, SoundConsoleTaskControl |-> 275, DeviceReboot |-> 359,
  DeviceInfoGet |-> 229, DeviceInfoSet |-> 302, DeviceAliaseSet |-> 331,
  OutChannelEdit |-> 265, InChannelEdit |-> 269, DeviceRestore |-> 304, LedCfgSet |-> 336,
  AmpCheckCfgSet |-> 344, StereoCfgSet |-> 329, DevicePowerSet |-> 310,
  AudioMatrixCfgSet |-> 373, RadioFreqGet |-> 294, RadioFreqAdd |-> 296,
  RadioFreqSet |-> 298, RadioFreqDelete |-> 300, UChannelSet |-> 397, EqCfgSet |-> 395,
  SpeakerVolumeSet |-> 391, SpeechCfgSet |-> 340, BluetoothCfgSet |-> 348,
  BluetoothWhitelistAdd |-> 352, BluetoothWhitelistDelete |-> 354, GetLog |-> 247,
  DeviceUpgrade |-> 306]
TaskSyncType == [ADD |-> 0, DELETE |-> 1, EDIT |-> 2]

ControlTypes == DOMAIN Table

Commands == [type : ControlTypes \cup {"unknown"}, thing : Things, part : BOOLEAN]
NoCommand == [type |-> "none"]

\* The types whose request data is read out of the nested part, through a pointer.
Dereferenced == {"soundConsleTaskControl", "deviceAliaseSet", "devicePowerCfgSet"}

\* The message for command c.
createRequestData(c) ==
  [topic |-> IF c.type = "taskStatGet" THEN "common/device" ELSE c.thing,
   id |-> Table[c.type][2],
   data |-> Table[c.type][1],
   change |-> IF c.type \in DOMAIN taskSyncType THEN taskSyncType[c.type] ELSE 0]

Messages == {createRequestData(c) : c \in [type : ControlTypes, thing : Things, part : BOOLEAN]}

ControlTypeOK ==
  /\ at \in [Requests -> {"free", "connect", "build", "publish", "leave"}]
  /\ cmd \in [Requests -> Commands \cup {NoCommand}]
  /\ \A r \in Requests : at[r] # "free" => cmd[r] \in Commands
  /\ link \in [Requests -> {"off", "up", "down"}]
  /\ reply \in [Requests -> [status : {0, 200, 204}, shows : {{}},
                             says : {"nothing", "refused", "invalid", "failed", "aborted", "sent"}]]
  /\ lost \in [Requests -> BOOLEAN]
  /\ sent \in [Requests -> Seq(Messages)]

ControlInit ==
  /\ at = [r \in Requests |-> "free"]
  /\ cmd = [r \in Requests |-> NoCommand]
  /\ link = [r \in Requests |-> "off"]
  /\ reply = [r \in Requests |-> Silence]
  /\ lost = [r \in Requests |-> FALSE]
  /\ sent = [r \in Requests |-> <<>>]

-----------------------------------------------------------------------------
Goes(r, place) == at' = [at EXCEPT ![r] = place]
Replies(r, w) == reply' = [reply EXCEPT ![r] = w]

\* The handler of r returns, and its client is disconnected on the way out.
Returns(r, w) ==
  /\ Replies(r, w)
  /\ Goes(r, "leave")

\* A slip: the status is left to those who know how it ends.
ReceiveUndecided(r) ==
  /\ at[r] = "free"
  /\ "control" \in Asks[r]
  /\ \E c \in Commands : cmd' = [cmd EXCEPT ![r] = c]
  /\ Replies(r, Silence)
  /\ lost' = [lost EXCEPT ![r] = FALSE]
  /\ sent' = [sent EXCEPT ![r] = <<>>]
  /\ Goes(r, "connect")
  /\ UNCHANGED link

\* A request passes the handler's checks; the status is written.
Receive(r) ==
  /\ at[r] = "free"
  /\ "control" \in Asks[r]
  /\ \E c \in Commands : cmd' = [cmd EXCEPT ![r] = c]
  /\ Replies(r, WriteHeader(Silence, 200))
  /\ lost' = [lost EXCEPT ![r] = FALSE]
  /\ sent' = [sent EXCEPT ![r] = <<>>]
  /\ Goes(r, "connect")
  /\ UNCHANGED link

\* A preflight request, or one the handler refuses.
RefuseControl(r) ==
  /\ at[r] = "free"
  /\ \E w \in {handlePreflight, Refused} : Replies(r, w)
  /\ cmd' = [cmd EXCEPT ![r] = NoCommand]
  /\ lost' = [lost EXCEPT ![r] = FALSE]
  /\ sent' = [sent EXCEPT ![r] = <<>>]
  /\ UNCHANGED <<at, link>>

Connect(r) ==
  /\ at[r] = "connect"
  /\ link' = [link EXCEPT ![r] = "up"]
  /\ Goes(r, "build")
  /\ UNCHANGED <<cmd, reply, lost, sent>>

\* Nobody is told, and there is no client to disconnect.
ConnectFails(r) ==
  /\ at[r] = "connect"
  /\ Goes(r, "free")
  /\ UNCHANGED <<cmd, link, reply, lost, sent>>

Build(r) ==
  /\ at[r] = "build"
  /\ cmd[r].type \in ControlTypes
  /\ cmd[r].type \in Dereferenced => cmd[r].part
  /\ Goes(r, "publish")
  /\ UNCHANGED <<cmd, link, reply, lost, sent>>

BuildFails(r) ==
  /\ at[r] = "build"
  /\ cmd[r].type \notin ControlTypes
  /\ Returns(r, Error(reply[r], "invalid", 400))
  /\ UNCHANGED <<cmd, link, lost, sent>>

\* A slip: the client is disconnected at the end of the handler.
BuildPanicsUndeferred(r) ==
  /\ at[r] = "build"
  /\ cmd[r].type \in Dereferenced /\ ~cmd[r].part
  /\ Replies(r, Aborted)
  /\ Goes(r, "free")
  /\ UNCHANGED <<cmd, link, lost, sent>>

\* A pointer is nil: the handler panics, and net/http closes the connection.
BuildPanics(r) ==
  /\ at[r] = "build"
  /\ cmd[r].type \in Dereferenced /\ ~cmd[r].part
  /\ Returns(r, Aborted)
  /\ UNCHANGED <<cmd, link, lost, sent>>

\* A slip: the changes of a task are numbered in another order than the devices do.
PublishMisnumbered(r) ==
  /\ at[r] = "publish"
  /\ sent' = [sent EXCEPT ![r] = IF link[r] = "up"
       THEN Append(@, [createRequestData(cmd[r]) EXCEPT !.change = (3 - @) % 3]) ELSE @]
  /\ Returns(r, Body(reply[r], "sent", {}))
  /\ UNCHANGED <<cmd, link, lost>>

\* The message is written to the connection, or dropped until it is back.
Publish(r) ==
  /\ at[r] = "publish"
  /\ sent' = [sent EXCEPT ![r] =
       IF link[r] = "up" THEN Append(@, createRequestData(cmd[r])) ELSE @]
  /\ Returns(r, Body(reply[r], "sent", {}))
  /\ UNCHANGED <<cmd, link, lost>>

\* The connection breaks before the message is written.
PublishFails(r) ==
  /\ at[r] = "publish"
  /\ link[r] = "up"
  /\ link' = [link EXCEPT ![r] = "down"]
  /\ lost' = [lost EXCEPT ![r] = TRUE]
  /\ Returns(r, Error(reply[r], "failed", 500))
  /\ UNCHANGED <<cmd, sent>>

Disconnect(r) ==
  /\ at[r] = "leave"
  /\ link' = [link EXCEPT ![r] = "off"]
  /\ Goes(r, "free")
  /\ UNCHANGED <<cmd, reply, lost, sent>>

ConnectionLost(r) ==
  /\ link[r] = "up"
  /\ link' = [link EXCEPT ![r] = "down"]
  /\ lost' = [lost EXCEPT ![r] = TRUE]
  /\ UNCHANGED <<at, cmd, reply, sent>>

Reconnect(r) ==
  /\ link[r] = "down"
  /\ link' = [link EXCEPT ![r] = "up"]
  /\ UNCHANGED <<at, cmd, reply, lost, sent>>

controlDeviceHandler(r) ==
  \/ RefuseControl(r) \/ Receive(r)
  \/ Connect(r) \/ ConnectFails(r)
  \/ Build(r) \/ BuildFails(r) \/ BuildPanics(r)
  \/ Publish(r) \/ PublishFails(r) \/ Disconnect(r)

\* The process ends and is started again.
ControlRestart ==
  /\ at' = [r \in Requests |-> "free"]
  /\ cmd' = [r \in Requests |-> NoCommand]
  /\ link' = [r \in Requests |-> "off"]
  /\ reply' = [r \in Requests |-> Silence]
  /\ lost' = [r \in Requests |-> FALSE]
  /\ sent' = [r \in Requests |-> <<>>]

ControlNext ==
  \/ \E r \in Requests : controlDeviceHandler(r) \/ ConnectionLost(r) \/ Reconnect(r)
  \/ ControlRestart

ControlSpec == ControlInit /\ [][ControlNext]_controlVars

-----------------------------------------------------------------------------
(* Properties.                                                             *)

\* Message m is what command c asks for, in the numbers that the devices know.
Carries(m, c) ==
  /\ m.data = Table[c.type][1] /\ m.id = MsgId[m.data]
  /\ m.data = "TaskSync" =>
       m.change = CASE c.type = "taskAdd" -> TaskSyncType.ADD
                    [] c.type = "taskEdit" -> TaskSyncType.EDIT
                    [] c.type = "taskDelete" -> TaskSyncType.DELETE
  /\ m.topic = IF c.type = "taskStatGet" THEN "common/device" ELSE c.thing

\* A request publishes at most one message, the one it asks for; none if it is refused,
\* fails or panics; and the one it is told of, unless the MQTT connection was lost
\* meanwhile (controlDeviceHandler, createRequestData).
CommandTrue ==
  \A r \in Requests :
    /\ Len(sent[r]) <= 1
    /\ \A i \in 1 .. Len(sent[r]) : Carries(sent[r][i], cmd[r])
    /\ sent[r] # <<>> => reply[r].says = "sent"
    /\ reply[r].says = "sent" => sent[r] # <<>> \/ lost[r]

\* No MQTT client is left behind when its request is over, whichever way the handler
\* has left, nor is one disconnected before (the deferred Disconnect).
NoClientLeft ==
  \A r \in Requests : link[r] = "off" <=> at[r] \in {"free", "connect"}
=============================================================================
