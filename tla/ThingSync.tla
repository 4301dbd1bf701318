----------------------------- MODULE ThingSync -----------------------------
(***************************************************************************)
(* The database side of the bridge: what the database case of              *)
(* handleMessages does with a login or a device information.  It reads the  *)
(* metadata of the device's row in the things database, changes one field   *)
(* and writes all of it back; for a device of several output channels it    *)
(* then does the same with the row of every further channel.                *)
(*                                                                         *)
(* Every read and every write is a step of its own, without a transaction   *)
(* around them, so the platform, which edits the same rows, may come in     *)
(* between, and the process may end in between.  A failed read of the       *)
(* device's row ends the process; every other failure is passed over.       *)
(* The fields the code derives from a device information (the alias of a    *)
(* channel, the list of channels) go with the field info.                   *)
(***************************************************************************)
EXTENDS Naturals

CONSTANTS
  Devices,    \* device names, which are the identities of their rows
  Outputs,    \* Outputs[d]: the channels of d's row, 1 if it is not a device of
              \* several (out_channel above 1, is_channel "0")
  Platforms,  \* devices whose row is named for a platform
  Statuses,   \* the values of is_online
  Infos,      \* device informations
  Bare,       \* device informations without a list of channels
  Notes,      \* what the platform keeps in the other fields
  Unset       \* no value

ASSUME ThingAssumption ==
  /\ Outputs \in [Devices -> Nat \ {0}]
  /\ Platforms \subseteq Devices
  /\ Bare \subseteq Infos
  /\ Unset \notin Statuses \cup Infos

VARIABLES
  alive,    \* FALSE while the process is down
  rows,     \* the metadata of every row
  job,      \* the message being handled: device, field it sets, value
  at,       \* where its handling is
  channel,  \* the channel whose row it is at
  mem,      \* the metadata it has read
  failed,   \* a step of this handling has failed
  faulty,   \* some handling has failed, or was cut short
  settled,  \* per device and field: the value of the last message, once it has
            \* been handled without a failure
  edited    \* the platform has edited the row at hand since it was read

handlerVars == <<job, at, channel, mem, failed, faulty, settled, edited>>
vars == <<alive, rows, handlerVars>>

Rows == UNION {{<<d, i>> : i \in 1 .. Outputs[d]} : d \in Devices}
Metadata == [online : Statuses \cup {Unset}, info : Infos \cup {Unset}, note : Notes]
Jobs == [dev : Devices, field : {"online"}, val : Statuses]
        \cup [dev : Devices, field : {"info"}, val : Infos]

\* The row the handling is at: identity, or identity + "_" + i.
Target == <<job.dev, channel>>

TypeOK ==
  /\ alive \in BOOLEAN
  /\ rows \in [Rows -> Metadata]
  /\ at \in {"idle", "lookup", "store", "fetch", "put"}
  /\ at # "idle" => alive /\ job \in Jobs /\ Target \in Rows
  /\ at \in {"lookup", "store"} => channel = 1
  /\ at \in {"fetch", "put"} => channel > 1
  /\ at \in {"store", "put"} => mem \in Metadata
  /\ failed \in BOOLEAN
  /\ faulty \in BOOLEAN
  /\ settled \in [Devices -> [online : Statuses \cup {Unset}, info : Infos \cup {Unset}]]
  /\ edited \in BOOLEAN

Init ==
  /\ alive = TRUE
  /\ rows \in [Rows -> [online : {Unset}, info : {Unset}, note : Notes]]
  /\ job = Unset
  /\ at = "idle"
  /\ channel = 1
  /\ mem = Unset
  /\ failed = FALSE
  /\ faulty = FALSE
  /\ settled = [d \in Devices |-> [online |-> Unset, info |-> Unset]]
  /\ edited = FALSE

-----------------------------------------------------------------------------
(* handleDBUpdate, with updateClientConnectionStatus for a login and        *)
(* updateClientInfo for a device information.                              *)

\* A message of a kind the database keeps.
Receive(j) ==
  /\ at = "idle"
  /\ job' = j
  /\ at' = "lookup"
  /\ channel' = 1
  /\ mem' = Unset
  /\ edited' = FALSE
  /\ failed' = FALSE
  /\ settled' = [settled EXCEPT ![j.dev][j.field] = Unset]
  /\ UNCHANGED <<alive, rows, faulty>>

\* The handling returns, having met a failure if f.
Return(f) ==
  /\ at' = "idle"
  /\ job' = Unset
  /\ channel' = 1
  /\ mem' = Unset
  /\ edited' = FALSE
  /\ failed' = FALSE
  /\ faulty' = (faulty \/ f)
  /\ settled' = [settled EXCEPT ![job.dev][job.field] =
                   IF f \/ job.dev \in Platforms THEN Unset ELSE job.val]

\* A slip: the loop stops before the last channel.
AdvanceShort(f) ==
  IF channel + 1 < Outputs[job.dev]
  THEN /\ at' = "fetch"
       /\ channel' = channel + 1
       /\ mem' = Unset
       /\ edited' = FALSE
       /\ failed' = f
       /\ UNCHANGED <<job, faulty, settled>>
  ELSE Return(f)

\* A slip: the loop counts the channels from 1.
AdvanceLong(f) ==
  IF channel <= Outputs[job.dev]
  THEN /\ at' = "fetch"
       /\ channel' = channel + 1
       /\ mem' = Unset
       /\ edited' = FALSE
       /\ failed' = f
       /\ UNCHANGED <<job, faulty, settled>>
  ELSE Return(f)

\* On to the next channel's row, or back.
Advance(f) ==
  IF channel + 1 <= Outputs[job.dev]
  THEN /\ at' = "fetch"
       /\ channel' = channel + 1
       /\ mem' = Unset
       /\ edited' = FALSE
       /\ failed' = f
       /\ UNCHANGED <<job, faulty, settled>>
  ELSE Return(f)

\* There is nothing to change: the row names a platform, or holds this device
\* information already.
Uncalled(row) ==
  \/ job.dev \in Platforms
  \/ job.field = "info" /\ row.info = job.val

Lookup ==
  /\ at = "lookup"
  /\ ~Uncalled(rows[Target])
  /\ mem' = rows[Target]
  /\ at' = "store"
  /\ UNCHANGED <<alive, rows, job, channel, failed, faulty, settled, edited>>

LookupSkips ==
  /\ at = "lookup"
  /\ Uncalled(rows[Target])
  /\ Return(failed)
  /\ UNCHANGED <<alive, rows>>

\* The stored and the new device information cannot be compared: what is stored
\* is none (the platform writes the row too), or a number of the new one has no
\* JSON form.  Nothing is updated.
LookupUncompared ==
  /\ at = "lookup"
  /\ job.field = "info"
  /\ job.dev \notin Platforms
  /\ rows[Target].info # Unset
  /\ Return(TRUE)
  /\ UNCHANGED <<alive, rows>>

\* The metadata read, with the field of this message set.
Updated == [mem EXCEPT ![job.field] = job.val]

\* updateThingDB on the row at hand: for the device in "store", for a channel
\* in "put".
Write ==
  /\ at \in {"store", "put"}
  /\ rows' = [rows EXCEPT ![Target] = Updated]
  /\ Advance(failed)
  /\ UNCHANGED alive

\* A slip: the row is read and written again until the write succeeds.
WriteFailsRetries ==
  /\ at \in {"store", "put"}
  /\ rows' \in {rows, [rows EXCEPT ![Target] = Updated]}
  /\ at' = IF at = "store" THEN "lookup" ELSE "fetch"
  /\ mem' = Unset
  /\ edited' = FALSE
  /\ failed' = TRUE
  /\ UNCHANGED <<alive, job, channel, faulty, settled>>

\* Its error is ignored; the write may have been done all the same.
WriteFails ==
  /\ at \in {"store", "put"}
  /\ rows' \in {rows, [rows EXCEPT ![Target] = Updated]}
  /\ Advance(TRUE)
  /\ UNCHANGED alive

\* A slip: the metadata of the row before is used again.
FetchKeepsRow ==
  /\ at = "fetch"
  /\ ~(job.field = "info" /\ job.val \in Bare)
  /\ mem' = rows[<<job.dev, channel - 1>>]
  /\ at' = "put"
  /\ UNCHANGED <<alive, rows, job, channel, failed, faulty, settled, edited>>

Fetch ==
  /\ at = "fetch"
  /\ ~(job.field = "info" /\ job.val \in Bare)
  /\ mem' = rows[Target]
  /\ at' = "put"
  /\ UNCHANGED <<alive, rows, job, channel, failed, faulty, settled, edited>>

\* A channel's row cannot be read, or is not there: on to the next.
FetchFails ==
  /\ at = "fetch"
  /\ Advance(TRUE)
  /\ UNCHANGED <<alive, rows>>

-----------------------------------------------------------------------------
(* The process ends, and is started again by whoever runs it.              *)

\* What the handling had in memory is lost.
Halt ==
  /\ alive' = FALSE
  /\ at' = "idle"
  /\ job' = Unset
  /\ channel' = 1
  /\ mem' = Unset
  /\ edited' = FALSE
  /\ failed' = FALSE
  /\ faulty' = (faulty \/ at # "idle")
  /\ UNCHANGED <<rows, settled>>

\* The device's row cannot be read: log.Fatal.
LookupFatal == at = "lookup" /\ Halt

\* A device information without a list of channels reaches a channel's row: the
\* list is read through a nil pointer.
BareFatal ==
  /\ at = "fetch"
  /\ job.field = "info"
  /\ job.val \in Bare
  /\ Halt

\* log.Fatal, a panic or a fatal error of the runtime in another part.
FatalElsewhere == alive /\ Halt

Restart ==
  /\ ~alive
  /\ alive' = TRUE
  /\ UNCHANGED <<rows, handlerVars>>

-----------------------------------------------------------------------------
\* The platform writes fields of its own to a row.
PlatformEdit(r, n) ==
  /\ rows' = [rows EXCEPT ![r].note = n]
  /\ edited' = (edited \/ (at \in {"store", "put"} /\ r = Target))
  /\ UNCHANGED <<alive, job, at, channel, mem, failed, faulty, settled>>

Handling ==
  \/ Lookup
  \/ LookupSkips
  \/ LookupUncompared
  \/ LookupFatal
  \/ Write
  \/ WriteFails
  \/ Fetch
  \/ FetchFails
  \/ BareFatal

Next ==
  \/ alive /\ \E j \in Jobs : Receive(j)
  \/ Handling
  \/ FatalElsewhere
  \/ Restart
  \/ \E r \in Rows, n \in Notes : PlatformEdit(r, n)

Spec == Init /\ [][Next]_vars

\* A call of the database returns, with or without an error.
FairSpec == Spec /\ WF_vars(Handling)

-----------------------------------------------------------------------------
(* Properties.                                                             *)

\* Once a login has been handled without a failure, every row of its device
\* shows the same status, the one it brought, whatever failed or was cut short
\* before, until the next login (updateClientConnectionStatus).
OnlineTogether ==
  \A r \in Rows :
    settled[r[1]].online # Unset => rows[r].online = settled[r[1]].online

\* If no handling has failed or been cut short, all rows of a device hold the
\* same device information between messages (updateInfo).
InfoTogether ==
  ~faulty /\ at = "idle" => \A r \in Rows : rows[r].info = rows[<<r[1], 1>>].info

\* What the comment in updateInfo says: all channels of a device are changed
\* together.  Once a device information has been handled without a failure,
\* every row of its device holds it.
ChannelsFollowInfo ==
  \A r \in Rows :
    settled[r[1]].info # Unset => rows[r].info = settled[r[1]].info

\* The bridge writes metadata back as it read them, so an edit of the platform
\* gets lost only if it falls between the read and the write of the very row it
\* is made to (getThingClientFromDB, updateThingDB).
EditsKept ==
  [][at' # at \/ channel' # channel =>
       \A r \in Rows : rows'[r].note = rows[r].note \/ (r = Target /\ edited)]_vars

\* The handling of a message ends: no failing row keeps handleMessages from the
\* next message.
HandlingEnds == at # "idle" ~> at = "idle"
=============================================================================
