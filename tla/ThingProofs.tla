---------------------------- MODULE ThingProofs ----------------------------
(***************************************************************************)
(* Theorems about ThingSync: what a handling without a failure leaves in    *)
(* the rows of its device, for every set of devices, channels and values.   *)
(***************************************************************************)
EXTENDS ThingSync, TLAPS

-----------------------------------------------------------------------------
(* Facts about the operators.                                              *)

\* What a message in hand is made of.
LEMMA JobShape ==
  ASSUME NEW j \in Jobs
  PROVE /\ j.dev \in Devices
        /\ \/ j.field = "online" /\ j.val \in Statuses
           \/ j.field = "info" /\ j.val \in Infos
BY DEF Jobs

\* The rows of a device are numbered from 1 to its number of channels.
LEMMA RowParts ==
  \A r \in Rows : r = <<r[1], r[2]>> /\ r[1] \in Devices /\ r[2] \in 1 .. Outputs[r[1]]
<1>1. \A r \in Rows : \E e \in Devices : \E k \in 1 .. Outputs[e] : r = <<e, k>>
  BY DEF Rows
<1> QED
  BY <1>1

LEMMA RowShape ==
  ASSUME NEW d \in Devices, NEW i
  PROVE  (<<d, i>> \in Rows <=> i \in 1 .. Outputs[d]) /\ <<d, 1>> \in Rows
<1>1. Outputs[d] \in Nat \ {0}
  BY ThingAssumption
<1>2. <<d, i>> \in Rows => i \in 1 .. Outputs[d]
  BY RowParts
<1>3. \A e \in Devices : \A k \in 1 .. Outputs[e] : <<e, k>> \in Rows
  BY DEF Rows
<1> QED
  BY <1>1, <1>2, <1>3

\* The metadata written differ from those read in the field of the message alone.
LEMMA UpdatedShape ==
  ASSUME mem \in Metadata, job \in Jobs
  PROVE /\ Updated \in Metadata
        /\ Updated.note = mem.note
        /\ job.field = "online" => Updated.online = job.val /\ Updated.info = mem.info
        /\ job.field = "info" => Updated.info = job.val /\ Updated.online = mem.online
<1>1. CASE job.field = "online" /\ job.val \in Statuses
  BY <1>1 DEF Updated, Metadata
<1>2. CASE job.field = "info" /\ job.val \in Infos
  BY <1>2 DEF Updated, Metadata
<1> QED
  BY <1>1, <1>2, JobShape

-----------------------------------------------------------------------------
(* Type correctness.                                                       *)

\* Going back, and going on, keep the types.
LEMMA ReturnType ==
  ASSUME TypeOK, at # "idle", NEW f \in BOOLEAN, Return(f),
         rows' \in [Rows -> Metadata], alive' = alive
  PROVE  TypeOK'
<1>1. job \in Jobs
  BY DEF TypeOK
<1>2. settled' \in [Devices -> [online : Statuses \cup {Unset}, info : Infos \cup {Unset}]]
  <2>1. CASE job.field = "online" /\ job.val \in Statuses
    BY <2>1 DEF Return, TypeOK
  <2>2. CASE job.field = "info" /\ job.val \in Infos
    BY <2>2 DEF Return, TypeOK
  <2> QED
    BY <1>1, <2>1, <2>2, JobShape
<1> QED
  BY <1>2 DEF Return, TypeOK

LEMMA AdvanceType ==
  ASSUME TypeOK, at # "idle", NEW f \in BOOLEAN, Advance(f),
         rows' \in [Rows -> Metadata], alive' = alive
  PROVE  TypeOK'
<1>1. job \in Jobs /\ job.dev \in Devices /\ Target \in Rows
  BY JobShape DEF TypeOK
<1>2. channel \in 1 .. Outputs[job.dev] /\ Outputs[job.dev] \in Nat
  BY <1>1, RowShape, ThingAssumption DEF Target
<1>3. CASE channel + 1 <= Outputs[job.dev]
  <2>1. at' = "fetch" /\ channel' = channel + 1 /\ channel' > 1 /\ job' = job
    BY <1>2, <1>3 DEF Advance
  <2>2. Target' \in Rows
    <3>1. channel + 1 \in 1 .. Outputs[job.dev]
      BY <1>2, <1>3
    <3>2. <<job.dev, channel + 1>> \in Rows
      BY <1>1, <3>1, RowShape
    <3> QED
      BY <2>1, <3>2 DEF Target
  <2> QED
    BY <1>3, <2>1, <2>2 DEF Advance, TypeOK
<1>4. CASE ~(channel + 1 <= Outputs[job.dev])
  BY <1>4, ReturnType DEF Advance
<1> QED
  BY <1>3, <1>4

LEMMA HaltType ==
  ASSUME TypeOK, Halt
  PROVE  TypeOK'
BY DEF TypeOK, Halt

\* The row at hand after a write, done or not.
LEMMA WrittenType ==
  ASSUME TypeOK, at \in {"store", "put"}
  PROVE  [rows EXCEPT ![Target] = Updated] \in [Rows -> Metadata]
BY UpdatedShape DEF TypeOK

LEMMA TypeStep == TypeOK /\ [Next]_vars => TypeOK'
<1> SUFFICES ASSUME TypeOK, [Next]_vars PROVE TypeOK'
  OBVIOUS
<1>1. ASSUME NEW j \in Jobs, alive, Receive(j) PROVE TypeOK'
  <2>1. Target' \in Rows
    BY <1>1, JobShape, RowShape DEF Receive, Target
  <2>2. settled' \in [Devices -> [online : Statuses \cup {Unset}, info : Infos \cup {Unset}]]
    <3>1. CASE j.field = "online"
      BY <1>1, <3>1 DEF Receive, TypeOK
    <3>2. CASE j.field = "info"
      BY <1>1, <3>2 DEF Receive, TypeOK
    <3> QED
      BY <1>1, <3>1, <3>2, JobShape
  <2> QED
    BY <1>1, <2>1, <2>2 DEF Receive, TypeOK
<1>2. CASE Lookup
  <2>1. rows[Target] \in Metadata
    BY <1>2 DEF Lookup, TypeOK
  <2> QED
    BY <1>2, <2>1 DEF Lookup, TypeOK, Target
<1>3. CASE LookupSkips
  BY <1>3, ReturnType DEF LookupSkips, TypeOK
<1>3a. CASE LookupUncompared
  BY <1>3a, ReturnType DEF LookupUncompared, TypeOK
<1>4. CASE Write
  BY <1>4, AdvanceType, WrittenType DEF Write, TypeOK
<1>5. CASE WriteFails
  BY <1>5, AdvanceType, WrittenType DEF WriteFails, TypeOK
<1>6. CASE Fetch
  <2>1. rows[Target] \in Metadata
    BY <1>6 DEF Fetch, TypeOK
  <2> QED
    BY <1>6, <2>1 DEF Fetch, TypeOK, Target
<1>7. CASE FetchFails
  BY <1>7, AdvanceType DEF FetchFails, TypeOK
<1>8. CASE Halt
  BY <1>8, HaltType
<1>9. CASE Restart
  BY <1>9 DEF Restart, handlerVars, TypeOK, Target
<1>10. ASSUME NEW r \in Rows, NEW n \in Notes, PlatformEdit(r, n) PROVE TypeOK'
  <2>1. rows' \in [Rows -> Metadata]
    BY <1>10 DEF PlatformEdit, TypeOK, Metadata
  <2> QED
    BY <1>10, <2>1 DEF PlatformEdit, TypeOK, Target
<1>11. CASE UNCHANGED vars
  BY <1>11 DEF vars, handlerVars, TypeOK, Target
<1> QED
  BY <1>1, <1>2, <1>3, <1>3a, <1>4, <1>5, <1>6, <1>7, <1>8, <1>9, <1>10, <1>11
     DEF Next, Handling, LookupFatal, BareFatal, FatalElsewhere

LEMMA TypeStart == Init => TypeOK
<1> SUFFICES ASSUME Init PROVE TypeOK
  OBVIOUS
<1>1. rows \in [Rows -> Metadata]
  <2>1. [online : {Unset}, info : {Unset}, note : Notes] \subseteq Metadata
    BY DEF Metadata
  <2> QED
    BY <2>1 DEF Init
<1>2. settled \in [Devices -> [online : Statuses \cup {Unset}, info : Infos \cup {Unset}]]
  BY DEF Init
<1> QED
  BY <1>1, <1>2 DEF Init, TypeOK

\* The variables keep their types; in particular the row a handling is at is a
\* row of its device, however far the loop over the channels has come.
THEOREM TypeCorrect == Spec => []TypeOK
BY TypeStart, TypeStep, PTL DEF Spec

-----------------------------------------------------------------------------
(* The rows of a device.  OnlineTogether and InfoTogether speak of the time     *)
(* between messages; the invariant says what holds within a handling.         *)

\* The fields of the bridge in hand are those of the row it is at: only the
\* bridge writes them, and it handles one message at a time.
Fresh ==
  at \in {"store", "put"} =>
    mem.online = rows[Target].online /\ mem.info = rows[Target].info

\* Nothing is promised of the field a message in hand is setting.
Cleared == at # "idle" => settled[job.dev][job.field] = Unset

\* The loop over the channels: the rows behind it hold the new value, unless a
\* step has failed.
Behind ==
  at # "idle" /\ ~failed =>
    \A i \in 1 .. channel - 1 : rows[<<job.dev, i>>][job.field] = job.val

\* A device whose rows may differ in the device information.
Midway(d) == at # "idle" /\ job.dev = d /\ job.field = "info" /\ channel > 1

Alike ==
  ~faulty => \A d \in Devices : ~Midway(d) =>
    \A i \in 1 .. Outputs[d] : rows[<<d, i>>].info = rows[<<d, 1>>].info

RowsInv == Fresh /\ Cleared /\ Behind /\ Alike /\ OnlineTogether

\* What a step of the handling does to the row at hand: it sets the field of the
\* message, for certain if it has not failed, and leaves the other field.
Sets(f) ==
  /\ \A r \in Rows : r # Target => rows'[r].online = rows[r].online /\ rows'[r].info = rows[r].info
  /\ job.field = "online" => rows'[Target].info = rows[Target].info
  /\ job.field = "info" => rows'[Target].online = rows[Target].online
  /\ ~f => rows'[Target][job.field] = job.val

LEMMA WriteSets ==
  ASSUME TypeOK, Fresh, at \in {"store", "put"}, NEW f \in BOOLEAN,
         \/ rows' = [rows EXCEPT ![Target] = Updated]
         \/ rows' = rows /\ f
  PROVE  Sets(f)
<1>1. job \in Jobs /\ mem \in Metadata /\ Target \in Rows
  BY DEF TypeOK
<1>2. CASE rows' = rows /\ f
  BY <1>2 DEF Sets
<1>3. CASE rows' = [rows EXCEPT ![Target] = Updated]
  <2>1. rows'[Target] = Updated /\ \A r \in Rows : r # Target => rows'[r] = rows[r]
    BY <1>1, <1>3 DEF TypeOK
  <2>2. mem.online = rows[Target].online /\ mem.info = rows[Target].info
    BY DEF Fresh
  <2>3. CASE job.field = "online"
    BY <1>1, <2>1, <2>2, <2>3, UpdatedShape DEF Sets
  <2>4. CASE job.field = "info"
    BY <1>1, <2>1, <2>2, <2>4, UpdatedShape DEF Sets
  <2> QED
    BY <1>1, <2>3, <2>4, JobShape
<1> QED
  BY <1>2, <1>3

\* The loop goes on, or the handling returns, with the row at hand done.
LEMMA AdvanceKeeps ==
  ASSUME TypeOK, RowsInv, at # "idle", NEW f \in BOOLEAN, failed => f,
         Advance(f), Sets(f)
  PROVE  RowsInv'
<1>1. job \in Jobs /\ job.dev \in Devices /\ Target \in Rows /\ Target = <<job.dev, channel>>
  BY JobShape DEF TypeOK, Target
<1>2. channel \in 1 .. Outputs[job.dev] /\ Outputs[job.dev] \in Nat
  BY <1>1, RowShape, ThingAssumption
<1>3. job.field = "online" \/ job.field = "info"
  BY <1>1, JobShape
<1>4. ~f => \A i \in 1 .. channel : rows'[<<job.dev, i>>][job.field] = job.val
  <2> SUFFICES ASSUME ~f, NEW i \in 1 .. channel
               PROVE  rows'[<<job.dev, i>>][job.field] = job.val
    OBVIOUS
  <2>1. <<job.dev, i>> \in Rows
    <3>1. i \in 1 .. Outputs[job.dev]
      BY <1>2
    <3> QED
      BY <1>1, <3>1, RowShape
  <2>2. CASE i = channel
    BY <1>1, <2>2 DEF Sets
  <2>3. CASE i # channel
    <3>1. i \in 1 .. channel - 1 /\ <<job.dev, i>> # Target
      BY <1>1, <1>2, <2>3
    <3>2. rows[<<job.dev, i>>][job.field] = job.val
      BY <3>1 DEF RowsInv, Behind
    <3> QED
      BY <1>3, <2>1, <3>1, <3>2 DEF Sets
  <2> QED
    BY <2>2, <2>3
<1>5. ASSUME NEW d \in Devices, d # job.dev \/ job.field = "online", ~faulty,
             NEW i \in 1 .. Outputs[d]
      PROVE  rows'[<<d, i>>].info = rows'[<<d, 1>>].info
  <2>1. <<d, i>> \in Rows /\ <<d, 1>> \in Rows
    BY <1>5, RowShape
  <2>2. rows[<<d, i>>].info = rows[<<d, 1>>].info
    BY <1>5 DEF RowsInv, Alike, Midway
  <2>3. \A r \in Rows : r[1] = d => rows'[r].info = rows[r].info
    BY <1>1, <1>5 DEF Sets
  <2> QED
    BY <2>1, <2>2, <2>3
<1>6. \A r \in Rows : job.field = "info" \/ r[1] # job.dev => rows'[r].online = rows[r].online
  BY <1>1, <1>3 DEF Sets
<1>7. CASE channel + 1 <= Outputs[job.dev]
  <2>1. /\ at' = "fetch" /\ channel' = channel + 1 /\ failed' = f
        /\ job' = job /\ faulty' = faulty /\ settled' = settled
    BY <1>7 DEF Advance
  <2>2. Fresh' /\ Cleared'
    BY <2>1 DEF RowsInv, Fresh, Cleared
  <2>3. Behind'
    <3>1. channel' - 1 = channel
      BY <1>2, <2>1
    <3> QED
      BY <1>4, <2>1, <3>1 DEF Behind
  <2>4. Alike'
    <3>1. channel' > 1
      BY <1>2, <2>1
    <3> QED
      BY <1>3, <1>5, <2>1, <3>1 DEF Alike, Midway
  <2>5. OnlineTogether'
    <3>1. job.field = "online" => settled[job.dev].online = Unset
      BY DEF RowsInv, Cleared
    <3> QED
      BY <1>3, <1>6, <2>1, <3>1 DEF RowsInv, OnlineTogether
  <2> QED
    BY <2>2, <2>3, <2>4, <2>5 DEF RowsInv
<1>8. CASE ~(channel + 1 <= Outputs[job.dev])
  <2>1. Return(f) /\ channel = Outputs[job.dev]
    BY <1>2, <1>8 DEF Advance
  <2>2. Fresh' /\ Cleared' /\ Behind'
    BY <2>1 DEF Return, Fresh, Cleared, Behind
  <2>3. Alike'
    <3> SUFFICES ASSUME ~faulty', NEW d \in Devices, NEW i \in 1 .. Outputs[d]
                 PROVE  rows'[<<d, i>>].info = rows'[<<d, 1>>].info
      BY DEF Alike
    <3>1. ~faulty /\ ~f
      BY <2>1 DEF Return
    <3>2. CASE d = job.dev /\ job.field = "info"
      <4>1. 1 \in 1 .. channel /\ i \in 1 .. channel
        BY <1>2, <2>1, <3>2
      <4> QED
        BY <1>4, <3>1, <3>2, <4>1
    <3> QED
      BY <1>3, <1>5, <3>1, <3>2
  <2>4. OnlineTogether'
    <3> SUFFICES ASSUME NEW r \in Rows, settled'[r[1]].online # Unset
                 PROVE  rows'[r].online = settled'[r[1]].online
      BY DEF OnlineTogether
    <3>1. r[1] \in Devices /\ r = <<r[1], r[2]>> /\ r[2] \in 1 .. Outputs[r[1]]
      BY RowParts
    <3>2. CASE job.field = "online" /\ r[1] = job.dev
      <4>1. settled'[r[1]].online = job.val /\ ~f
        BY <2>1, <3>1, <3>2 DEF Return, TypeOK
      <4> QED
        BY <1>4, <2>1, <3>1, <3>2, <4>1
    <3>3. CASE job.field = "info" \/ r[1] # job.dev
      <4>1. settled'[r[1]].online = settled[r[1]].online
        BY <1>1, <1>3, <2>1, <3>1, <3>3 DEF Return, TypeOK
      <4> QED
        BY <1>6, <3>3, <4>1 DEF RowsInv, OnlineTogether
    <3> QED
      BY <1>3, <3>2, <3>3
  <2> QED
    BY <2>2, <2>3, <2>4 DEF RowsInv
<1> QED
  BY <1>7, <1>8

LEMMA RowsStart == Init => RowsInv
<1> SUFFICES ASSUME Init PROVE RowsInv
  OBVIOUS
<1>1. Fresh /\ Cleared /\ Behind
  BY DEF Init, Fresh, Cleared, Behind
<1>2. Alike
  <2>1. \A r \in Rows : rows[r].info = Unset
    BY DEF Init
  <2> QED
    BY <2>1, RowShape DEF Alike
<1>3. OnlineTogether
  <2>1. \A r \in Rows : r[1] \in Devices
    BY RowParts
  <2>2. \A d \in Devices : settled[d].online = Unset
    BY DEF Init
  <2> QED
    BY <2>1, <2>2 DEF OnlineTogether
<1> QED
  BY <1>1, <1>2, <1>3 DEF RowsInv

LEMMA RowsStep == TypeOK /\ RowsInv /\ [Next]_vars => RowsInv'
<1> SUFFICES ASSUME TypeOK, RowsInv, [Next]_vars PROVE RowsInv'
  OBVIOUS
<1>1. ASSUME NEW j \in Jobs, alive, Receive(j) PROVE RowsInv'
  <2>1. j.dev \in Devices /\ (j.field = "online" \/ j.field = "info")
    BY JobShape
  <2>2. Fresh'
    BY <1>1 DEF Receive, Fresh
  <2>3. Cleared'
    <3>1. settled'[j.dev][j.field] = Unset
      BY <1>1, <2>1 DEF Receive, TypeOK
    <3> QED
      BY <1>1, <3>1 DEF Receive, Cleared
  <2>4. Behind'
    BY <1>1 DEF Receive, Behind
  <2>5. Alike'
    BY <1>1 DEF Receive, RowsInv, Alike, Midway
  <2>6. OnlineTogether'
    <3>1. \A d \in Devices : settled'[d].online = Unset \/ settled'[d].online = settled[d].online
      BY <1>1, <2>1 DEF Receive, TypeOK
    <3> QED
      BY <1>1, <3>1, RowParts DEF Receive, RowsInv, OnlineTogether
  <2> QED
    BY <2>2, <2>3, <2>4, <2>5, <2>6 DEF RowsInv
<1>2. CASE Lookup
  <2>1. Target' = Target
    BY <1>2 DEF Lookup, Target
  <2> QED
    BY <1>2, <2>1 DEF Lookup, TypeOK, RowsInv, Fresh, Cleared, Behind, Alike, Midway, OnlineTogether
<1>3. CASE LookupSkips
  <2>1. job \in Jobs /\ job.dev \in Devices /\ channel = 1
    BY <1>3, JobShape DEF LookupSkips, TypeOK
  <2>2. Fresh' /\ Cleared' /\ Behind'
    BY <1>3 DEF LookupSkips, Return, Fresh, Cleared, Behind
  <2>3. Alike'
    <3>1. rows' = rows /\ (~faulty' => ~faulty)
      BY <1>3 DEF LookupSkips, Return
    <3>2. \A d \in Devices : ~Midway(d)
      BY <2>1 DEF Midway
    <3> QED
      BY <3>1, <3>2 DEF RowsInv, Alike
  <2>4. OnlineTogether'
    <3>1. \A d \in Devices : settled'[d].online = Unset \/ settled'[d].online = settled[d].online
      <4>1. CASE job.field = "online"
        BY <1>3, <2>1, <4>1 DEF LookupSkips, Uncalled, Return, TypeOK
      <4>2. CASE job.field = "info"
        BY <1>3, <2>1, <4>2 DEF LookupSkips, Return, TypeOK
      <4> QED
        BY <2>1, <4>1, <4>2, JobShape
    <3> QED
      BY <1>3, <3>1, RowParts DEF LookupSkips, RowsInv, OnlineTogether
  <2> QED
    BY <2>2, <2>3, <2>4 DEF RowsInv
<1>3a. CASE LookupUncompared
  <2>1. job \in Jobs /\ job.dev \in Devices /\ job.field = "info"
    BY <1>3a, JobShape DEF LookupUncompared, TypeOK
  <2>2. Fresh' /\ Cleared' /\ Behind'
    BY <1>3a DEF LookupUncompared, Return, Fresh, Cleared, Behind
  <2>3. Alike'
    BY <1>3a DEF LookupUncompared, Return, Alike
  <2>4. OnlineTogether'
    <3>1. \A d \in Devices : settled'[d].online = settled[d].online
      BY <1>3a, <2>1 DEF LookupUncompared, Return, TypeOK
    <3> QED
      BY <1>3a, <3>1, RowParts DEF LookupUncompared, RowsInv, OnlineTogether
  <2> QED
    BY <2>2, <2>3, <2>4 DEF RowsInv
<1>4. CASE Write
  <2>1. Sets(failed)
    BY <1>4, WriteSets DEF Write, TypeOK, RowsInv
  <2> QED
    BY <1>4, <2>1, AdvanceKeeps DEF Write, TypeOK
<1>5. CASE WriteFails
  <2>1. Sets(TRUE)
    BY <1>5, WriteSets DEF WriteFails, RowsInv
  <2> QED
    BY <1>5, <2>1, AdvanceKeeps DEF WriteFails, TypeOK
<1>6. CASE Fetch
  <2>1. Target' = Target
    BY <1>6 DEF Fetch, Target
  <2> QED
    BY <1>6, <2>1 DEF Fetch, RowsInv, Fresh, Cleared, Behind, Alike, Midway, OnlineTogether
<1>7. CASE FetchFails
  <2>1. Sets(TRUE)
    BY <1>7 DEF FetchFails, Sets
  <2> QED
    BY <1>7, <2>1, AdvanceKeeps DEF FetchFails, TypeOK
<1>8. CASE Halt
  <2>1. Fresh' /\ Cleared' /\ Behind' /\ OnlineTogether'
    BY <1>8 DEF Halt, RowsInv, Fresh, Cleared, Behind, OnlineTogether
  <2>2. Alike'
    BY <1>8 DEF Halt, RowsInv, Alike, Midway
  <2> QED
    BY <2>1, <2>2 DEF RowsInv
<1>9. CASE Restart
  <2>1. UNCHANGED <<rows, handlerVars>>
    BY <1>9 DEF Restart
  <2> QED
    BY <2>1 DEF handlerVars, RowsInv, Fresh, Cleared, Behind, Alike, Midway, Target, OnlineTogether
<1>10. ASSUME NEW r \in Rows, NEW n \in Notes, PlatformEdit(r, n) PROVE RowsInv'
  <2>1. \A s \in Rows : rows'[s].online = rows[s].online /\ rows'[s].info = rows[s].info
    BY <1>10 DEF PlatformEdit, TypeOK, Metadata
  <2>2. Fresh'
    BY <1>10, <2>1 DEF PlatformEdit, RowsInv, Fresh, TypeOK, Target
  <2>3. Cleared'
    BY <1>10 DEF PlatformEdit, RowsInv, Cleared
  <2>4. Behind'
    <3> SUFFICES ASSUME at # "idle", ~failed, NEW i \in 1 .. channel - 1
                 PROVE  rows'[<<job.dev, i>>][job.field] = job.val
      BY <1>10 DEF PlatformEdit, Behind
    <3>1. job \in Jobs /\ job.dev \in Devices /\ Target \in Rows
      BY JobShape DEF TypeOK
    <3>2. i \in 1 .. Outputs[job.dev]
      <4>1. channel \in 1 .. Outputs[job.dev] /\ Outputs[job.dev] \in Nat
        BY <3>1, RowShape, ThingAssumption DEF Target
      <4> QED
        BY <4>1
    <3>3. <<job.dev, i>> \in Rows
      BY <3>1, <3>2, RowShape
    <3>4. rows[<<job.dev, i>>][job.field] = job.val
      BY DEF RowsInv, Behind
    <3> QED
      BY <2>1, <3>1, <3>3, <3>4, JobShape
  <2>5. Alike'
    BY <1>10, <2>1, RowShape DEF PlatformEdit, RowsInv, Alike, Midway
  <2>6. OnlineTogether'
    BY <1>10, <2>1 DEF PlatformEdit, RowsInv, OnlineTogether
  <2> QED
    BY <2>2, <2>3, <2>4, <2>5, <2>6 DEF RowsInv
<1>11. CASE UNCHANGED vars
  BY <1>11 DEF vars, handlerVars, RowsInv, Fresh, Cleared, Behind, Alike, Midway, Target, OnlineTogether
<1> QED
  BY <1>1, <1>2, <1>3, <1>3a, <1>4, <1>5, <1>6, <1>7, <1>8, <1>9, <1>10, <1>11
     DEF Next, Handling, LookupFatal, BareFatal, FatalElsewhere

LEMMA RowsHold == Spec => []RowsInv
BY TypeStart, TypeStep, RowsStart, RowsStep, PTL DEF Spec

\* A login handled without a failure leaves its status in every row of its
\* device, and there it stays until the next login, through every failure,
\* crash and edit in between.
THEOREM StatusAgrees == Spec => []OnlineTogether
<1>1. RowsInv => OnlineTogether
  BY DEF RowsInv
<1> QED
  BY <1>1, RowsHold, PTL

\* Rows of one device differ in the device information only within a handling
\* of one, or after a handling that failed or was cut short.
THEOREM InfoAgrees == Spec => []InfoTogether
<1>1. RowsInv => InfoTogether
  <2> SUFFICES ASSUME RowsInv, ~faulty, at = "idle", NEW r \in Rows
               PROVE  rows[r].info = rows[<<r[1], 1>>].info
    BY DEF InfoTogether
  <2>1. r = <<r[1], r[2]>> /\ r[1] \in Devices /\ r[2] \in 1 .. Outputs[r[1]]
    BY RowParts
  <2> QED
    BY <2>1 DEF RowsInv, Alike, Midway
<1> QED
  BY <1>1, RowsHold, PTL

-----------------------------------------------------------------------------
(* The edits of the platform.                                              *)

\* What has been read of the platform's fields is what the row holds, or the
\* platform has edited the row since.
NoteFresh == at \in {"store", "put"} /\ ~edited => mem.note = rows[Target].note

LEMMA NoteStep == TypeOK /\ NoteFresh /\ [Next]_vars => NoteFresh'
<1> SUFFICES ASSUME TypeOK, NoteFresh, [Next]_vars PROVE NoteFresh'
  OBVIOUS
<1>1. ASSUME NEW j \in Jobs, Receive(j) PROVE NoteFresh'
  BY <1>1 DEF Receive, NoteFresh
<1>2. CASE Lookup
  BY <1>2 DEF Lookup, NoteFresh, Target
<1>3. CASE LookupSkips \/ LookupUncompared \/ Halt
  BY <1>3 DEF LookupSkips, LookupUncompared, Return, Halt, NoteFresh
<1>4. CASE Write \/ WriteFails \/ FetchFails
  BY <1>4 DEF Write, WriteFails, FetchFails, Advance, Return, NoteFresh
<1>5. CASE Fetch
  BY <1>5 DEF Fetch, NoteFresh, Target
<1>6. CASE Restart
  BY <1>6 DEF Restart, handlerVars, NoteFresh, Target
<1>7. ASSUME NEW r \in Rows, NEW n \in Notes, PlatformEdit(r, n) PROVE NoteFresh'
  <2>1. at \in {"store", "put"} /\ r # Target => rows'[Target] = rows[Target]
    BY <1>7 DEF PlatformEdit, TypeOK
  <2> QED
    BY <1>7, <2>1 DEF PlatformEdit, NoteFresh, Target
<1>8. CASE UNCHANGED vars
  BY <1>8 DEF vars, handlerVars, NoteFresh, Target
<1> QED
  BY <1>1, <1>2, <1>3, <1>4, <1>5, <1>6, <1>7, <1>8
     DEF Next, Handling, LookupFatal, BareFatal, FatalElsewhere

\* A step of the handling that writes does so to the row at hand alone.
LEMMA WriteKeepsNotes ==
  ASSUME TypeOK, NoteFresh, at \in {"store", "put"},
         rows' \in {rows, [rows EXCEPT ![Target] = Updated]}, NEW r \in Rows
  PROVE  rows'[r].note = rows[r].note \/ (r = Target /\ edited)
<1>1. Target \in Rows /\ mem \in Metadata /\ job \in Jobs
  BY DEF TypeOK
<1>2. CASE rows' = rows
  BY <1>2
<1>3. CASE rows' = [rows EXCEPT ![Target] = Updated]
  <2>1. rows'[r] = IF r = Target THEN Updated ELSE rows[r]
    BY <1>1, <1>3 DEF TypeOK
  <2> QED
    BY <1>1, <2>1, UpdatedShape DEF NoteFresh
<1> QED
  BY <1>2, <1>3

\* Writing metadata back undoes an edit of the platform only if the edit came
\* between the read and the write of the row it was made to.
THEOREM EditsSurvive == Spec => EditsKept
<1>1. Init => NoteFresh
  BY DEF Init, NoteFresh
<1>2. ASSUME TypeOK, NoteFresh, [Next]_vars, at' # at \/ channel' # channel, NEW r \in Rows
      PROVE  rows'[r].note = rows[r].note \/ (r = Target /\ edited)
  <2>1. CASE rows' = rows
    BY <2>1
  <2>2. CASE Write \/ WriteFails
    BY <1>2, <2>2, WriteKeepsNotes DEF Write, WriteFails
  <2>3. CASE \E s \in Rows, n \in Notes : PlatformEdit(s, n)
    BY <1>2, <2>3 DEF PlatformEdit
  <2> QED
    BY <1>2, <2>1, <2>2, <2>3
       DEF Next, Handling, Receive, Lookup, LookupSkips, LookupUncompared, LookupFatal,
           Fetch, FetchFails, BareFatal, FatalElsewhere, Halt, Restart, vars
<1>3. TypeOK /\ NoteFresh /\ [Next]_vars =>
        [at' # at \/ channel' # channel =>
           \A r \in Rows : rows'[r].note = rows[r].note \/ (r = Target /\ edited)]_vars
  BY <1>2
<1> QED
  BY <1>1, <1>3, TypeStart, TypeStep, NoteStep, PTL DEF Spec, EditsKept

-----------------------------------------------------------------------------
(* What ChannelsFollowInfo misses.  It is broken when a device's row holds    *)
(* the new information and a channel's does not, because an earlier handling  *)
(* has failed or was cut short: LookupSkips then leaves the channel as it is.  *)
(* Without such a handling it holds.                                       *)

FirstFollows ==
  ~faulty => \A d \in Devices :
    settled[d].info # Unset => rows[<<d, 1>>].info = settled[d].info

LEMMA AdvanceFollows ==
  ASSUME TypeOK, RowsInv, FirstFollows, at # "idle", NEW f \in BOOLEAN, failed => f,
         Advance(f), Sets(f)
  PROVE  FirstFollows'
<1>1. job \in Jobs /\ job.dev \in Devices /\ Target \in Rows /\ Target = <<job.dev, channel>>
  BY JobShape DEF TypeOK, Target
<1>2. channel \in 1 .. Outputs[job.dev] /\ Outputs[job.dev] \in Nat
  BY <1>1, RowShape, ThingAssumption
<1>3. job.field = "online" \/ job.field = "info"
  BY <1>1, JobShape
<1>4. ASSUME NEW d \in Devices, d # job.dev \/ job.field = "online"
      PROVE  rows'[<<d, 1>>].info = rows[<<d, 1>>].info
  BY <1>1, <1>4, RowShape DEF Sets
<1>5. ASSUME ~f, job.field = "info" PROVE rows'[<<job.dev, 1>>].info = job.val
  <2>1. CASE channel = 1
    BY <1>1, <1>5, <2>1 DEF Sets
  <2>2. CASE channel # 1
    <3>1. 1 \in 1 .. channel - 1
      BY <1>2, <2>2
    <3>2. rows[<<job.dev, 1>>].info = job.val
      BY <1>5, <3>1 DEF RowsInv, Behind
    <3>3. <<job.dev, 1>> \in Rows /\ <<job.dev, 1>> # Target
      BY <1>1, <2>2, RowShape
    <3>. QED
      BY <3>2, <3>3 DEF Sets
  <2>. QED
    BY <2>1, <2>2
<1>6. CASE channel + 1 <= Outputs[job.dev]
  <2>1. faulty' = faulty /\ settled' = settled
    BY <1>6 DEF Advance
  <2>2. job.field = "info" => settled[job.dev].info = Unset
    BY DEF RowsInv, Cleared
  <2>. QED
    BY <1>3, <1>4, <2>1, <2>2 DEF FirstFollows
<1>7. CASE ~(channel + 1 <= Outputs[job.dev])
  <2>1. Return(f) /\ (~faulty' => ~faulty /\ ~f)
    BY <1>7 DEF Advance, Return
  <2>2. \A d \in Devices : d # job.dev \/ job.field = "online" =>
                             settled'[d].info = settled[d].info
    BY <1>1, <1>3, <2>1 DEF Return, TypeOK
  <2>3. job.field = "info" => settled'[job.dev].info \in {Unset, job.val}
    BY <1>1, <2>1 DEF Return, TypeOK
  <2>. QED
    BY <1>3, <1>4, <1>5, <2>1, <2>2, <2>3 DEF FirstFollows
<1>. QED
  BY <1>6, <1>7

LEMMA FollowsStep == TypeOK /\ RowsInv /\ FirstFollows /\ [Next]_vars => FirstFollows'
<1>. SUFFICES ASSUME TypeOK, RowsInv, FirstFollows, [Next]_vars PROVE FirstFollows'
  OBVIOUS
<1>1. ASSUME NEW j \in Jobs, Receive(j) PROVE FirstFollows'
  <2>1. j.dev \in Devices /\ (j.field = "online" \/ j.field = "info")
    BY JobShape
  <2>2. \A d \in Devices : settled'[d].info \in {Unset, settled[d].info}
    BY <1>1, <2>1 DEF Receive, TypeOK
  <2>. QED
    BY <1>1, <2>2 DEF Receive, FirstFollows
<1>2. CASE Lookup \/ Fetch
  BY <1>2 DEF Lookup, Fetch, FirstFollows
<1>3. CASE LookupSkips
  <2>1. job \in Jobs /\ job.dev \in Devices /\ channel = 1 /\ Target = <<job.dev, 1>>
    BY <1>3, JobShape DEF LookupSkips, TypeOK, Target
  <2>2. rows' = rows /\ (~faulty' => ~faulty)
    BY <1>3 DEF LookupSkips, Return
  <2>3. \A d \in Devices : d # job.dev \/ job.field = "online" =>
                             settled'[d].info = settled[d].info
    BY <1>3, <2>1, JobShape DEF LookupSkips, Return, TypeOK
  <2>4. job.field = "info" =>
          settled'[job.dev].info = Unset \/ settled'[job.dev].info = rows[<<job.dev, 1>>].info
    BY <1>3, <2>1 DEF LookupSkips, Uncalled, Return, TypeOK
  <2>. QED
    BY <2>1, <2>2, <2>3, <2>4, JobShape DEF FirstFollows
<1>4. CASE Write
  <2>1. Sets(failed) /\ failed \in BOOLEAN /\ at # "idle" /\ Advance(failed)
    BY <1>4, WriteSets DEF Write, TypeOK, RowsInv
  <2>. QED
    BY <2>1, AdvanceFollows
<1>5. CASE WriteFails
  <2>1. Sets(TRUE) /\ at # "idle" /\ Advance(TRUE)
    BY <1>5, WriteSets DEF WriteFails, RowsInv
  <2>. QED
    BY <2>1, AdvanceFollows
<1>6. CASE FetchFails
  <2>1. Sets(TRUE) /\ at # "idle" /\ Advance(TRUE)
    BY <1>6 DEF FetchFails, Sets
  <2>. QED
    BY <2>1, AdvanceFollows
<1>7. CASE LookupUncompared \/ Halt \/ Restart
  BY <1>7 DEF LookupUncompared, Return, Halt, Restart, handlerVars, FirstFollows
<1>8. ASSUME NEW r \in Rows, NEW n \in Notes, PlatformEdit(r, n) PROVE FirstFollows'
  <2>1. \A s \in Rows : rows'[s].info = rows[s].info
    BY <1>8 DEF PlatformEdit, TypeOK, Metadata
  <2>. QED
    BY <1>8, <2>1, RowShape DEF PlatformEdit, FirstFollows
<1>9. CASE UNCHANGED vars
  BY <1>9 DEF vars, handlerVars, FirstFollows
<1>. QED
  BY <1>1, <1>2, <1>3, <1>4, <1>5, <1>6, <1>7, <1>8, <1>9
     DEF Next, Handling, LookupFatal, BareFatal, FatalElsewhere

\* As long as no handling has failed or been cut short, every channel of a device shows the
\* device information that was handled last, from its handling to the next one: what the
\* comment in updateInfo promises, under the condition it leaves out.
THEOREM InfoFollowsIfNothingFails == Spec => [](~faulty => ChannelsFollowInfo)
<1>1. Init => FirstFollows
  BY DEF Init, FirstFollows
<1>2. Spec => []FirstFollows
  BY <1>1, FollowsStep, TypeCorrect, RowsHold, PTL DEF Spec
<1>3. ASSUME RowsInv, FirstFollows, ~faulty PROVE ChannelsFollowInfo
  <2>1. SUFFICES ASSUME NEW r \in Rows, settled[r[1]].info # Unset
                 PROVE  rows[r].info = settled[r[1]].info
    BY DEF ChannelsFollowInfo
  <2>2. r = <<r[1], r[2]>> /\ r[1] \in Devices /\ r[2] \in 1 .. Outputs[r[1]]
    BY RowParts
  <2>3. ~Midway(r[1])
    BY <1>3, <2>1 DEF RowsInv, Cleared, Midway
  <2>. QED
    BY <1>3, <2>1, <2>2, <2>3 DEF RowsInv, Alike, FirstFollows
<1>. QED
  BY <1>2, <1>3, RowsHold, PTL

-----------------------------------------------------------------------------
(* What is behind HandlingEnds: a handling has two steps per channel that is  *)
(* left, whether they fail or not.                                         *)

\* The steps that are left at most.
Left ==
  IF at = "idle" THEN 0
  ELSE 2 * (Outputs[job.dev] - channel) + IF at \in {"lookup", "fetch"} THEN 2 ELSE 1

HandlingAdvances ==
  [][at # "idle" => IF Handling THEN Left' < Left ELSE Left' <= Left]_vars

LEMMA LeftFacts ==
  ASSUME TypeOK, at # "idle"
  PROVE  /\ Outputs[job.dev] \in Nat /\ channel \in 1 .. Outputs[job.dev]
         /\ Left \in Nat /\ Left > 0
<1>1. job \in Jobs /\ job.dev \in Devices /\ Target \in Rows /\ Target = <<job.dev, channel>>
  BY JobShape DEF TypeOK, Target
<1>2. channel \in 1 .. Outputs[job.dev] /\ Outputs[job.dev] \in Nat
  BY <1>1, RowShape, ThingAssumption
<1>. QED
  BY <1>2 DEF Left

LEMMA AdvanceLess ==
  ASSUME TypeOK, at # "idle", NEW f, Advance(f)
  PROVE  Left' < Left
<1>1. Outputs[job.dev] \in Nat /\ channel \in 1 .. Outputs[job.dev] /\ Left \in Nat /\ Left > 0
  BY LeftFacts
<1>2. CASE channel + 1 <= Outputs[job.dev]
  <2>1. at' = "fetch" /\ channel' = channel + 1 /\ job' = job
    BY <1>2 DEF Advance
  <2>2. Left' = 2 * (Outputs[job.dev] - (channel + 1)) + 2
    BY <2>1 DEF Left
  <2>3. Left >= 2 * (Outputs[job.dev] - channel) + 1
    BY <1>1 DEF Left
  <2>. QED
    BY <1>1, <2>2, <2>3
<1>3. CASE ~(channel + 1 <= Outputs[job.dev])
  BY <1>1, <1>3 DEF Advance, Return, Left
<1>. QED
  BY <1>2, <1>3

\* Every step of a handling brings its end nearer, whatever fails, and nothing that the
\* platform or the rest of the process does in between puts it off: no row is tried twice
\* (updateInfo, updateClientConnectionStatus).
THEOREM HandlingsAdvance == Spec => [](Left \in Nat) /\ HandlingAdvances
<1>0. ASSUME TypeOK PROVE Left \in Nat
  BY <1>0, LeftFacts DEF Left
<1>1. ASSUME TypeOK, [Next]_vars, at # "idle"
      PROVE  IF Handling THEN Left' < Left ELSE Left' <= Left
  <2>1. Outputs[job.dev] \in Nat /\ channel \in 1 .. Outputs[job.dev] /\ Left \in Nat /\ Left > 0
    BY <1>1, LeftFacts
  <2>2. ASSUME Lookup \/ Fetch PROVE Left' < Left
    <3>1. /\ job' = job /\ channel' = channel
          /\ at \in {"lookup", "fetch"} /\ at' \in {"store", "put"}
      BY <2>2 DEF Lookup, Fetch
    <3>. QED
      BY <2>1, <3>1 DEF Left
  <2>3. ASSUME Write \/ WriteFails \/ FetchFails PROVE Left' < Left
    <3>1. Advance(failed) \/ Advance(TRUE)
      BY <2>3 DEF Write, WriteFails, FetchFails
    <3>. QED
      BY <1>1, <3>1, AdvanceLess
  <2>4. ASSUME LookupSkips \/ LookupUncompared \/ Halt PROVE Left' < Left
    <3>1. at' = "idle"
      BY <2>4 DEF LookupSkips, LookupUncompared, Return, Halt
    <3>2. Left' = 0
      BY <3>1 DEF Left
    <3>. QED
      BY <2>1, <3>2
  <2>5. ASSUME Handling PROVE Left' < Left
    BY <2>2, <2>3, <2>4, <2>5 DEF Handling, LookupFatal, BareFatal
  <2>6. ASSUME UNCHANGED <<at, job, channel>> PROVE Left' <= Left
    BY <2>1, <2>6 DEF Left
  <2>7. ASSUME ~Handling PROVE Left' <= Left
    <3>1. CASE Restart \/ (\E r \in Rows, n \in Notes : PlatformEdit(r, n)) \/ UNCHANGED vars
      BY <2>6, <3>1 DEF Restart, PlatformEdit, vars, handlerVars
    <3>2. CASE FatalElsewhere
      <4>1. Left' = 0
        BY <3>2 DEF FatalElsewhere, Halt, Left
      <4>. QED
        BY <2>1, <4>1
    <3>. QED
      BY <1>1, <2>7, <3>1, <3>2 DEF Next, Receive
  <2>. QED
    BY <2>5, <2>7
<1>2. TypeOK /\ [Next]_vars =>
        [at # "idle" => IF Handling THEN Left' < Left ELSE Left' <= Left]_vars
  BY <1>1
<1>. QED
  BY <1>0, <1>2, TypeCorrect, PTL DEF Spec, HandlingAdvances
=============================================================================
