---------------------------- MODULE DeviceTable ----------------------------
(***************************************************************************)
(* What the discovery of devices promises: a table of the devices heard     *)
(* lately, one entry per device name, the newest; from time to time it is   *)
(* emptied, and a request is answered with the table of one instant.        *)
(***************************************************************************)
CONSTANTS
  Adverts,  \* the advertisements of devices
  NameOf,   \* the device name in each
  Readers   \* the HTTP requests for the table

VARIABLES
  known,    \* the newest advertisement of every device heard
  view      \* the answer each reader is being given, {} when none

Init ==
  /\ known = {}
  /\ view = [r \in Readers |-> {}]

Learn(a) ==
  /\ known' = {b \in known : NameOf[b] # NameOf[a]} \cup {a}
  /\ UNCHANGED view

Forget ==
  /\ known' = {}
  /\ UNCHANGED view

Answer(r) ==
  /\ view' = [view EXCEPT ![r] = known]
  /\ UNCHANGED known

Done(r) ==
  /\ view' = [view EXCEPT ![r] = {}]
  /\ UNCHANGED known

Next ==
  \/ \E a \in Adverts : Learn(a)
  \/ Forget
  \/ \E r \in Readers : Answer(r) \/ Done(r)

TableSpec == Init /\ [][Next]_<<known, view>>
=============================================================================
