------------------------------- MODULE MCApi --------------------------------
(***************************************************************************)
(* A small instance of TaskStore and one of DeviceControl.  The two share   *)
(* no variable, so a behaviour of this module is one of the one or of the   *)
(* other, and the variables of the idle half stay as they are.             *)
(***************************************************************************)
EXTENDS TaskStore, DeviceControl

CONSTANTS r1, r2, u1, u2, tasks, console, speaker

TwoConnections == {r1, r2}
JustTasks == {tasks}
JustConsole == {console}
TwoUuids == {u1, u2}
OneUuid == {u1}
OneThing == {speaker}

\* Two that read do not meet: they do nothing to each other.
Asking == [r \in TwoConnections |->
  {"add", "update", "delete", "save"} \cup IF r = r1 THEN {"list", "get", "control"} ELSE {}]

VARIABLE half

MCInit ==
  /\ Init
  /\ ControlInit
  /\ half \in {"store", "control"}
  /\ half = "control" => \A k \in Folders \X Uuids : store[k] = Nothing

MCNext ==
  /\ \/ half = "store" /\ Next /\ UNCHANGED controlVars
     \/ half = "control" /\ ControlNext /\ UNCHANGED vars
  /\ UNCHANGED half

MCSpec ==
  /\ MCInit
  /\ [][MCNext]_<<vars, controlVars, half>>
  /\ \A r \in Requests : HandlerFairness(r)
=============================================================================
