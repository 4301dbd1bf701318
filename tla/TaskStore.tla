------------------------------ MODULE TaskStore ------------------------------
(***************************************************************************)
(* The HTTP handlers that keep tasks and console scenes as objects in       *)
(* MinIO.  The bridge keeps nothing of them itself: a request reads or      *)
(* writes objects with calls of their own.  Between two calls other         *)
(* requests come, any call may fail, and the process may end.               *)
(*                                                                         *)
(* An object is the uuid it bears and the connection whose body it holds.   *)
(* A request with a path addresses that folder, one without the folder of   *)
(* its comID; task requests are taken to address folders of tasks.  The     *)
(* uuid that a new task comes with makes no difference.  A listing is one   *)
(* call.                                                                   *)
(***************************************************************************)
EXTENDS Naturals, HttpReply

CONSTANTS
  TaskFolders,  \* the prefixes of task objects
  TaskUuids,    \* the uuids of tasks
  SceneFolders, \* the prefixes of console scenes
  SceneUuids,   \* the uuids of scenes
  Nothing       \* no object

Folders == TaskFolders \cup SceneFolders
Uuids == TaskUuids \cup SceneUuids
Objects == [uuid : Uuids, from : Requests]
Entries == Uuids \X (Objects \cup {Nothing})

ASSUME StoreAssumption == Nothing \notin Objects \cup Entries \cup Uuids

VARIABLES
  store,   \* the object of each folder and uuid
  pc,      \* where the handler of each connection is
  req,     \* what was asked for
  uuid,    \* Task.Uuid, as it is now
  names,   \* objects listed and not read yet
  found,   \* tasks read, with the uuids of their objects
  answer,  \* the answer, as written so far, and until the next request comes
  seen,    \* what there was that concerns a request since it is open
  took,    \* the uuid and the object of a request's effect
  trouble  \* the requests that a call has failed

handlerVars == <<pc, req, uuid, names, found, answer>>
historyVars == <<seen, took, trouble>>
vars == <<store, handlerVars, historyVars>>

Queries == [op : {"list", "add"}, folder : TaskFolders, uuid : {Nothing}]
  \cup [op : {"update", "delete"}, folder : TaskFolders, uuid : TaskUuids]
  \cup [op : {"save", "get"}, folder : SceneFolders, uuid : SceneUuids]
NoQuery == [op |-> "none"]
Verdicts == {"nothing", "refused", "missing", "failed", "added", "updated", "created",
             "deleted", "listed", "got"}

Open(r) == pc[r] # "free"

\* What could be found in its folder that makes a difference to query q.
Scope(q) ==
  CASE q.op = "list" -> Entries
    [] q.op \in {"get", "update"} -> {q.uuid} \X (Objects \cup {Nothing})
    [] q.op = "add" -> Uuids \X {Nothing}
    [] q.op = "save" -> {<<q.uuid, Nothing>>}
    [] OTHER -> {}

TypeOK ==
  /\ store \in [Folders \X Uuids -> Objects \cup {Nothing}]
  /\ pc \in [Requests -> {"free", "choose", "check", "stat", "put", "create", "remove",
                          "list", "read", "get", "done", "made", "absent", "failed"}]
  /\ req \in [Requests -> Queries \cup {NoQuery}]
  /\ uuid \in [Requests -> Uuids \cup {Nothing}]
  /\ \A r \in Requests : Open(r) =>
       req[r] \in Queries /\ (pc[r] \notin {"choose", "list", "read"} => uuid[r] \in Uuids)
  /\ names \in [Requests -> SUBSET Uuids]
  /\ found \in [Requests -> SUBSET (Uuids \X Objects)]
  /\ answer \in [Requests -> [status : {0, 200, 204}, says : Verdicts, shows : SUBSET Entries]]
  /\ seen \in [Requests -> SUBSET Entries]
  /\ took \in [Requests -> Entries \cup {Nothing}]
  /\ trouble \subseteq {r \in Requests : Open(r)}

\* Whatever is stored bears the name it is stored under.
Init ==
  /\ store \in [Folders \X Uuids -> Objects \cup {Nothing}]
  /\ \A f \in Folders, u \in Uuids : store[<<f, u>>] # Nothing =>
       /\ store[<<f, u>>].uuid = u
       /\ <<f, u>> \in (TaskFolders \X TaskUuids) \cup (SceneFolders \X SceneUuids)
  /\ pc = [r \in Requests |-> "free"]
  /\ req = [r \in Requests |-> NoQuery]
  /\ uuid = [r \in Requests |-> Nothing]
  /\ names = [r \in Requests |-> {}]
  /\ found = [r \in Requests |-> {}]
  /\ answer = [r \in Requests |-> Silence]
  /\ seen = [r \in Requests |-> {}]
  /\ took = [r \in Requests |-> Nothing]
  /\ trouble = {}

-----------------------------------------------------------------------------
\* The object a request is about, and what it would put there.
filePath(r) == <<req[r].folder, uuid[r]>>
newTask(r) == [uuid |-> uuid[r], from |-> r]

GoTo(r, place) == pc' = [pc EXCEPT ![r] = place]

\* The locals of the handlers of R are gone.
Forget(R) ==
  LET reset(f, v) == [r \in Requests |-> IF r \in R THEN v ELSE f[r]]
  IN  /\ pc' = reset(pc, "free")
      /\ req' = reset(req, NoQuery)
      /\ uuid' = reset(uuid, Nothing)
      /\ names' = reset(names, {})
      /\ found' = reset(found, {})
      /\ seen' = reset(seen, {})
      /\ took' = reset(took, Nothing)
      /\ trouble' = trouble \ R
      /\ UNCHANGED store

\* The handler of r writes a body and returns.
Answers(r, w) ==
  /\ answer' = [answer EXCEPT ![r] = w]
  /\ Forget({r})

\* r is sent to the handler of op and passes its checks; the status is written before
\* anything is done.
Accept(r, op, folders, uuids, place) ==
  /\ ~Open(r)
  /\ op \in Asks[r]
  /\ \E f \in folders, u \in uuids :
       LET q == [op |-> op, folder |-> f, uuid |-> u]
       IN  /\ req' = [req EXCEPT ![r] = q]
           /\ uuid' = [uuid EXCEPT ![r] = u]
           /\ seen' = [seen EXCEPT ![r] = {<<v, store[<<f, v>>]>> : v \in Uuids} \cap Scope(q)]
  /\ answer' = [answer EXCEPT ![r] = WriteHeader(Silence, 200)]
  /\ GoTo(r, place)
  /\ UNCHANGED <<store, names, found, took, trouble>>

\* A preflight request, or one the handler refuses.
Refuse(r) ==
  /\ ~Open(r)
  /\ \E w \in {handlePreflight, Refused} : Answers(r, w)

\* A call of MinIO fails, without an effect.  A slip: when it was to find out whether
\* a name is used, it is taken for unused.
CallFailsUnsure(r) ==
  /\ \/ pc[r] = "check" /\ GoTo(r, "put")
     \/ pc[r] = "stat" /\ GoTo(r, "absent")
     \/ pc[r] \in {"put", "create", "remove", "get"} /\ GoTo(r, "failed")
     \/ pc[r] = "list" /\ GoTo(r, "read")
  /\ trouble' = trouble \cup {r}
  /\ UNCHANGED <<store, req, uuid, names, found, answer, seen, took>>

\* A call of MinIO fails, without an effect: another name is looked for, a task to be
\* updated passes for missing, a folder for empty.
CallFails(r) ==
  /\ \/ pc[r] = "check" /\ GoTo(r, "choose")
     \/ pc[r] = "stat" /\ GoTo(r, "absent")
     \/ pc[r] \in {"put", "create", "remove", "get"} /\ GoTo(r, "failed")
     \/ pc[r] = "list" /\ GoTo(r, "read")
  /\ trouble' = trouble \cup {r}
  /\ UNCHANGED <<store, req, uuid, names, found, answer, seen, took>>

-----------------------------------------------------------------------------
(* Adding and copying: a name is looked for until one is free.             *)

ChooseUuid(r) ==
  /\ pc[r] = "choose"
  /\ \E u \in TaskUuids : uuid' = [uuid EXCEPT ![r] = u]
  /\ GoTo(r, "check")
  /\ UNCHANGED <<store, req, names, found, answer, historyVars>>

\* A slip: the error that tells that the object is missing is an error like others.
CheckFileExistsStrictly(r) ==
  /\ pc[r] = "check"
  /\ GoTo(r, "choose")
  /\ UNCHANGED <<store, req, uuid, names, found, answer, historyVars>>

CheckFileExists(r) ==
  /\ pc[r] = "check"
  /\ GoTo(r, IF store[filePath(r)] = Nothing THEN "put" ELSE "choose")
  /\ UNCHANGED <<store, req, uuid, names, found, answer, historyVars>>

-----------------------------------------------------------------------------
(* Updating: a task has to be there, a scene is created if it is not.      *)

StatTask(r) ==
  /\ pc[r] = "stat"
  /\ GoTo(r, IF store[filePath(r)] = Nothing THEN "absent" ELSE "put")
  /\ UNCHANGED <<store, req, uuid, names, found, answer, historyVars>>

StatScene(r) ==
  /\ pc[r] = "stat"
  /\ GoTo(r, IF store[filePath(r)] = Nothing THEN "create" ELSE "put")
  /\ UNCHANGED <<store, req, uuid, names, found, answer, historyVars>>

RespondAbsent(r) ==
  /\ pc[r] = "absent"
  /\ Answers(r, Error(answer[r], "missing", 404))

-----------------------------------------------------------------------------
(* Putting and removing.  The call may fail though it has had its effect.   *)

\* The object of r becomes o, and every open request that it concerns sees it.
Change(r, o) ==
  /\ store' = [store EXCEPT ![filePath(r)] = o]
  /\ took' = [took EXCEPT ![r] = <<uuid[r], o>>]
  /\ seen' = [q \in Requests |->
       IF Open(q) /\ req[q].folder = req[r].folder
       THEN seen[q] \cup ({<<uuid[r], o>>} \cap Scope(req[q])) ELSE seen[q]]
  /\ \/ GoTo(r, IF pc[r] = "create" THEN "made" ELSE "done") /\ UNCHANGED trouble
     \/ GoTo(r, "failed") /\ trouble' = trouble \cup {r}
  /\ UNCHANGED <<req, uuid, names, found, answer>>

\* A slip: the task is encoded before it is given its uuid.
PutObjectEarly(r) ==
  /\ pc[r] \in {"put", "create"}
  /\ Change(r, [newTask(r) EXCEPT !.uuid = req[r].uuid])

PutObject(r) ==
  /\ pc[r] \in {"put", "create"}
  /\ Change(r, newTask(r))

\* An object that is not there is removed as well.
RemoveObject(r) ==
  /\ pc[r] = "remove"
  /\ Change(r, Nothing)

\* The answer after a put that succeeded, with the task, or says; or one that failed.
Respond(r, place, says, shows) ==
  \/ pc[r] = place /\ Answers(r, Body(answer[r], says, shows))
  \/ pc[r] = "failed" /\ Answers(r, Error(answer[r], "failed", 500))

RespondTask(r, place, says) == Respond(r, place, says, {<<uuid[r], newTask(r)>>})

-----------------------------------------------------------------------------
(* Listing and reading: every object is read by a call of its own, and one  *)
(* that cannot be read is passed over.                                     *)

ListObjects(r) ==
  /\ pc[r] = "list"
  /\ names' = [names EXCEPT ![r] = {u \in Uuids : store[<<req[r].folder, u>>] # Nothing}]
  /\ GoTo(r, "read")
  /\ UNCHANGED <<store, req, uuid, found, answer, historyVars>>

\* What there is to read of uuid u in the folder of r.
Readable(r, u) == {p \in {u} \X Objects : p[2] = store[<<req[r].folder, u>>]}

ReadTask(r, u) ==
  /\ pc[r] = "read"
  /\ u \in names[r]
  /\ names' = [names EXCEPT ![r] = @ \ {u}]
  /\ found' = [found EXCEPT ![r] = @ \cup Readable(r, u)]
  /\ UNCHANGED <<store, pc, req, uuid, answer, historyVars>>

ReadFails(r, u) ==
  /\ pc[r] = "read"
  /\ u \in names[r]
  /\ names' = [names EXCEPT ![r] = @ \ {u}]
  /\ trouble' = trouble \cup {r}
  /\ UNCHANGED <<store, pc, req, uuid, found, answer, seen, took>>

AllRead(r) ==
  /\ pc[r] = "read"
  /\ names[r] = {}
  /\ Answers(r, Body(answer[r], "listed", found[r]))

GetScene(r) ==
  /\ pc[r] = "get"
  /\ LET scene == Readable(r, uuid[r])
     IN  Answers(r, IF scene = {} THEN Error(answer[r], "failed", 500)
                    ELSE Body(answer[r], "got", scene))

-----------------------------------------------------------------------------
(* The handlers.                                                           *)
Serves(r, op) == Open(r) /\ req[r].op = op

getTaskListHandler(r) ==
  \/ Accept(r, "list", TaskFolders, {Nothing}, "list")
  \/ /\ Serves(r, "list")
     /\ \/ ListObjects(r) \/ CallFails(r) \/ AllRead(r)
        \/ \E u \in Uuids : ReadTask(r, u) \/ ReadFails(r, u)

addTaskHandler(r) ==
  \/ Accept(r, "add", TaskFolders, {Nothing}, "choose")
  \/ /\ Serves(r, "add")
     /\ \/ ChooseUuid(r) \/ CheckFileExists(r) \/ PutObject(r) \/ CallFails(r)
        \/ RespondTask(r, "done", "added")

\* A copy is added as a new task is; only the wording of the answer differs.
copyTaskHandler(r) == addTaskHandler(r)

updateTaskHandler(r) ==
  \/ Accept(r, "update", TaskFolders, TaskUuids, "stat")
  \/ /\ Serves(r, "update")
     /\ \/ StatTask(r) \/ PutObject(r) \/ CallFails(r)
        \/ RespondAbsent(r) \/ RespondTask(r, "done", "updated")

deleteTaskHandler(r) ==
  \/ Accept(r, "delete", TaskFolders, TaskUuids, "remove")
  \/ /\ Serves(r, "delete")
     /\ RemoveObject(r) \/ CallFails(r) \/ Respond(r, "done", "deleted", {})

updateBroadcastTaskHandler(r) ==
  \/ Accept(r, "save", SceneFolders, SceneUuids, "stat")
  \/ /\ Serves(r, "save")
     /\ \/ StatScene(r) \/ PutObject(r) \/ CallFails(r) \/ RespondAbsent(r)
        \/ RespondTask(r, "done", "updated") \/ RespondTask(r, "made", "created")

getBroadcastTaskHandler(r) ==
  \/ Accept(r, "get", SceneFolders, SceneUuids, "get")
  \/ Serves(r, "get") /\ (GetScene(r) \/ CallFails(r) \/ Respond(r, "failed", "failed", {}))

Handler(r) ==
  \/ Refuse(r)
  \/ getTaskListHandler(r) \/ addTaskHandler(r) \/ copyTaskHandler(r)
  \/ updateTaskHandler(r) \/ deleteTaskHandler(r)
  \/ updateBroadcastTaskHandler(r) \/ getBroadcastTaskHandler(r)

\* The process ends, in the middle of whatever it does, and is started again.
Restart ==
  /\ answer' = [r \in Requests |-> Silence]
  /\ Forget(Requests)

Next == (\E r \in Requests : Handler(r)) \/ Restart

Spec == Init /\ [][Next]_vars

\* A handler that has begun goes on: every call of MinIO returns.
HandlerFairness(r) == WF_vars(Open(r) /\ Handler(r))

-----------------------------------------------------------------------------
(* Properties.                                                             *)

\* What is stored under a name bears that name, though a new task comes with another
\* uuid and is encoded between the choice of its name and the call (addTaskHandler,
\* copyTaskHandler).
NamesMatch ==
  \A f \in Folders, u \in Uuids : store[<<f, u>>] # Nothing => store[<<f, u>>].uuid = u

Promise == INSTANCE TaskPromise WITH
  stage <- [r \in Requests |-> IF Open(r) THEN "open" ELSE "free"]

\* A request has at most one effect, on one object of its folder; what it is told and
\* shown was true while it was open, or a call has failed; added tasks take places
\* that were free (task_handler.go, broadcast_handler.go).
ImplementsPromise == Promise!PromiseSpec

\* uuid.New draws a name that is not used and not asked for, and no call fails.
Undisturbed(r) ==
  /\ pc[r] = "choose" /\ pc'[r] = "check" =>
       /\ store[<<req[r].folder, uuid'[r]>>] = Nothing
       /\ \A q \in Requests : uuid[q] # uuid'[r]
  /\ ~CallFails(r)

\* If from some time on the names drawn are unused ones and no call fails, then every
\* request ends: the loops of addTaskHandler and copyTaskHandler, which have no other
\* exit, end as well.
RequestAnswered ==
  <>[][\A r \in Requests : Undisturbed(r)]_vars => \A r \in Requests : []<>~Open(r)
=============================================================================
