----------------------------- MODULE TaskProofs -----------------------------
(***************************************************************************)
(* Theorems about TaskStore, for every number of connections, folders and   *)
(* uuids.                                                                  *)
(***************************************************************************)
EXTENDS TaskStore, TLAPS

-----------------------------------------------------------------------------
(* Answers.                                                                *)

\* What has been written when a handler works.
Begun == [status |-> 200, says |-> "nothing", shows |-> {}]

LEMMA AnswerFacts ==
  /\ WriteHeader(Silence, 200) = Begun
  /\ \A says, shows : Body(Begun, says, shows) = [status |-> 200, says |-> says, shows |-> shows]
  /\ \A says, code : Error(Begun, says, code) = [status |-> 200, says |-> says, shows |-> {}]
  /\ handlePreflight = [status |-> 204, says |-> "refused", shows |-> {}]
  /\ Refused = [status |-> 200, says |-> "refused", shows |-> {}]
<1>1. WriteHeader(Silence, 200) = Begun
  BY DEF WriteHeader, Silence, Begun
<1>2. \A code : WriteHeader(Begun, code) = Begun
  BY DEF WriteHeader, Begun
<1>3. WriteHeader(Silence, 204) = [status |-> 204, says |-> "nothing", shows |-> {}]
  BY DEF WriteHeader, Silence
<1>4. \A says, shows : Body(Begun, says, shows) = [status |-> 200, says |-> says, shows |-> shows]
  BY <1>2 DEF Body, Begun
<1>5. handlePreflight = [status |-> 204, says |-> "refused", shows |-> {}]
  <2>1. WriteHeader([status |-> 204, says |-> "nothing", shows |-> {}], 200).status = 204
    BY DEF WriteHeader
  <2>. QED
    BY <1>3, <2>1 DEF handlePreflight, Body, WriteHeader, Silence
<1>. QED
  BY <1>1, <1>2, <1>4, <1>5 DEF Error, Refused

-----------------------------------------------------------------------------
(* The invariant.  A handler that works has written the status and nothing  *)
(* else; one that does not has no locals.                                  *)

Answer == [status : {0, 200, 204}, says : Verdicts, shows : SUBSET Entries]

\* Where the handler of an operation can be.
Places(op) ==
  CASE op = "list" -> {"list", "read"}
    [] op = "add" -> {"choose", "check", "put", "done", "failed"}
    [] op = "update" -> {"stat", "absent", "put", "done", "failed"}
    [] op = "delete" -> {"remove", "done", "failed"}
    [] op = "save" -> {"stat", "absent", "put", "create", "done", "made", "failed"}
    [] op = "get" -> {"get", "failed"}
    [] OTHER -> {}

Idle(r) ==
  /\ req[r] = NoQuery
  /\ uuid[r] = Nothing
  /\ names[r] = {}
  /\ found[r] = {}
  /\ seen[r] = {}
  /\ took[r] = Nothing
  /\ r \notin trouble

Placed(r) ==
  /\ req[r] \in Queries
  /\ pc[r] \in Places(req[r].op)
  /\ answer[r] = Begun
  /\ req[r].op # "add" => uuid[r] = req[r].uuid
  /\ req[r].op = "add" /\ pc[r] # "choose" => uuid[r] \in TaskUuids

Inv ==
  /\ TypeOK
  /\ NamesMatch
  /\ \A r \in Requests : IF Open(r) THEN Placed(r) ELSE Idle(r)

LEMMA QueryFacts ==
  ASSUME NEW q \in Queries
  PROVE  /\ q.op \in {"list", "add", "update", "delete", "save", "get"}
         /\ q.folder \in Folders
         /\ q.op \in {"list", "add"} => q.uuid = Nothing
         /\ q.op \in {"update", "delete", "save", "get"} => q.uuid \in Uuids
         /\ q # NoQuery
BY DEF Queries, Folders, Uuids, NoQuery

\* Every step of the module, with the query it serves.
Enters(r) ==
  \/ Accept(r, "list", TaskFolders, {Nothing}, "list")
  \/ Accept(r, "add", TaskFolders, {Nothing}, "choose")
  \/ Accept(r, "update", TaskFolders, TaskUuids, "stat")
  \/ Accept(r, "delete", TaskFolders, TaskUuids, "remove")
  \/ Accept(r, "save", SceneFolders, SceneUuids, "stat")
  \/ Accept(r, "get", SceneFolders, SceneUuids, "get")

\* A step that only looks, and the places of r alone.
Looks(r) ==
  \/ CallFails(r) \/ ChooseUuid(r) \/ CheckFileExists(r)
  \/ Serves(r, "update") /\ StatTask(r)
  \/ Serves(r, "save") /\ StatScene(r)
  \/ ListObjects(r)
  \/ \E u \in Uuids : ReadTask(r, u) \/ ReadFails(r, u)

Changes(r) == PutObject(r) \/ RemoveObject(r)

Tells(r) ==
  \/ RespondAbsent(r) \/ AllRead(r) \/ GetScene(r)
  \/ Serves(r, "add") /\ RespondTask(r, "done", "added")
  \/ Serves(r, "update") /\ RespondTask(r, "done", "updated")
  \/ Serves(r, "save") /\ RespondTask(r, "done", "updated")
  \/ Serves(r, "save") /\ RespondTask(r, "made", "created")
  \/ Serves(r, "delete") /\ Respond(r, "done", "deleted", {})
  \/ Serves(r, "get") /\ Respond(r, "failed", "failed", {})

LEMMA Cases ==
  ASSUME NEW r \in Requests, Handler(r)
  PROVE  Refuse(r) \/ Enters(r) \/ Looks(r) \/ Changes(r) \/ Tells(r)
BY DEF Handler, getTaskListHandler, addTaskHandler, copyTaskHandler, updateTaskHandler,
       deleteTaskHandler, updateBroadcastTaskHandler, getBroadcastTaskHandler,
       Enters, Looks, Changes, Tells

\* The place a handler begins at.
First(op) ==
  CASE op = "list" -> "list"
    [] op = "add" -> "choose"
    [] op \in {"update", "save"} -> "stat"
    [] op = "delete" -> "remove"
    [] OTHER -> "get"

\* What happens when r is sent to the handler of q.
Begins(r, q) ==
  /\ ~Open(r)
  /\ req' = [req EXCEPT ![r] = q]
  /\ uuid' = [uuid EXCEPT ![r] = q.uuid]
  /\ seen' = [seen EXCEPT ![r] = {<<v, store[<<q.folder, v>>]>> : v \in Uuids} \cap Scope(q)]
  /\ answer' = [answer EXCEPT ![r] = Begun]
  /\ pc' = [pc EXCEPT ![r] = First(q.op)]
  /\ UNCHANGED <<store, names, found, took, trouble>>

LEMMA AcceptFacts ==
  ASSUME NEW r \in Requests, NEW op, NEW folders, NEW uuids, NEW place,
         Accept(r, op, folders, uuids, place),
         \A f \in folders, u \in uuids : [op |-> op, folder |-> f, uuid |-> u] \in Queries,
         place = First(op)
  PROVE  \E q \in Queries : Begins(r, q)
<1>1. PICK f \in folders, u \in uuids :
        LET q == [op |-> op, folder |-> f, uuid |-> u]
        IN  /\ req' = [req EXCEPT ![r] = q]
            /\ uuid' = [uuid EXCEPT ![r] = u]
            /\ seen' = [seen EXCEPT ![r] =
                 {<<v, store[<<f, v>>]>> : v \in Uuids} \cap Scope(q)]
  BY DEF Accept
<1> DEFINE q == [op |-> op, folder |-> f, uuid |-> u]
<1>2. q \in Queries /\ q.op = op /\ q.folder = f /\ q.uuid = u
  OBVIOUS
<1>3. /\ ~Open(r)
      /\ answer' = [answer EXCEPT ![r] = Begun]
      /\ pc' = [pc EXCEPT ![r] = First(q.op)]
      /\ UNCHANGED <<store, names, found, took, trouble>>
  BY <1>2, AnswerFacts DEF Accept, GoTo
<1>4. /\ req' = [req EXCEPT ![r] = q]
      /\ uuid' = [uuid EXCEPT ![r] = q.uuid]
      /\ seen' = [seen EXCEPT ![r] =
           {<<v, store[<<q.folder, v>>]>> : v \in Uuids} \cap Scope(q)]
  BY <1>1, <1>2
<1> HIDE DEF q
<1>. QED
  BY <1>2, <1>3, <1>4 DEF Begins

LEMMA EnterFacts ==
  ASSUME NEW r \in Requests, Enters(r)
  PROVE  \E q \in Queries : Begins(r, q)
<1>1. /\ First("list") = "list" /\ First("add") = "choose" /\ First("update") = "stat"
      /\ First("save") = "stat" /\ First("delete") = "remove" /\ First("get") = "get"
  BY DEF First
<1>2. CASE Accept(r, "list", TaskFolders, {Nothing}, "list")
  <2>1. \A f \in TaskFolders, u \in {Nothing} :
          [op |-> "list", folder |-> f, uuid |-> u] \in Queries
    BY DEF Queries
  <2>. QED
    BY <1>1, <1>2, <2>1, AcceptFacts
<1>3. CASE Accept(r, "add", TaskFolders, {Nothing}, "choose")
  <2>1. \A f \in TaskFolders, u \in {Nothing} :
          [op |-> "add", folder |-> f, uuid |-> u] \in Queries
    BY DEF Queries
  <2>. QED
    BY <1>1, <1>3, <2>1, AcceptFacts
<1>4. CASE Accept(r, "update", TaskFolders, TaskUuids, "stat")
  <2>1. \A f \in TaskFolders, u \in TaskUuids :
          [op |-> "update", folder |-> f, uuid |-> u] \in Queries
    BY DEF Queries
  <2>. QED
    BY <1>1, <1>4, <2>1, AcceptFacts
<1>5. CASE Accept(r, "delete", TaskFolders, TaskUuids, "remove")
  <2>1. \A f \in TaskFolders, u \in TaskUuids :
          [op |-> "delete", folder |-> f, uuid |-> u] \in Queries
    BY DEF Queries
  <2>. QED
    BY <1>1, <1>5, <2>1, AcceptFacts
<1>6. CASE Accept(r, "save", SceneFolders, SceneUuids, "stat")
  <2>1. \A f \in SceneFolders, u \in SceneUuids :
          [op |-> "save", folder |-> f, uuid |-> u] \in Queries
    BY DEF Queries
  <2>. QED
    BY <1>1, <1>6, <2>1, AcceptFacts
<1>7. CASE Accept(r, "get", SceneFolders, SceneUuids, "get")
  <2>1. \A f \in SceneFolders, u \in SceneUuids :
          [op |-> "get", folder |-> f, uuid |-> u] \in Queries
    BY DEF Queries
  <2>. QED
    BY <1>1, <1>7, <2>1, AcceptFacts
<1>. QED
  BY <1>2, <1>3, <1>4, <1>5, <1>6, <1>7 DEF Enters

-----------------------------------------------------------------------------
(* Steps that only look.                                                   *)

LEMMA PlaceFacts ==
  ASSUME NEW r \in Requests, Open(r), Placed(r)
  PROVE  /\ pc[r] \in {"list", "read"} => req[r].op = "list"
         /\ pc[r] \in {"choose", "check"} => req[r].op = "add"
         /\ pc[r] \in {"stat", "absent"} => req[r].op \in {"update", "save"}
         /\ pc[r] \in {"create", "made"} => req[r].op = "save"
         /\ pc[r] = "remove" => req[r].op = "delete"
         /\ pc[r] = "get" => req[r].op = "get"
         /\ pc[r] = "put" => req[r].op \in {"add", "update", "save"}
         /\ pc[r] = "done" => req[r].op \in {"add", "update", "delete", "save"}
         /\ pc[r] = "failed" => req[r].op \in {"add", "update", "delete", "save", "get"}
<1>1. req[r].op \in {"list", "add", "update", "delete", "save", "get"}
  BY QueryFacts DEF Placed
<1>. QED
  BY <1>1 DEF Placed, Places

LEMMA PlacesOf ==
  /\ Places("list") = {"list", "read"}
  /\ Places("add") = {"choose", "check", "put", "done", "failed"}
  /\ Places("update") = {"stat", "absent", "put", "done", "failed"}
  /\ Places("delete") = {"remove", "done", "failed"}
  /\ Places("save") = {"stat", "absent", "put", "create", "done", "made", "failed"}
  /\ Places("get") = {"get", "failed"}
BY DEF Places

\* Handler r goes to place, with the uuid u, N to read and F found.
Moves(r, place, u, N, F) ==
  /\ pc' = [pc EXCEPT ![r] = place]
  /\ uuid' = [uuid EXCEPT ![r] = u]
  /\ names' = [names EXCEPT ![r] = N]
  /\ found' = [found EXCEPT ![r] = F]
  /\ trouble' \in {trouble, trouble \cup {r}}
  /\ UNCHANGED <<store, req, answer, seen, took>>

LEMMA StayMoves ==
  ASSUME TypeOK, NEW r \in Requests
  PROVE  /\ pc = [pc EXCEPT ![r] = pc[r]]
         /\ uuid = [uuid EXCEPT ![r] = uuid[r]]
         /\ names = [names EXCEPT ![r] = names[r]]
         /\ found = [found EXCEPT ![r] = found[r]]
BY DEF TypeOK

LEMMA LookFacts ==
  ASSUME NEW r \in Requests, Inv, Looks(r)
  PROVE  /\ Open(r)
         /\ \E place \in Places(req[r].op), u \in Uuids \cup {Nothing},
               N \in SUBSET Uuids, F \in SUBSET (Uuids \X Objects) :
              /\ Moves(r, place, u, N, F)
              /\ req[r].op # "add" => u = uuid[r]
              /\ req[r].op = "add" /\ place # "choose" => u \in TaskUuids
<1> USE DEF handlerVars, historyVars, GoTo
<1>1. Open(r)
  BY DEF Looks, CallFails, ChooseUuid, CheckFileExists, Serves, ListObjects, ReadTask, ReadFails, Open
<1>2. Placed(r)
  BY <1>1 DEF Inv
<1>3. /\ uuid[r] \in Uuids \cup {Nothing}
      /\ names[r] \in SUBSET Uuids
      /\ found[r] \in SUBSET (Uuids \X Objects)
  BY DEF Inv, TypeOK
<1>4. /\ pc = [pc EXCEPT ![r] = pc[r]]
      /\ uuid = [uuid EXCEPT ![r] = uuid[r]]
      /\ names = [names EXCEPT ![r] = names[r]]
      /\ found = [found EXCEPT ![r] = found[r]]
  BY StayMoves DEF Inv
<1>5. req[r].op # "add" \/ pc[r] = "choose" \/ uuid[r] \in TaskUuids
  BY <1>2 DEF Placed
<1>6. ASSUME NEW place, place \in Places(req[r].op), Moves(r, place, uuid[r], names[r], found[r]),
             req[r].op = "add" => place = "choose" \/ pc[r] # "choose"
      PROVE  \E pl \in Places(req[r].op), u \in Uuids \cup {Nothing},
               N \in SUBSET Uuids, F \in SUBSET (Uuids \X Objects) :
              /\ Moves(r, pl, u, N, F)
              /\ req[r].op # "add" => u = uuid[r]
              /\ req[r].op = "add" /\ pl # "choose" => u \in TaskUuids
  BY <1>3, <1>5, <1>6
<1>7. CASE CallFails(r)
  <2>1. CASE pc[r] = "check" /\ GoTo(r, "choose")
    BY <1>1, <1>2, <1>4, <1>6, <1>7, <2>1, PlaceFacts, PlacesOf DEF CallFails, Moves
  <2>2. CASE pc[r] = "stat" /\ GoTo(r, "absent")
    BY <1>1, <1>2, <1>4, <1>6, <1>7, <2>2, PlaceFacts, PlacesOf DEF CallFails, Moves
  <2>3. CASE pc[r] \in {"put", "create", "remove", "get"} /\ GoTo(r, "failed")
    BY <1>1, <1>2, <1>4, <1>6, <1>7, <2>3, PlaceFacts, PlacesOf DEF CallFails, Moves
  <2>4. CASE pc[r] = "list" /\ GoTo(r, "read")
    BY <1>1, <1>2, <1>4, <1>6, <1>7, <2>4, PlaceFacts, PlacesOf DEF CallFails, Moves
  <2>. QED
    BY <1>7, <2>1, <2>2, <2>3, <2>4 DEF CallFails
<1>8. CASE ChooseUuid(r)
  <2>1. PICK u \in TaskUuids : uuid' = [uuid EXCEPT ![r] = u]
    BY <1>8 DEF ChooseUuid
  <2>2. Moves(r, "check", u, names[r], found[r])
    BY <1>4, <1>8, <2>1 DEF ChooseUuid, Moves
  <2>3. "check" \in Places(req[r].op) /\ req[r].op = "add"
    BY <1>1, <1>2, <1>8, PlaceFacts, PlacesOf DEF ChooseUuid
  <2>4. u \in Uuids \cup {Nothing}
    BY DEF Uuids
  <2>. QED
    BY <1>1, <1>3, <2>2, <2>3, <2>4
<1>9. CASE CheckFileExists(r)
  BY <1>1, <1>2, <1>4, <1>6, <1>9, PlaceFacts, PlacesOf DEF CheckFileExists, Moves
<1>10. CASE Serves(r, "update") /\ StatTask(r)
  BY <1>1, <1>4, <1>6, <1>10, PlacesOf DEF StatTask, Serves, Moves
<1>11. CASE Serves(r, "save") /\ StatScene(r)
  BY <1>1, <1>4, <1>6, <1>11, PlacesOf DEF StatScene, Serves, Moves
<1>12. CASE ListObjects(r)
  <2> DEFINE N == {u \in Uuids : store[<<req[r].folder, u>>] # Nothing}
  <2>1. Moves(r, "read", uuid[r], N, found[r])
    BY <1>4, <1>12 DEF ListObjects, Moves
  <2>2. "read" \in Places(req[r].op) /\ req[r].op # "add" /\ N \in SUBSET Uuids
    BY <1>1, <1>2, <1>12, PlaceFacts, PlacesOf DEF ListObjects
  <2> HIDE DEF N
  <2>. QED
    BY <1>1, <1>3, <2>1, <2>2
<1>13. ASSUME NEW u \in Uuids, ReadTask(r, u)
       PROVE  \E pl \in Places(req[r].op), v \in Uuids \cup {Nothing},
               N \in SUBSET Uuids, F \in SUBSET (Uuids \X Objects) :
              /\ Moves(r, pl, v, N, F)
              /\ req[r].op # "add" => v = uuid[r]
              /\ req[r].op = "add" /\ pl # "choose" => v \in TaskUuids
  <2> DEFINE N == names[r] \ {u}
             F == found[r] \cup Readable(r, u)
  <2>1. Moves(r, "read", uuid[r], N, F)
    <3>1. pc' = [pc EXCEPT ![r] = "read"]
      BY <1>4, <1>13 DEF ReadTask
    <3>. QED
      BY <1>4, <1>13, <3>1 DEF ReadTask, Moves, Inv, TypeOK
  <2>2. "read" \in Places(req[r].op) /\ req[r].op # "add"
    BY <1>1, <1>2, <1>13, PlaceFacts, PlacesOf DEF ReadTask
  <2>3. N \in SUBSET Uuids /\ F \in SUBSET (Uuids \X Objects)
    BY <1>3 DEF Readable
  <2> HIDE DEF N, F
  <2>. QED
    BY <1>1, <1>3, <2>1, <2>2, <2>3
<1>14. ASSUME NEW u \in Uuids, ReadFails(r, u)
       PROVE  \E pl \in Places(req[r].op), v \in Uuids \cup {Nothing},
               N \in SUBSET Uuids, F \in SUBSET (Uuids \X Objects) :
              /\ Moves(r, pl, v, N, F)
              /\ req[r].op # "add" => v = uuid[r]
              /\ req[r].op = "add" /\ pl # "choose" => v \in TaskUuids
  <2> DEFINE N == names[r] \ {u}
  <2>1. Moves(r, "read", uuid[r], N, found[r])
    <3>1. pc' = [pc EXCEPT ![r] = "read"]
      BY <1>4, <1>14 DEF ReadFails
    <3>. QED
      BY <1>4, <1>14, <3>1 DEF ReadFails, Moves, Inv, TypeOK
  <2>2. "read" \in Places(req[r].op) /\ req[r].op # "add"
    BY <1>1, <1>2, <1>14, PlaceFacts, PlacesOf DEF ReadFails
  <2>3. N \in SUBSET Uuids
    BY <1>3
  <2> HIDE DEF N
  <2>. QED
    BY <1>1, <1>3, <2>1, <2>2, <2>3
<1>. QED
  BY <1>1, <1>7, <1>8, <1>9, <1>10, <1>11, <1>12, <1>13, <1>14 DEF Looks

-----------------------------------------------------------------------------
(* The invariant is kept.                                                  *)

\* A step of another handler leaves the state of p.
Left(p) ==
  /\ pc'[p] = pc[p] /\ req'[p] = req[p] /\ uuid'[p] = uuid[p] /\ names'[p] = names[p]
  /\ found'[p] = found[p] /\ took'[p] = took[p] /\ answer'[p] = answer[p]
  /\ p \in trouble' <=> p \in trouble

InPlace(p) == IF Open(p) THEN Placed(p) ELSE Idle(p)

LEMMA LeftInPlace ==
  ASSUME NEW p \in Requests, InPlace(p), Left(p), Open(p) \/ seen'[p] = seen[p]
  PROVE  InPlace(p)'
BY DEF InPlace, Left, Open, Placed, Idle

LEMMA InitInv == Init => Inv
<1> SUFFICES ASSUME Init PROVE Inv
  OBVIOUS
<1>1. TypeOK
  <2>1. Silence \in Answer
    BY DEF Silence, Answer, Verdicts
  <2>2. \A r \in Requests : ~Open(r)
    BY DEF Init, Open
  <2>. QED
    BY <2>1, <2>2 DEF Init, TypeOK, Answer
<1>2. NamesMatch
  BY DEF Init, NamesMatch
<1>3. \A r \in Requests : ~Open(r) /\ Idle(r)
  BY DEF Init, Open, Idle
<1>. QED
  BY <1>1, <1>2, <1>3 DEF Inv

LEMMA StoreType ==
  ASSUME TypeOK, NEW f \in Folders, NEW v \in Uuids
  PROVE  store[<<f, v>>] \in Objects \cup {Nothing}
<1>1. <<f, v>> \in Folders \X Uuids
  OBVIOUS
<1>. QED
  BY <1>1 DEF TypeOK

LEMMA BeginsInv ==
  ASSUME Inv, NEW r \in Requests, NEW q \in Queries, Begins(r, q)
  PROVE  Inv'
<1> USE DEF Inv
<1>1. First(q.op) \in Places(q.op) /\ Places(q.op) \subseteq
        {"choose", "check", "stat", "put", "create", "remove",
         "list", "read", "get", "done", "made", "absent", "failed"}
  BY QueryFacts, PlacesOf DEF First
<1>2. First(q.op) \notin {"choose", "list", "read"} => q.uuid \in Uuids
  BY QueryFacts DEF First
<1>3. q.uuid \in Uuids \cup {Nothing}
  BY QueryFacts
<1>4. {<<v, store[<<q.folder, v>>]>> : v \in Uuids} \in SUBSET Entries
  <2>1. \A v \in Uuids : store[<<q.folder, v>>] \in Objects \cup {Nothing}
    BY QueryFacts, StoreType
  <2>2. \A v \in Uuids : <<v, store[<<q.folder, v>>]>> \in Entries
    BY <2>1 DEF Entries
  <2>. QED
    BY <2>2
<1>5. Begun \in Answer
  BY DEF Begun, Answer, Verdicts
<1>6. TypeOK'
  <2>1. /\ store' \in [Folders \X Uuids -> Objects \cup {Nothing}]
        /\ names' \in [Requests -> SUBSET Uuids]
        /\ found' \in [Requests -> SUBSET (Uuids \X Objects)]
        /\ took' \in [Requests -> Entries \cup {Nothing}]
    BY DEF Begins, TypeOK
  <2>2. /\ pc' \in [Requests -> {"free", "choose", "check", "stat", "put", "create", "remove",
                          "list", "read", "get", "done", "made", "absent", "failed"}]
        /\ req' \in [Requests -> Queries \cup {NoQuery}]
        /\ uuid' \in [Requests -> Uuids \cup {Nothing}]
    BY <1>1, <1>3 DEF Begins, TypeOK
  <2>3. answer' \in [Requests -> Answer] /\ seen' \in [Requests -> SUBSET Entries]
    BY <1>4, <1>5 DEF Begins, TypeOK, Answer
  <2>4. \A p \in Requests : Open(p)' =>
          req'[p] \in Queries /\ (pc'[p] \notin {"choose", "list", "read"} => uuid'[p] \in Uuids)
    BY <1>2 DEF Begins, TypeOK, Open
  <2>5. trouble' \subseteq {p \in Requests : Open(p)'}
    BY <1>1 DEF Begins, TypeOK, Open
  <2>. QED
    BY <2>1, <2>2, <2>3, <2>4, <2>5 DEF TypeOK, Answer
<1>7. NamesMatch'
  BY DEF NamesMatch, Begins
<1>8. ASSUME NEW p \in Requests
      PROVE  InPlace(p)'
  <2>1. CASE p = r
    <3>1. req'[r] = q /\ uuid'[r] = q.uuid /\ answer'[r] = Begun /\ pc'[r] = First(q.op)
      BY DEF Begins, TypeOK
    <3>2. Placed(r)'
      BY <1>1, <3>1 DEF Placed, First
    <3>3. Open(r)'
      BY <1>1, <3>1 DEF Open, First
    <3>. QED
      BY <2>1, <3>2, <3>3 DEF InPlace
  <2>2. CASE p # r
    <3>1. Left(p) /\ seen'[p] = seen[p]
      BY <2>2 DEF Left, Begins, TypeOK
    <3>. QED
      BY <3>1, LeftInPlace DEF InPlace
  <2>. QED
    BY <2>1, <2>2
<1>. QED
  BY <1>6, <1>7, <1>8 DEF InPlace

LEMMA LooksInv ==
  ASSUME Inv, NEW r \in Requests, Looks(r)
  PROVE  Inv'
<1> USE DEF Inv
<1>1. Open(r) /\ Placed(r)
  BY LookFacts
<1>2. PICK place \in Places(req[r].op), u \in Uuids \cup {Nothing},
           N \in SUBSET Uuids, F \in SUBSET (Uuids \X Objects) :
        /\ Moves(r, place, u, N, F)
        /\ req[r].op # "add" => u = uuid[r]
        /\ req[r].op = "add" /\ place # "choose" => u \in TaskUuids
  BY LookFacts
<1>3. req[r] \in Queries
  BY <1>1 DEF Placed
<1>4. place \in {"choose", "check", "stat", "put", "create", "remove",
                 "list", "read", "get", "done", "made", "absent", "failed"}
  BY <1>2, <1>3, QueryFacts, PlacesOf
<1>5. place \notin {"choose", "list", "read"} => u \in Uuids
  <2>1. CASE req[r].op = "add"
    BY <1>2, <2>1 DEF Uuids
  <2>2. CASE req[r].op = "list"
    BY <1>2, <2>2, PlacesOf
  <2>3. CASE req[r].op \notin {"add", "list"}
    BY <1>1, <1>2, <1>3, <2>3, QueryFacts DEF Placed
  <2>. QED
    BY <2>1, <2>2, <2>3
<1>6. TypeOK'
  <2>1. UNCHANGED <<store, req, answer, seen, took>>
    BY <1>2 DEF Moves
  <2>2. /\ pc' \in [Requests -> {"free", "choose", "check", "stat", "put", "create", "remove",
                          "list", "read", "get", "done", "made", "absent", "failed"}]
        /\ uuid' \in [Requests -> Uuids \cup {Nothing}]
        /\ names' \in [Requests -> SUBSET Uuids]
        /\ found' \in [Requests -> SUBSET (Uuids \X Objects)]
    BY <1>2, <1>4 DEF Moves, TypeOK
  <2>3. \A p \in Requests : Open(p)' =>
          req'[p] \in Queries /\ (pc'[p] \notin {"choose", "list", "read"} => uuid'[p] \in Uuids)
    BY <1>2, <1>3, <1>5 DEF Moves, TypeOK, Open
  <2>4. trouble' \subseteq {p \in Requests : Open(p)'}
    BY <1>2, <1>4 DEF Moves, TypeOK, Open
  <2>. QED
    BY <2>1, <2>2, <2>3, <2>4 DEF TypeOK
<1>7. NamesMatch'
  BY <1>2 DEF NamesMatch, Moves
<1>8. ASSUME NEW p \in Requests
      PROVE  InPlace(p)'
  <2>1. CASE p = r
    <3>1. req'[r] = req[r] /\ uuid'[r] = u /\ answer'[r] = answer[r] /\ pc'[r] = place
      BY <1>2 DEF Moves, TypeOK
    <3>2. Placed(r)'
      BY <1>1, <1>2, <3>1 DEF Placed
    <3>3. Open(r)'
      BY <1>4, <3>1 DEF Open
    <3>. QED
      BY <2>1, <3>2, <3>3 DEF InPlace
  <2>2. CASE p # r
    <3>1. Left(p) /\ seen'[p] = seen[p]
      BY <1>2, <2>2 DEF Left, Moves, TypeOK
    <3>. QED
      BY <3>1, LeftInPlace DEF InPlace
  <2>. QED
    BY <2>1, <2>2
<1>. QED
  BY <1>6, <1>7, <1>8 DEF InPlace

-----------------------------------------------------------------------------
(* Steps that change the store.                                            *)

\* Handler r makes its object o and goes to place.
Alters(r, o, place) ==
  /\ store' = [store EXCEPT ![filePath(r)] = o]
  /\ took' = [took EXCEPT ![r] = <<uuid[r], o>>]
  /\ seen' = [q \in Requests |->
       IF Open(q) /\ req[q].folder = req[r].folder
       THEN seen[q] \cup ({<<uuid[r], o>>} \cap Scope(req[q])) ELSE seen[q]]
  /\ pc' = [pc EXCEPT ![r] = place]
  /\ trouble' \in {trouble, trouble \cup {r}}
  /\ place = "failed" => trouble' = trouble \cup {r}
  /\ UNCHANGED <<req, uuid, names, found, answer>>

LEMMA ChangeFacts ==
  ASSUME Inv, NEW r \in Requests, Changes(r)
  PROVE  /\ Open(r) /\ Placed(r) /\ uuid[r] \in Uuids
         /\ \E o \in Objects \cup {Nothing}, place \in Places(req[r].op) :
              /\ Alters(r, o, place)
              /\ place \in {"failed", IF pc[r] = "create" THEN "made" ELSE "done"}
              /\ IF req[r].op = "delete" THEN o = Nothing /\ pc[r] = "remove"
                                         ELSE o = newTask(r) /\ pc[r] \in {"put", "create"}
<1>1. pc[r] \in {"put", "create", "remove"}
  BY DEF Changes, PutObject, RemoveObject
<1>2. Open(r) /\ Placed(r)
  BY <1>1 DEF Inv, Open
<1>3. uuid[r] \in Uuids
  BY <1>1, <1>2 DEF Inv, TypeOK
<1>4. newTask(r) \in Objects
  BY <1>3 DEF newTask, Objects
<1>5. ASSUME NEW o, Change(r, o)
      PROVE  \E place \in Places(req[r].op) :
               /\ Alters(r, o, place)
               /\ place \in {"failed", IF pc[r] = "create" THEN "made" ELSE "done"}
  <2>1. "failed" \in Places(req[r].op)
    BY <1>1, <1>2, PlaceFacts, PlacesOf
  <2>2. pc[r] = "create" => "made" \in Places(req[r].op)
    BY <1>1, <1>2, PlaceFacts, PlacesOf
  <2>3. "done" \in Places(req[r].op)
    BY <1>1, <1>2, PlaceFacts, PlacesOf
  <2>4. CASE GoTo(r, "failed") /\ trouble' = trouble \cup {r}
    BY <1>5, <2>1, <2>4 DEF Change, Alters, GoTo
  <2>5. CASE GoTo(r, IF pc[r] = "create" THEN "made" ELSE "done") /\ UNCHANGED trouble
    <3>1. CASE pc[r] = "create"
      BY <1>5, <2>2, <2>5, <3>1 DEF Change, Alters, GoTo
    <3>2. CASE pc[r] # "create"
      BY <1>5, <2>3, <2>5, <3>2 DEF Change, Alters, GoTo
    <3>. QED
      BY <3>1, <3>2
  <2>. QED
    BY <1>5, <2>4, <2>5 DEF Change
<1>6. CASE PutObject(r)
  <2>1. pc[r] \in {"put", "create"} /\ Change(r, newTask(r))
    BY <1>6 DEF PutObject
  <2>2. req[r].op # "delete"
    BY <1>2, <2>1, PlaceFacts
  <2>. QED
    BY <1>2, <1>3, <1>4, <1>5, <2>1, <2>2
<1>7. CASE RemoveObject(r)
  <2>1. pc[r] = "remove" /\ Change(r, Nothing)
    BY <1>7 DEF RemoveObject
  <2>2. req[r].op = "delete"
    BY <1>2, <2>1, PlaceFacts
  <2>. QED
    BY <1>2, <1>3, <1>5, <2>1, <2>2
<1>. QED
  BY <1>6, <1>7 DEF Changes

LEMMA ChangesInv ==
  ASSUME Inv, NEW r \in Requests, Changes(r)
  PROVE  Inv'
<1> USE DEF Inv
<1>1. Open(r) /\ Placed(r) /\ uuid[r] \in Uuids
  BY ChangeFacts
<1>2. PICK o \in Objects \cup {Nothing}, place \in Places(req[r].op) :
        /\ Alters(r, o, place)
        /\ place \in {"failed", IF pc[r] = "create" THEN "made" ELSE "done"}
        /\ IF req[r].op = "delete" THEN o = Nothing /\ pc[r] = "remove"
                                   ELSE o = newTask(r) /\ pc[r] \in {"put", "create"}
  BY ChangeFacts
<1>3. req[r] \in Queries /\ filePath(r) \in Folders \X Uuids
  BY <1>1, QueryFacts DEF Placed, filePath
<1>4. place \in {"failed", "made", "done"}
  BY <1>2
<1>5. <<uuid[r], o>> \in Entries
  BY <1>1 DEF Entries
<1>6. TypeOK'
  <2>1. /\ req' \in [Requests -> Queries \cup {NoQuery}]
        /\ uuid' \in [Requests -> Uuids \cup {Nothing}]
        /\ names' \in [Requests -> SUBSET Uuids]
        /\ found' \in [Requests -> SUBSET (Uuids \X Objects)]
        /\ answer' \in [Requests -> Answer]
    BY <1>2 DEF Alters, TypeOK, Answer
  <2>2. store' \in [Folders \X Uuids -> Objects \cup {Nothing}]
    BY <1>2, <1>3 DEF Alters, TypeOK
  <2>3. /\ pc' \in [Requests -> {"free", "choose", "check", "stat", "put", "create", "remove",
                          "list", "read", "get", "done", "made", "absent", "failed"}]
        /\ took' \in [Requests -> Entries \cup {Nothing}]
    BY <1>2, <1>4, <1>5 DEF Alters, TypeOK
  <2>4. seen' \in [Requests -> SUBSET Entries]
    BY <1>2, <1>5 DEF Alters, TypeOK
  <2>5. \A p \in Requests : Open(p)' =>
          req'[p] \in Queries /\ (pc'[p] \notin {"choose", "list", "read"} => uuid'[p] \in Uuids)
    BY <1>1, <1>2, <1>3 DEF Alters, TypeOK, Open
  <2>6. trouble' \subseteq {p \in Requests : Open(p)'}
    BY <1>2, <1>4 DEF Alters, TypeOK, Open
  <2>. QED
    BY <2>1, <2>2, <2>3, <2>4, <2>5, <2>6 DEF TypeOK, Answer
<1>7. NamesMatch'
  <2>1. o # Nothing => o.uuid = uuid[r]
    BY <1>2 DEF newTask
  <2> SUFFICES ASSUME NEW f \in Folders, NEW u \in Uuids, store'[<<f, u>>] # Nothing
               PROVE  store'[<<f, u>>].uuid = u
    BY DEF NamesMatch
  <2>2. CASE <<f, u>> = filePath(r)
    <3>1. u = uuid[r] /\ store'[<<f, u>>] = o
      BY <1>2, <1>3, <2>2 DEF Alters, TypeOK, filePath
    <3>. QED
      BY <2>1, <3>1
  <2>3. CASE <<f, u>> # filePath(r)
    <3>1. <<f, u>> \in Folders \X Uuids
      OBVIOUS
    <3>2. store'[<<f, u>>] = store[<<f, u>>]
      BY <1>2, <2>3, <3>1 DEF Alters, TypeOK
    <3>. QED
      BY <3>2 DEF NamesMatch
  <2>. QED
    BY <2>2, <2>3
<1>8. ASSUME NEW p \in Requests
      PROVE  InPlace(p)'
  <2>1. CASE p = r
    <3>1. req'[r] = req[r] /\ uuid'[r] = uuid[r] /\ answer'[r] = answer[r] /\ pc'[r] = place
      BY <1>2 DEF Alters, TypeOK
    <3>2. pc[r] # "choose"
      BY <1>2
    <3>3. Placed(r)'
      BY <1>1, <1>2, <3>1, <3>2 DEF Placed
    <3>4. Open(r)'
      BY <1>4, <3>1 DEF Open
    <3>. QED
      BY <2>1, <3>3, <3>4 DEF InPlace
  <2>2. CASE p # r
    <3>1. Left(p) /\ (Open(p) \/ seen'[p] = seen[p])
      BY <1>2, <2>2 DEF Left, Alters, TypeOK
    <3>. QED
      BY <3>1, LeftInPlace DEF InPlace
  <2>. QED
    BY <2>1, <2>2
<1>. QED
  BY <1>6, <1>7, <1>8 DEF InPlace

-----------------------------------------------------------------------------
(* Steps that end requests.                                                *)

LEMMA ForgetInv ==
  ASSUME Inv, NEW R \in SUBSET Requests, Forget(R),
         answer' \in [Requests -> Answer],
         \A p \in Requests \ R : answer'[p] = answer[p]
  PROVE  Inv'
<1> USE DEF Inv
<1>1. TypeOK'
  <2>1. store' \in [Folders \X Uuids -> Objects \cup {Nothing}]
    BY DEF Forget, TypeOK
  <2>2. /\ pc' \in [Requests -> {"free", "choose", "check", "stat", "put", "create", "remove",
                          "list", "read", "get", "done", "made", "absent", "failed"}]
        /\ req' \in [Requests -> Queries \cup {NoQuery}]
        /\ uuid' \in [Requests -> Uuids \cup {Nothing}]
    BY DEF Forget, TypeOK
  <2>3. /\ names' \in [Requests -> SUBSET Uuids]
        /\ found' \in [Requests -> SUBSET (Uuids \X Objects)]
        /\ seen' \in [Requests -> SUBSET Entries]
        /\ took' \in [Requests -> Entries \cup {Nothing}]
    BY DEF Forget, TypeOK
  <2>4. \A p \in Requests : Open(p)' =>
          req'[p] \in Queries /\ (pc'[p] \notin {"choose", "list", "read"} => uuid'[p] \in Uuids)
    BY DEF Forget, TypeOK, Open
  <2>5. trouble' \subseteq {p \in Requests : Open(p)'}
    BY DEF Forget, TypeOK, Open
  <2>. QED
    BY <2>1, <2>2, <2>3, <2>4, <2>5 DEF TypeOK, Answer
<1>2. NamesMatch'
  BY DEF Forget, NamesMatch
<1>3. ASSUME NEW p \in Requests
      PROVE  InPlace(p)'
  <2>1. CASE p \in R
    BY <2>1 DEF Forget, InPlace, Idle, Open
  <2>2. CASE p \notin R
    <3>1. Left(p) /\ seen'[p] = seen[p]
      BY <2>2 DEF Forget, Left
    <3>. QED
      BY <3>1, LeftInPlace DEF InPlace
  <2>. QED
    BY <2>1, <2>2
<1>. QED
  BY <1>1, <1>2, <1>3 DEF InPlace

\* The handler of r answers, with what the status already written allows.
Says(r, says, shows) == Answers(r, [status |-> 200, says |-> says, shows |-> shows])

Mine(r) == {<<uuid[r], newTask(r)>>}

LEMMA RespondFacts ==
  ASSUME NEW r \in Requests, answer[r] = Begun, NEW place, NEW says, NEW shows,
         Respond(r, place, says, shows)
  PROVE  \/ pc[r] = place /\ Says(r, says, shows)
         \/ pc[r] = "failed" /\ Says(r, "failed", {})
BY AnswerFacts DEF Respond, Says

LEMMA TellFacts ==
  ASSUME Inv, NEW r \in Requests, Tells(r)
  PROVE  /\ Open(r) /\ Placed(r)
         /\ \/ pc[r] = "absent" /\ Says(r, "missing", {})
            \/ pc[r] = "read" /\ names[r] = {} /\ Says(r, "listed", found[r])
            \/ pc[r] = "get" /\ Readable(r, uuid[r]) = {} /\ Says(r, "failed", {})
            \/ /\ pc[r] = "get" /\ Readable(r, uuid[r]) # {}
               /\ Says(r, "got", Readable(r, uuid[r]))
            \/ req[r].op = "add" /\ pc[r] = "done" /\ Says(r, "added", Mine(r))
            \/ req[r].op \in {"update", "save"} /\ pc[r] = "done" /\ Says(r, "updated", Mine(r))
            \/ pc[r] = "made" /\ Says(r, "created", Mine(r))
            \/ req[r].op = "delete" /\ pc[r] = "done" /\ Says(r, "deleted", {})
            \/ pc[r] = "failed" /\ Says(r, "failed", {})
<1>1. Open(r)
  BY DEF Tells, RespondAbsent, AllRead, GetScene, Serves, Open
<1>2. Placed(r) /\ answer[r] = Begun
  BY <1>1 DEF Inv, Placed
<1>3. CASE RespondAbsent(r)
  BY <1>1, <1>2, <1>3, AnswerFacts DEF RespondAbsent, Says
<1>4. CASE AllRead(r)
  BY <1>1, <1>2, <1>4, AnswerFacts DEF AllRead, Says
<1>5. CASE GetScene(r)
  BY <1>1, <1>2, <1>5, AnswerFacts DEF GetScene, Says
<1>6. CASE Serves(r, "add") /\ RespondTask(r, "done", "added")
  BY <1>1, <1>2, <1>6, RespondFacts DEF RespondTask, Serves, Mine
<1>7. CASE Serves(r, "update") /\ RespondTask(r, "done", "updated")
  BY <1>1, <1>2, <1>7, RespondFacts DEF RespondTask, Serves, Mine
<1>8. CASE Serves(r, "save") /\ RespondTask(r, "done", "updated")
  BY <1>1, <1>2, <1>8, RespondFacts DEF RespondTask, Serves, Mine
<1>9. CASE Serves(r, "save") /\ RespondTask(r, "made", "created")
  BY <1>1, <1>2, <1>9, RespondFacts DEF RespondTask, Serves, Mine
<1>10. CASE Serves(r, "delete") /\ Respond(r, "done", "deleted", {})
  BY <1>1, <1>2, <1>10, RespondFacts DEF Serves
<1>11. CASE Serves(r, "get") /\ Respond(r, "failed", "failed", {})
  BY <1>1, <1>2, <1>11, AnswerFacts DEF Respond, Serves, Says
<1>. QED
  BY <1>3, <1>4, <1>5, <1>6, <1>7, <1>8, <1>9, <1>10, <1>11 DEF Tells

LEMMA AnswersInv ==
  ASSUME Inv, NEW r \in Requests, NEW w \in Answer, Answers(r, w)
  PROVE  Inv'
<1>1. /\ answer' \in [Requests -> Answer]
      /\ \A p \in Requests \ {r} : answer'[p] = answer[p]
  BY DEF Inv, TypeOK, Answers, Answer
<1>2. Forget({r})
  BY DEF Answers
<1>. QED
  BY <1>1, <1>2, ForgetInv

LEMMA TellsInv ==
  ASSUME Inv, NEW r \in Requests, Tells(r)
  PROVE  Inv'
<1>1. \A says \in Verdicts, shows \in SUBSET Entries :
        [status |-> 200, says |-> says, shows |-> shows] \in Answer
  BY DEF Answer
<1>2. ASSUME NEW says \in Verdicts, NEW shows \in SUBSET Entries, Says(r, says, shows)
      PROVE  Inv'
  BY <1>1, <1>2, AnswersInv DEF Says
<1>3. found[r] \in SUBSET Entries /\ {} \in SUBSET Entries
  BY DEF Inv, TypeOK, Entries
<1>4. pc[r] \in {"get", "done", "made"} =>
        Readable(r, uuid[r]) \in SUBSET Entries /\ Mine(r) \in SUBSET Entries
  <2> SUFFICES ASSUME pc[r] \in {"get", "done", "made"}
               PROVE  Readable(r, uuid[r]) \in SUBSET Entries /\ Mine(r) \in SUBSET Entries
    OBVIOUS
  <2>1. uuid[r] \in Uuids
    BY DEF Inv, TypeOK, Open
  <2>2. newTask(r) \in Objects
    BY <2>1 DEF newTask, Objects
  <2>. QED
    BY <2>1, <2>2 DEF Readable, Mine, Entries
<1>5. {"missing", "listed", "failed", "got", "added", "updated", "created", "deleted"}
        \subseteq Verdicts
  BY DEF Verdicts
<1>. QED
  BY <1>2, <1>3, <1>4, <1>5, TellFacts

LEMMA RefuseInv ==
  ASSUME Inv, NEW r \in Requests, Refuse(r)
  PROVE  Inv'
<1>1. handlePreflight \in Answer /\ Refused \in Answer
  BY AnswerFacts DEF Answer, Verdicts
<1>. QED
  BY <1>1, AnswersInv DEF Refuse

LEMMA RestartInv ==
  ASSUME Inv, Restart
  PROVE  Inv'
<1>1. answer' \in [Requests -> Answer] /\ Forget(Requests)
  BY DEF Restart, Silence, Answer, Verdicts
<1>. QED
  BY <1>1, ForgetInv

LEMMA StutterInv ==
  ASSUME Inv, UNCHANGED vars
  PROVE  Inv'
<1> USE DEF vars, handlerVars, historyVars
<1>1. TypeOK'
  BY DEF Inv, TypeOK, Open
<1>2. NamesMatch'
  BY DEF Inv, NamesMatch
<1>3. \A p \in Requests : InPlace(p)'
  BY DEF Inv, InPlace, Placed, Idle, Open
<1>. QED
  BY <1>1, <1>2, <1>3 DEF Inv, InPlace

LEMMA NextInv ==
  ASSUME Inv, [Next]_vars
  PROVE  Inv'
<1>1. ASSUME NEW r \in Requests, Handler(r)
      PROVE  Inv'
  <2>1. ASSUME Enters(r)
        PROVE  Inv'
    BY <2>1, EnterFacts, BeginsInv
  <2>. QED
    BY <1>1, <2>1, Cases, RefuseInv, LooksInv, ChangesInv, TellsInv
<1>. QED
  BY <1>1, RestartInv, StutterInv DEF Next

\* Every state of the handlers has the form that TypeOK gives it: a request in work is
\* one of the six kinds, a name is chosen before it is used, and a failed call is
\* remembered only as long as its request is open.
THEOREM TypeCorrect == Spec => []TypeOK
<1>1. Inv /\ [Next]_vars => Inv'
  BY NextInv
<1>2. Inv => TypeOK
  BY DEF Inv
<1>. QED
  BY InitInv, <1>1, <1>2, PTL DEF Spec

\* What is stored under a name bears that name, for every number of connections, folders
\* and uuids (addTaskHandler, copyTaskHandler, updateTaskHandler,
\* updateBroadcastTaskHandler).
THEOREM NamesAgree == Spec => []NamesMatch
<1>1. Inv /\ [Next]_vars => Inv'
  BY NextInv
<1>2. Inv => NamesMatch
  BY DEF Inv
<1>. QED
  BY InitInv, <1>1, <1>2, PTL DEF Spec

-----------------------------------------------------------------------------
(* What open requests have seen and done.  This is what an answer rests on. *)

\* What is there now that concerns r has been seen.
Watching(r) ==
  \A v \in Uuids :
    <<v, store[<<req[r].folder, v>>]>> \in Scope(req[r]) =>
      <<v, store[<<req[r].folder, v>>]>> \in seen[r]

\* Where a handler is tells what it has found out, and whether it has taken effect.
Knows(r) ==
  /\ pc[r] \notin {"done", "made", "failed"} => took[r] = Nothing
  /\ pc[r] \in {"done", "made"} =>
       took[r] = <<uuid[r], IF req[r].op = "delete" THEN Nothing ELSE newTask(r)>>
  /\ req[r].op = "add" /\ pc[r] = "put" => <<uuid[r], Nothing>> \in seen[r]
  /\ req[r].op = "update" /\ pc[r] = "put" =>
       \E p \in seen[r] : p[1] = uuid[r] /\ p[2] # Nothing
  /\ pc[r] \in {"create", "made"} => <<uuid[r], Nothing>> \in seen[r]
  /\ pc[r] = "absent" => <<uuid[r], Nothing>> \in seen[r] \/ r \in trouble
  /\ pc[r] = "failed" => r \in trouble

\* Every uuid is to be read, was once free, or is found.
Reading(r) ==
  /\ found[r] \subseteq seen[r]
  /\ \A p \in found[r] : p[1] \notin names[r]
  /\ \A p, q \in found[r] : p[1] = q[1] => p = q
  /\ pc[r] # "read" => names[r] = {} /\ found[r] = {}
  /\ pc[r] = "read" /\ r \notin trouble =>
       \A v \in Uuids :
         \/ v \in names[r]
         \/ <<v, Nothing>> \in seen[r]
         \/ \E p \in found[r] : p[1] = v

Past(r) == Watching(r) /\ Knows(r) /\ Reading(r)

\* The inductive invariant that the refinement rests on.
IInv == Inv /\ \A r \in Requests : Open(r) => Past(r)

LEMMA ScopeFacts ==
  ASSUME NEW q \in Queries
  PROVE  /\ q.op = "list" => Scope(q) = Entries
         /\ q.op \in {"get", "update"} => Scope(q) = {q.uuid} \X (Objects \cup {Nothing})
         /\ q.op = "add" => Scope(q) = Uuids \X {Nothing}
         /\ q.op = "save" => Scope(q) = {<<q.uuid, Nothing>>}
         /\ q.op = "delete" => Scope(q) = {}
BY DEF Scope

LEMMA LeftPast ==
  ASSUME NEW p \in Requests, Past(p), Left(p), seen[p] \subseteq seen'[p], Watching(p)'
  PROVE  Past(p)'
<1>1. Knows(p)'
  BY DEF Past, Knows, Left, newTask
<1>2. Reading(p)'
  BY DEF Past, Reading, Left
<1>. QED
  BY <1>1, <1>2 DEF Past

LEMMA SameWatching ==
  ASSUME NEW p \in Requests, Past(p), req'[p] = req[p], seen'[p] = seen[p], store' = store
  PROVE  Watching(p)'
BY DEF Past, Watching

LEMMA BeginsPast ==
  ASSUME IInv, NEW r \in Requests, NEW q \in Queries, Begins(r, q),
         NEW p \in Requests, Open(p)'
  PROVE  Past(p)'
<1>1. CASE p = r
  <2>1. /\ req'[r] = q /\ uuid'[r] = q.uuid /\ pc'[r] = First(q.op)
        /\ seen'[r] = {<<v, store[<<q.folder, v>>]>> : v \in Uuids} \cap Scope(q)
        /\ took'[r] = took[r] /\ names'[r] = names[r] /\ found'[r] = found[r]
        /\ store' = store
    BY DEF Begins, IInv, Inv, TypeOK
  <2>2. took[r] = Nothing /\ names[r] = {} /\ found[r] = {}
    BY DEF Begins, IInv, Inv, Idle
  <2>3. First(q.op) \in {"list", "choose", "stat", "remove", "get"}
    BY DEF First
  <2>4. Watching(r)'
    BY <2>1 DEF Watching
  <2>5. Knows(r)'
    BY <2>1, <2>2, <2>3 DEF Knows
  <2>6. Reading(r)'
    BY <2>1, <2>2, <2>3 DEF Reading
  <2>. QED
    BY <1>1, <2>4, <2>5, <2>6 DEF Past
<1>2. CASE p # r
  <2>1. Left(p) /\ seen'[p] = seen[p] /\ store' = store
    BY <1>2 DEF Left, Begins, IInv, Inv, TypeOK
  <2>2. Past(p)
    BY <2>1 DEF IInv, Open, Left
  <2>. QED
    BY <2>1, <2>2, SameWatching, LeftPast DEF Left
<1>. QED
  BY <1>1, <1>2

LEMMA ForgetPast ==
  ASSUME IInv, NEW R \in SUBSET Requests, Forget(R),
         \A p \in Requests \ R : answer'[p] = answer[p],
         NEW p \in Requests, Open(p)'
  PROVE  Past(p)'
<1>1. p \notin R
  BY DEF Forget, Open
<1>2. Left(p) /\ seen'[p] = seen[p] /\ store' = store
  BY <1>1 DEF Left, Forget
<1>3. Past(p)
  BY <1>2 DEF IInv, Open, Left
<1>. QED
  BY <1>2, <1>3, SameWatching, LeftPast DEF Left

LEMMA ChangesPast ==
  ASSUME IInv, NEW r \in Requests, Changes(r), NEW p \in Requests, Open(p)'
  PROVE  Past(p)'
<1> USE DEF IInv
<1>1. Open(r) /\ Placed(r) /\ uuid[r] \in Uuids /\ Past(r)
  BY ChangeFacts
<1>2. PICK o \in Objects \cup {Nothing}, place \in Places(req[r].op) :
        /\ Alters(r, o, place)
        /\ place \in {"failed", IF pc[r] = "create" THEN "made" ELSE "done"}
        /\ IF req[r].op = "delete" THEN o = Nothing /\ pc[r] = "remove"
                                   ELSE o = newTask(r) /\ pc[r] \in {"put", "create"}
  BY ChangeFacts
<1>3. Open(p) /\ req'[p] = req[p]
  BY <1>1, <1>2 DEF Alters, Open, Inv, TypeOK
<1>4. Past(p) /\ Placed(p)
  BY <1>3 DEF Inv
<1>5. seen[p] \subseteq seen'[p]
  BY <1>2 DEF Alters
<1>6. Watching(p)'
  <2> SUFFICES ASSUME NEW v \in Uuids,
                      <<v, store'[<<req[p].folder, v>>]>> \in Scope(req[p])
               PROVE  <<v, store'[<<req[p].folder, v>>]>> \in seen'[p]
    BY <1>3 DEF Watching
  <2>1. <<req[p].folder, v>> \in Folders \X Uuids /\ filePath(r) \in Folders \X Uuids
    BY <1>1, <1>4, QueryFacts DEF Placed, filePath
  <2>2. CASE <<req[p].folder, v>> = filePath(r)
    <3>1. req[p].folder = req[r].folder /\ v = uuid[r]
      BY <2>2 DEF filePath
    <3>2. store'[<<req[p].folder, v>>] = o
      BY <1>2, <2>1, <2>2 DEF Alters, Inv, TypeOK
    <3>. QED
      BY <1>2, <1>3, <3>1, <3>2 DEF Alters
  <2>3. CASE <<req[p].folder, v>> # filePath(r)
    <3>1. store'[<<req[p].folder, v>>] = store[<<req[p].folder, v>>]
      BY <1>2, <2>1, <2>3 DEF Alters, Inv, TypeOK
    <3>. QED
      BY <1>4, <1>5, <3>1 DEF Past, Watching
  <2>. QED
    BY <2>2, <2>3
<1>7. CASE p = r
  <2>1. /\ pc'[r] = place /\ uuid'[r] = uuid[r] /\ names'[r] = names[r] /\ found'[r] = found[r]
        /\ took'[r] = <<uuid[r], o>>
    BY <1>2 DEF Alters, Inv, TypeOK
  <2>2. place \in {"failed", "made", "done"} /\ (place = "failed" => r \in trouble')
    BY <1>2 DEF Alters
  <2>3. pc[r] \in {"put", "create", "remove"} /\ (place = "made" => pc[r] = "create")
    BY <1>2
  <2>4. o = IF req[r].op = "delete" THEN Nothing ELSE newTask(r)
    BY <1>2
  <2>5. newTask(r)' = newTask(r)
    BY <2>1 DEF newTask
  <2>6. Knows(r)'
    <3>1. place = "made" => <<uuid[r], Nothing>> \in seen'[r]
      BY <1>1, <1>5, <1>7, <2>3 DEF Past, Knows
    <3>. QED
      BY <1>3, <1>7, <2>1, <2>2, <2>4, <2>5, <3>1 DEF Knows
  <2>7. Reading(r)'
    BY <1>1, <2>1, <2>2, <2>3 DEF Past, Reading
  <2>. QED
    BY <1>6, <1>7, <2>6, <2>7 DEF Past
<1>8. CASE p # r
  <2>1. Left(p)
    BY <1>2, <1>8 DEF Left, Alters, Inv, TypeOK
  <2>. QED
    BY <1>4, <1>5, <1>6, <2>1, LeftPast
<1>. QED
  BY <1>7, <1>8

\* One step of handler r that leaves what it reads alone, from a place before its effect.
LEMMA PlainPast ==
  ASSUME NEW r \in Requests, Past(r), Watching(r)', pc[r] \notin {"done", "made", "failed", "read"},
         UNCHANGED <<seen, took, names, found>>, trouble \subseteq trouble',
         pc'[r] \notin {"done", "made", "read"},
         req'[r].op = "add" /\ pc'[r] = "put" => <<uuid'[r], Nothing>> \in seen[r],
         req'[r].op = "update" /\ pc'[r] = "put" =>
           \E p \in seen[r] : p[1] = uuid'[r] /\ p[2] # Nothing,
         pc'[r] = "create" => <<uuid'[r], Nothing>> \in seen[r],
         pc'[r] = "absent" => <<uuid'[r], Nothing>> \in seen[r] \/ r \in trouble',
         pc'[r] = "failed" => r \in trouble'
  PROVE  Past(r)'
<1>1. Knows(r)'
  BY DEF Past, Knows
<1>2. Reading(r)'
  BY DEF Past, Reading
<1>. QED
  BY <1>1, <1>2 DEF Past

LEMMA LooksPast ==
  ASSUME IInv, NEW r \in Requests, Looks(r), NEW p \in Requests, Open(p)'
  PROVE  Past(p)'
<1> USE DEF IInv, handlerVars, historyVars, GoTo
<1>1. Open(r) /\ Placed(r) /\ Past(r)
  BY LookFacts DEF Inv
<1>2. PICK place \in Places(req[r].op), u \in Uuids \cup {Nothing},
           N \in SUBSET Uuids, F \in SUBSET (Uuids \X Objects) :
        /\ Moves(r, place, u, N, F)
        /\ req[r].op # "add" => u = uuid[r]
        /\ req[r].op = "add" /\ place # "choose" => u \in TaskUuids
  BY LookFacts
<1>3. UNCHANGED <<store, req, answer, seen, took>>
  BY <1>2 DEF Moves
<1>4. ASSUME p # r
      PROVE  Past(p)'
  <2>1. Left(p)
    BY <1>2, <1>4 DEF Left, Moves, Inv, TypeOK
  <2>2. Past(p)
    BY <2>1 DEF Open, Left
  <2>. QED
    BY <1>3, <2>1, <2>2, SameWatching, LeftPast
<1>5. Watching(r)'
  BY <1>1, <1>3, SameWatching
<1>6. req[r] \in Queries
  BY <1>1 DEF Placed
<1>7. ASSUME NEW v \in Uuids, v = uuid[r], req[r].op \in {"add", "update", "save"}
      PROVE  /\ store[filePath(r)] = Nothing => <<v, Nothing>> \in seen[r]
             /\ req[r].op = "update" => <<v, store[filePath(r)]>> \in seen[r]
  <2>1. filePath(r) = <<req[r].folder, v>>
    BY <1>7 DEF filePath
  <2>2. store[<<req[r].folder, v>>] \in Objects \cup {Nothing}
    BY <1>6, QueryFacts, StoreType DEF Inv
  <2>3. store[filePath(r)] = Nothing \/ req[r].op = "update" =>
          <<v, store[filePath(r)]>> \in Scope(req[r])
    <3>1. req[r].op # "add" => v = req[r].uuid
      BY <1>1, <1>7 DEF Placed
    <3>. QED
      BY <1>6, <1>7, <2>1, <2>2, <3>1, ScopeFacts
  <2>. QED
    BY <1>1, <2>1, <2>3 DEF Past, Watching
<1>8. CASE CallFails(r)
  <2>1. UNCHANGED <<uuid, names, found>> /\ trouble' = trouble \cup {r}
    BY <1>8 DEF CallFails
  <2>2. CASE pc[r] = "list" /\ GoTo(r, "read")
    <3>1. pc'[r] = "read"
      BY <2>2 DEF Inv, TypeOK
    <3>2. Knows(r)'
      BY <1>1, <1>3, <2>1, <2>2, <3>1 DEF Past, Knows
    <3>3. Reading(r)'
      BY <1>1, <1>3, <2>1, <2>2, <3>1 DEF Past, Reading
    <3>. QED
      BY <1>4, <1>5, <3>2, <3>3 DEF Past
  <2>3. CASE pc[r] = "check" /\ GoTo(r, "choose")
    <3>1. pc'[r] = "choose"
      BY <2>3 DEF Inv, TypeOK
    <3>. QED
      BY <1>1, <1>3, <1>4, <1>5, <2>1, <2>3, <3>1, PlainPast
  <2>4. CASE pc[r] = "stat" /\ GoTo(r, "absent")
    <3>1. pc'[r] = "absent"
      BY <2>4 DEF Inv, TypeOK
    <3>. QED
      BY <1>1, <1>3, <1>4, <1>5, <2>1, <2>4, <3>1, PlainPast
  <2>5. CASE pc[r] \in {"put", "create", "remove", "get"} /\ GoTo(r, "failed")
    <3>1. pc'[r] = "failed"
      BY <2>5 DEF Inv, TypeOK
    <3>. QED
      BY <1>1, <1>3, <1>4, <1>5, <2>1, <2>5, <3>1, PlainPast
  <2>. QED
    BY <1>8, <2>2, <2>3, <2>4, <2>5 DEF CallFails
<1>9. CASE ChooseUuid(r)
  <2>1. pc[r] = "choose" /\ pc'[r] = "check" /\ UNCHANGED <<names, found, trouble>>
    BY <1>9 DEF ChooseUuid, Inv, TypeOK
  <2>. QED
    BY <1>1, <1>3, <1>4, <1>5, <2>1, PlainPast
<1>10. CASE CheckFileExists(r)
  <2>1. /\ pc[r] = "check" /\ pc'[r] = IF store[filePath(r)] = Nothing THEN "put" ELSE "choose"
        /\ UNCHANGED <<uuid, names, found, trouble>>
    BY <1>10 DEF CheckFileExists, Inv, TypeOK
  <2>2. req[r].op = "add" /\ uuid[r] \in Uuids
    BY <1>1, <2>1, PlaceFacts DEF Placed, Uuids
  <2>. QED
    BY <1>1, <1>3, <1>4, <1>5, <1>7, <2>1, <2>2, PlainPast
<1>11. CASE Serves(r, "update") /\ StatTask(r)
  <2>1. /\ pc[r] = "stat" /\ pc'[r] = IF store[filePath(r)] = Nothing THEN "absent" ELSE "put"
        /\ UNCHANGED <<uuid, names, found, trouble>>
    BY <1>11 DEF StatTask, Inv, TypeOK
  <2>2. req[r].op = "update" /\ uuid[r] \in Uuids
    BY <1>1, <1>6, <1>11, QueryFacts DEF Placed, Serves
  <2>3. store[filePath(r)] # Nothing => \E e \in seen[r] : e[1] = uuid[r] /\ e[2] # Nothing
    BY <1>7, <2>2
  <2>. QED
    BY <1>1, <1>3, <1>4, <1>5, <1>7, <2>1, <2>2, <2>3, PlainPast
<1>12. CASE Serves(r, "save") /\ StatScene(r)
  <2>1. /\ pc[r] = "stat" /\ pc'[r] = IF store[filePath(r)] = Nothing THEN "create" ELSE "put"
        /\ UNCHANGED <<uuid, names, found, trouble>>
    BY <1>12 DEF StatScene, Inv, TypeOK
  <2>2. req[r].op = "save" /\ uuid[r] \in Uuids
    BY <1>1, <1>6, <1>12, QueryFacts DEF Placed, Serves
  <2>. QED
    BY <1>1, <1>3, <1>4, <1>5, <1>7, <2>1, <2>2, PlainPast
<1>13. pc[r] \in {"list", "read"} =>
         \A v \in Uuids : <<v, store[<<req[r].folder, v>>]>> \in seen[r]
  <2> SUFFICES ASSUME pc[r] \in {"list", "read"}, NEW v \in Uuids
               PROVE  <<v, store[<<req[r].folder, v>>]>> \in seen[r]
    OBVIOUS
  <2>1. Scope(req[r]) = Entries
    BY <1>1, <1>6, PlaceFacts, ScopeFacts
  <2>2. store[<<req[r].folder, v>>] \in Objects \cup {Nothing}
    BY <1>6, QueryFacts, StoreType DEF Inv
  <2>. QED
    BY <1>1, <2>1, <2>2 DEF Entries, Past, Watching
<1>14. CASE ListObjects(r)
  <2>1. /\ pc[r] = "list" /\ pc'[r] = "read"
        /\ names'[r] = {v \in Uuids : store[<<req[r].folder, v>>] # Nothing}
        /\ UNCHANGED <<uuid, found, trouble>>
    BY <1>14 DEF ListObjects, Inv, TypeOK
  <2>2. Knows(r)'
    BY <1>1, <1>3, <2>1 DEF Past, Knows
  <2>3. found[r] = {}
    BY <1>1, <2>1 DEF Past, Reading
  <2>4. \A v \in Uuids : v \in names'[r] \/ <<v, Nothing>> \in seen[r]
    BY <1>13, <2>1
  <2>5. Reading(r)'
    BY <1>3, <2>1, <2>3, <2>4 DEF Reading
  <2>. QED
    BY <1>4, <1>5, <2>2, <2>5 DEF Past
<1>15. ASSUME NEW v \in Uuids, ReadTask(r, v)
       PROVE  Past(p)'
  <2>1. /\ pc[r] = "read" /\ v \in names[r]
        /\ names'[r] = names[r] \ {v} /\ found'[r] = found[r] \cup Readable(r, v)
        /\ UNCHANGED <<uuid, pc, trouble>>
    BY <1>15 DEF ReadTask, Inv, TypeOK
  <2>2. Knows(r)'
    BY <1>1, <1>3, <2>1 DEF Past, Knows
  <2>3. \A e \in Readable(r, v) : e = <<v, store[<<req[r].folder, v>>]>>
    BY DEF Readable
  <2>4. store[<<req[r].folder, v>>] # Nothing =>
          <<v, store[<<req[r].folder, v>>]>> \in Readable(r, v)
    <3>1. store[<<req[r].folder, v>>] \in Objects \cup {Nothing}
      BY <1>6, QueryFacts, StoreType DEF Inv
    <3>. QED
      BY <3>1 DEF Readable
  <2>5. <<v, store[<<req[r].folder, v>>]>> \in seen[r]
    BY <1>13, <2>1
  <2>6. Reading(r)
    BY <1>1 DEF Past
  <2>7. found'[r] \subseteq seen'[r]
    BY <1>3, <2>1, <2>3, <2>5, <2>6 DEF Reading
  <2>8. \A e \in found'[r] : e[1] \notin names'[r]
    BY <2>1, <2>3, <2>6 DEF Reading
  <2>9. \A e, d \in found'[r] : e[1] = d[1] => e = d
    BY <2>1, <2>3, <2>6 DEF Reading
  <2>10. r \notin trouble' => \A w \in Uuids :
           w \in names'[r] \/ <<w, Nothing>> \in seen'[r] \/ \E e \in found'[r] : e[1] = w
    <3> SUFFICES ASSUME r \notin trouble, NEW w \in Uuids
                 PROVE  w \in names'[r] \/ <<w, Nothing>> \in seen'[r]
                          \/ \E e \in found'[r] : e[1] = w
      BY <2>1
    <3>1. CASE w = v
      BY <1>3, <2>1, <2>4, <2>5, <3>1
    <3>2. CASE w # v
      BY <1>3, <2>1, <2>6, <3>2 DEF Reading
    <3>. QED
      BY <3>1, <3>2
  <2>11. Reading(r)'
    BY <2>1, <2>7, <2>8, <2>9, <2>10 DEF Reading
  <2>. QED
    BY <1>4, <1>5, <2>2, <2>11 DEF Past
<1>16. ASSUME NEW v \in Uuids, ReadFails(r, v)
       PROVE  Past(p)'
  <2>1. /\ pc[r] = "read" /\ names'[r] = names[r] \ {v} /\ trouble' = trouble \cup {r}
        /\ UNCHANGED <<uuid, pc, found>>
    BY <1>16 DEF ReadFails, Inv, TypeOK
  <2>2. Knows(r)'
    BY <1>1, <1>3, <2>1 DEF Past, Knows
  <2>3. Reading(r)'
    BY <1>1, <1>3, <2>1 DEF Past, Reading
  <2>. QED
    BY <1>4, <1>5, <2>2, <2>3 DEF Past
<1>. QED
  BY <1>8, <1>9, <1>10, <1>11, <1>12, <1>14, <1>15, <1>16 DEF Looks

LEMMA NextIInv ==
  ASSUME IInv, [Next]_vars
  PROVE  IInv'
<1>1. Inv'
  BY NextInv DEF IInv
<1>2. ASSUME NEW R \in SUBSET Requests, Forget(R),
             \A p \in Requests \ R : answer'[p] = answer[p]
      PROVE  \A p \in Requests : Open(p)' => Past(p)'
  BY <1>2, ForgetPast
<1>3. ASSUME NEW r \in Requests, NEW w, Answers(r, w)
      PROVE  \A p \in Requests : Open(p)' => Past(p)'
  <2>1. Forget({r}) /\ \A p \in Requests \ {r} : answer'[p] = answer[p]
    BY <1>3 DEF Answers, IInv, Inv, TypeOK
  <2>. QED
    BY <1>2, <2>1
<1>4. ASSUME NEW r \in Requests, Handler(r)
      PROVE  \A p \in Requests : Open(p)' => Past(p)'
  <2>1. CASE Refuse(r)
    BY <1>3, <2>1 DEF Refuse
  <2>2. CASE Enters(r)
    BY <2>2, EnterFacts, BeginsPast
  <2>3. CASE Tells(r)
    <3>1. \E w : Answers(r, w)
      BY <2>3, TellFacts DEF Says, IInv
    <3>. QED
      BY <1>3, <3>1
  <2>4. CASE Looks(r) \/ Changes(r)
    BY <2>4, LooksPast, ChangesPast
  <2>. QED
    BY <1>4, <2>1, <2>2, <2>3, <2>4, Cases
<1>5. ASSUME Restart
      PROVE  \A p \in Requests : Open(p)' => Past(p)'
  <2>1. Forget(Requests)
    BY <1>5 DEF Restart
  <2>. QED
    BY <1>2, <2>1
<1>6. ASSUME UNCHANGED vars
      PROVE  \A p \in Requests : Open(p)' => Past(p)'
  <2> SUFFICES ASSUME NEW p \in Requests, Open(p)'
               PROVE  Past(p)'
    OBVIOUS
  <2>1. Left(p) /\ seen'[p] = seen[p] /\ store' = store
    BY <1>6 DEF vars, handlerVars, historyVars, Left
  <2>2. Past(p)
    BY <2>1 DEF IInv, Open, Left
  <2>. QED
    BY <2>1, <2>2, SameWatching, LeftPast DEF Left
<1>. QED
  BY <1>1, <1>4, <1>5, <1>6 DEF IInv, Next

LEMMA InitIInv == Init => IInv
BY InitInv DEF Init, IInv, Open

-----------------------------------------------------------------------------
(* Every step is one that TaskPromise allows.                              *)

LEMMA PromiseScope == \A q : Promise!Scope(q) = Scope(q)
BY DEF Promise!Scope, Scope, Promise!Objects, Objects, Promise!Entries, Entries

stages == [r \in Requests |-> IF Open(r) THEN "open" ELSE "free"]

LEMMA BeginsAsk ==
  ASSUME IInv, NEW r \in Requests, NEW q \in Queries, Begins(r, q)
  PROVE  Promise!Ask(r)
<1> USE DEF IInv, Inv, TypeOK
<1>1. req'[r] = q
  BY DEF Begins
<1>2. stages[r] = "free" /\ stages' = [stages EXCEPT ![r] = "open"]
  <2>1. First(q.op) # "free"
    BY DEF First
  <2>2. \A p \in Requests : Open(p)' <=> (p = r \/ Open(p))
    BY <2>1 DEF Begins, Open
  <2>. QED
    BY <2>2 DEF Begins, stages
<1>3. took' = [took EXCEPT ![r] = Nothing]
  <2>1. took[r] = Nothing /\ took' = took
    BY DEF Begins, Idle
  <2>. QED
    BY <2>1
<1>4. seen' = [seen EXCEPT ![r] =
        {<<u, store[<<req'[r].folder, u>>]>> : u \in Uuids} \cap Promise!Scope(req'[r])]
  <2>1. Promise!Scope(req'[r]) = Scope(q)
    BY <1>1, PromiseScope
  <2>2. seen' = [seen EXCEPT ![r] = {<<v, store[<<q.folder, v>>]>> : v \in Uuids} \cap Scope(q)]
    BY DEF Begins
  <2>. QED
    BY ONLY <1>1, <2>1, <2>2
<1>5. /\ req' = [req EXCEPT ![r] = req'[r]]
      /\ answer' = [answer EXCEPT ![r] = answer'[r]]
      /\ UNCHANGED <<store, trouble>>
  BY DEF Begins
<1>. QED
  BY <1>2, <1>3, <1>4, <1>5 DEF Promise!Ask, stages

LEMMA ForgetClose ==
  ASSUME IInv, NEW R \in SUBSET Requests, Forget(R),
         \A p \in Requests \ R : answer'[p] = answer[p]
  PROVE  Promise!Close(R)
<1>1. stages' = [p \in Requests |-> IF p \in R THEN "free" ELSE stages[p]]
  BY DEF Forget, stages, Open
<1>. QED
  BY <1>1 DEF Promise!Close, stages, Forget

LEMMA AnswersClose ==
  ASSUME IInv, NEW r \in Requests, NEW w, Answers(r, w)
  PROVE  Promise!Close({r}) /\ answer'[r] = w
<1>1. Forget({r}) /\ answer'[r] = w /\ \A p \in Requests \ {r} : answer'[p] = answer[p]
  BY DEF Answers, IInv, Inv, TypeOK
<1>. QED
  BY <1>1, ForgetClose

LEMMA RefusePromise ==
  ASSUME IInv, NEW r \in Requests, Refuse(r)
  PROVE  Promise!Refuse(r)
<1>1. stages[r] = "free"
  BY DEF Refuse, stages
<1>2. answer'[r].says = "refused" /\ answer'[r].status \in {200, 204} /\ Promise!Close({r})
  BY AnswersClose, AnswerFacts DEF Refuse
<1>. QED
  BY <1>1, <1>2 DEF Promise!Refuse, stages

LEMMA LooksPromise ==
  ASSUME IInv, NEW r \in Requests, Looks(r)
  PROVE  Promise!Fail(r) \/ UNCHANGED Promise!promiseVars
<1>1. Open(r)
  BY LookFacts DEF IInv
<1>2. PICK place \in Places(req[r].op), u \in Uuids \cup {Nothing},
           N \in SUBSET Uuids, F \in SUBSET (Uuids \X Objects) : Moves(r, place, u, N, F)
  BY LookFacts DEF IInv
<1>3. place # "free"
  BY <1>1, <1>2, QueryFacts, PlacesOf DEF IInv, Inv, Placed
<1>4. \A p \in Requests : Open(p)' <=> Open(p)
  BY <1>1, <1>2, <1>3 DEF Moves, Open, IInv, Inv, TypeOK
<1>5. stages' = stages
  BY <1>4 DEF stages
<1>. QED
  BY <1>1, <1>2, <1>5 DEF Moves, Promise!Fail, Promise!promiseVars, stages

LEMMA ChangesPromise ==
  ASSUME IInv, NEW r \in Requests, Changes(r)
  PROVE  Promise!TakeEffect(r)
<1>1. Open(r) /\ Placed(r) /\ uuid[r] \in Uuids /\ Past(r)
  BY ChangeFacts DEF IInv
<1>2. PICK o \in Objects \cup {Nothing}, place \in Places(req[r].op) :
        /\ Alters(r, o, place)
        /\ place \in {"failed", IF pc[r] = "create" THEN "made" ELSE "done"}
        /\ IF req[r].op = "delete" THEN o = Nothing /\ pc[r] = "remove"
                                   ELSE o = newTask(r) /\ pc[r] \in {"put", "create"}
  BY ChangeFacts DEF IInv
<1>3. took[r] = Nothing
  BY <1>1, <1>2 DEF Past, Knows
<1>4. Promise!May(r, uuid[r], o)
  <2>1. req[r].op \in {"add", "update", "delete", "save"}
    BY <1>1, <1>2, PlaceFacts
  <2>2. req[r].op # "delete" => o = [uuid |-> uuid[r], from |-> r]
    BY <1>2 DEF newTask
  <2>3. req[r].op # "add" => uuid[r] = req[r].uuid
    BY <1>1 DEF Placed
  <2>4. req[r].op = "add" => <<uuid[r], Nothing>> \in seen[r]
    BY <1>1, <1>2, PlaceFacts DEF Past, Knows
  <2>5. req[r].op = "update" => \E p \in seen[r] : p[1] = uuid[r] /\ p[2] # Nothing
    BY <1>1, <1>2, PlaceFacts DEF Past, Knows
  <2>. QED
    BY <1>2, <2>1, <2>2, <2>3, <2>4, <2>5 DEF Promise!May
<1>5. stages' = stages /\ stages[r] = "open"
  <2>1. \A p \in Requests : Open(p)' <=> Open(p)
    BY <1>1, <1>2 DEF Alters, Open, IInv, Inv, TypeOK
  <2>. QED
    BY <1>1, <2>1 DEF stages
<1>6. seen' = [q \in Requests |->
        IF stages[q] = "open" /\ req[q].folder = req[r].folder
        THEN seen[q] \cup ({<<uuid[r], o>>} \cap Promise!Scope(req[q])) ELSE seen[q]]
  BY <1>2, PromiseScope DEF Alters, stages
<1>7. /\ store' = [store EXCEPT ![<<req[r].folder, uuid[r]>>] = o]
      /\ took' = [took EXCEPT ![r] = <<uuid[r], o>>]
      /\ trouble' \in {trouble, trouble \cup {r}}
      /\ UNCHANGED <<req, answer>>
  BY <1>2 DEF Alters, filePath
<1>8. o \in Promise!Objects \cup {Nothing}
  BY DEF Promise!Objects, Objects
<1>. QED
  BY <1>1, <1>3, <1>4, <1>5, <1>6, <1>7, <1>8 DEF Promise!TakeEffect, stages

\* What is told is honest, and so the end of a request is one that TaskPromise allows.
LEMMA SaysTell ==
  ASSUME IInv, NEW r \in Requests, Open(r), NEW says, NEW shows, Says(r, says, shows),
         Promise!Honest(r, says, shows)
  PROVE  Promise!Tell(r)
<1> DEFINE w == [status |-> 200, says |-> says, shows |-> shows]
<1>1. Promise!Close({r}) /\ answer'[r] = w
  BY AnswersClose DEF Says
<1>2. w.status = 200 /\ w.says = says /\ w.shows = shows
  OBVIOUS
<1> HIDE DEF w
<1>3. stages[r] = "open"
  BY DEF stages
<1>. QED
  BY <1>1, <1>2, <1>3 DEF Promise!Tell, stages

LEMMA TookMine ==
  ASSUME IInv, NEW r \in Requests, Open(r), pc[r] \in {"done", "made"}, req[r].op # "delete"
  PROVE  took[r] # Nothing /\ Mine(r) = {took[r]}
<1>1. uuid[r] \in Uuids
  BY DEF IInv, Inv, TypeOK
<1>2. newTask(r) \in Objects
  BY <1>1 DEF newTask, Objects
<1>3. took[r] = <<uuid[r], newTask(r)>>
  BY DEF IInv, Past, Knows
<1>. QED
  BY <1>1, <1>2, <1>3, StoreAssumption DEF Entries, Mine

LEMMA ListHonest ==
  ASSUME IInv, NEW r \in Requests, Open(r), pc[r] = "read", names[r] = {}
  PROVE  Promise!Honest(r, "listed", found[r])
<1>1. Reading(r)
  BY DEF IInv, Past
<1>2. \A p \in found[r] : p[2] # Nothing
  BY StoreAssumption DEF IInv, Inv, TypeOK
<1>3. r \notin trouble =>
        \A v \in Uuids : <<v, Nothing>> \in seen[r] \/ \E p \in found[r] : p[1] = v
  BY <1>1 DEF Reading
<1>4. /\ found[r] \subseteq seen[r]
      /\ \A p, q \in found[r] : p[1] = q[1] => p = q
  BY <1>1 DEF Reading
<1>. QED
  BY <1>2, <1>3, <1>4 DEF Promise!Honest

LEMMA GetHonest ==
  ASSUME IInv, NEW r \in Requests, Open(r), pc[r] = "get"
  PROVE  IF Readable(r, uuid[r]) = {} THEN Promise!Honest(r, "failed", {})
                                      ELSE Promise!Honest(r, "got", Readable(r, uuid[r]))
<1> DEFINE o == store[<<req[r].folder, uuid[r]>>]
<1>1. Placed(r) /\ Past(r)
  BY DEF IInv, Inv
<1>2. req[r] \in Queries /\ req[r].op = "get" /\ uuid[r] = req[r].uuid /\ uuid[r] \in Uuids
  BY <1>1, PlaceFacts, QueryFacts DEF Placed
<1>3. o \in Objects \cup {Nothing}
  BY <1>2, QueryFacts, StoreType DEF IInv, Inv
<1>4. <<uuid[r], o>> \in seen[r]
  <2>1. Scope(req[r]) = {uuid[r]} \X (Objects \cup {Nothing})
    BY <1>2, ScopeFacts
  <2>. QED
    BY <1>1, <1>2, <1>3, <2>1 DEF Past, Watching
<1>5. CASE o = Nothing
  <2>1. Readable(r, uuid[r]) = {}
    BY <1>5, StoreAssumption DEF Readable
  <2>2. Promise!Honest(r, "failed", {})
    BY <1>2, <1>4, <1>5 DEF Promise!Honest
  <2>. QED
    BY <2>1, <2>2
<1>6. CASE o # Nothing
  <2>1. o \in Objects /\ Readable(r, uuid[r]) = {<<uuid[r], o>>}
    BY <1>3, <1>6 DEF Readable
  <2>2. \E x \in Promise!Objects : {<<uuid[r], o>>} = {<<req[r].uuid, x>>}
    BY <1>2, <2>1 DEF Promise!Objects, Objects
  <2>3. {<<uuid[r], o>>} \subseteq seen[r]
    BY <1>4
  <2> HIDE DEF o
  <2>4. Promise!Honest(r, "got", {<<uuid[r], o>>})
    BY <2>2, <2>3 DEF Promise!Honest
  <2>. QED
    BY <2>1, <2>4
<1>. QED
  BY <1>5, <1>6

LEMMA TellsPromise ==
  ASSUME IInv, NEW r \in Requests, Tells(r)
  PROVE  Promise!Tell(r)
<1>1. Open(r) /\ Placed(r) /\ Knows(r)
  BY TellFacts DEF IInv, Past
<1>2. req[r].op # "add" => uuid[r] = req[r].uuid
  BY <1>1 DEF Placed
<1>3. CASE pc[r] = "absent" /\ Says(r, "missing", {})
  <2>1. req[r].op # "add"
    BY <1>1, <1>3, PlaceFacts
  <2>2. Promise!Honest(r, "missing", {})
    BY <1>1, <1>2, <1>3, <2>1 DEF Promise!Honest, Knows
  <2>. QED
    BY <1>1, <1>3, <2>2, SaysTell
<1>4. CASE pc[r] = "read" /\ names[r] = {} /\ Says(r, "listed", found[r])
  BY <1>1, <1>4, ListHonest, SaysTell
<1>5. CASE pc[r] = "get" /\ Readable(r, uuid[r]) = {} /\ Says(r, "failed", {})
  BY <1>1, <1>5, GetHonest, SaysTell
<1>6. CASE /\ pc[r] = "get" /\ Readable(r, uuid[r]) # {}
           /\ Says(r, "got", Readable(r, uuid[r]))
  BY <1>1, <1>6, GetHonest, SaysTell
<1>7. CASE req[r].op = "add" /\ pc[r] = "done" /\ Says(r, "added", Mine(r))
  <2>1. Promise!Honest(r, "added", Mine(r))
    BY <1>1, <1>7, TookMine DEF Promise!Honest
  <2>. QED
    BY <1>1, <1>7, <2>1, SaysTell
<1>8. CASE req[r].op \in {"update", "save"} /\ pc[r] = "done" /\ Says(r, "updated", Mine(r))
  <2>1. Promise!Honest(r, "updated", Mine(r))
    BY <1>1, <1>8, TookMine DEF Promise!Honest
  <2>. QED
    BY <1>1, <1>8, <2>1, SaysTell
<1>9. CASE pc[r] = "made" /\ Says(r, "created", Mine(r))
  <2>1. req[r].op = "save"
    BY <1>1, <1>9, PlaceFacts
  <2>2. took[r] # Nothing /\ Mine(r) = {took[r]} /\ <<req[r].uuid, Nothing>> \in seen[r]
    BY <1>1, <1>2, <1>9, <2>1, TookMine DEF Knows
  <2>3. Promise!Honest(r, "created", Mine(r))
    BY <2>2 DEF Promise!Honest
  <2>. QED
    BY <1>1, <1>9, <2>3, SaysTell
<1>10. CASE req[r].op = "delete" /\ pc[r] = "done" /\ Says(r, "deleted", {})
  <2>1. Promise!Honest(r, "deleted", {})
    BY <1>1, <1>2, <1>10 DEF Promise!Honest, Knows
  <2>. QED
    BY <1>1, <1>10, <2>1, SaysTell
<1>11. CASE pc[r] = "failed" /\ Says(r, "failed", {})
  <2>1. Promise!Honest(r, "failed", {})
    BY <1>1, <1>11 DEF Promise!Honest, Knows
  <2>. QED
    BY <1>1, <1>11, <2>1, SaysTell
<1>. QED
  BY <1>3, <1>4, <1>5, <1>6, <1>7, <1>8, <1>9, <1>10, <1>11, TellFacts DEF IInv

LEMMA NextPromise ==
  ASSUME IInv, [Next]_vars
  PROVE  [Promise!PromiseNext]_Promise!promiseVars
<1>1. ASSUME NEW r \in Requests, Handler(r)
      PROVE  Promise!PromiseNext \/ UNCHANGED Promise!promiseVars
  <2>1. CASE Refuse(r)
    BY <2>1, RefusePromise DEF Promise!PromiseNext
  <2>2. CASE Enters(r)
    BY <2>2, EnterFacts, BeginsAsk DEF Promise!PromiseNext
  <2>3. CASE Looks(r)
    BY <2>3, LooksPromise DEF Promise!PromiseNext
  <2>4. CASE Changes(r)
    BY <2>4, ChangesPromise DEF Promise!PromiseNext
  <2>5. CASE Tells(r)
    BY <2>5, TellsPromise DEF Promise!PromiseNext
  <2>. QED
    BY <1>1, <2>1, <2>2, <2>3, <2>4, <2>5, Cases
<1>2. ASSUME Restart
      PROVE  Promise!Close(Requests)
  <2>1. Forget(Requests)
    BY <1>2 DEF Restart
  <2>. QED
    BY <2>1, ForgetClose
<1>3. ASSUME UNCHANGED vars
      PROVE  UNCHANGED Promise!promiseVars
  BY <1>3 DEF vars, handlerVars, historyVars, Promise!promiseVars, Open
<1>. QED
  BY <1>1, <1>2, <1>3 DEF Next, Promise!PromiseNext

\* TaskStore implements TaskPromise: a request has at most one effect, on one object of
\* its folder; what it is told and shown was true while it was open, or a call has
\* failed; added tasks take places that were free (every handler of task_handler.go and
\* broadcast_handler.go).
THEOREM TaskStoreKeepsPromise == Spec => ImplementsPromise
<1>1. Init => Promise!PromiseInit
  BY DEF Init, Promise!PromiseInit, Open, Promise!Objects, Objects
<1>2. IInv /\ [Next]_vars => IInv'
  BY NextIInv
<1>3. IInv /\ [Next]_vars => [Promise!PromiseNext]_Promise!promiseVars
  BY NextPromise
<1>. QED
  BY InitIInv, <1>1, <1>2, <1>3, PTL DEF Spec, ImplementsPromise, Promise!PromiseSpec

-----------------------------------------------------------------------------
(* Requests go on.  What stands behind RequestAnswered: no step of a handler *)
(* leaves it where it was, save that of a name that is in use.             *)

\* How far the handler at a place has got; an object listed is read by a step at "read".
Rank(place) ==
  CASE place = "choose" -> 0
    [] place = "check" -> 1
    [] place = "stat" -> 2
    [] place \in {"put", "create", "remove", "list", "get"} -> 3
    [] place = "read" -> 4
    [] place \in {"done", "made", "absent", "failed"} -> 5
    [] OTHER -> 6

Still(r) == pc'[r] = pc[r] /\ names'[r] = names[r]

Onward(r) ==
  \/ Rank(pc[r]) < Rank(pc'[r])
  \/ pc[r] = "read" /\ pc'[r] = "read" /\ \E u \in names[r] : names'[r] = names[r] \ {u}

\* The name drawn is in use, or whether it is could not be found out.
Again(r) ==
  /\ pc[r] = "check"
  /\ pc'[r] = "choose"
  /\ store[filePath(r)] # Nothing \/ r \in trouble'

LEMMA Ranks ==
  /\ Rank("choose") = 0 /\ Rank("check") = 1 /\ Rank("stat") = 2
  /\ Rank("put") = 3 /\ Rank("create") = 3 /\ Rank("remove") = 3
  /\ Rank("list") = 3 /\ Rank("get") = 3
  /\ Rank("read") = 4
  /\ Rank("done") = 5 /\ Rank("made") = 5 /\ Rank("absent") = 5 /\ Rank("failed") = 5
  /\ Rank("free") = 6
BY DEF Rank

LEMMA GoneFrom ==
  ASSUME TypeOK, NEW r \in Requests, NEW place, GoTo(r, place)
  PROVE  pc'[r] = place /\ \A p \in Requests \ {r} : pc'[p] = pc[p]
BY DEF GoTo, TypeOK

LEMMA ForgetFrom ==
  ASSUME NEW R \in SUBSET Requests, Forget(R)
  PROVE  /\ \A r \in R : pc'[r] = "free"
         /\ \A p \in Requests \ R : Still(p) /\ req'[p] = req[p] /\ uuid'[p] = uuid[p]
         /\ store' = store
BY DEF Forget, Still

LEMMA LooksOn ==
  ASSUME TypeOK, NEW r \in Requests, Looks(r)
  PROVE  /\ Onward(r) \/ Again(r)
         /\ pc[r] = "check" /\ pc'[r] = "choose" /\ store[filePath(r)] = Nothing => CallFails(r)
<1>1. CASE CallFails(r)
  <2>1. CASE pc[r] = "check" /\ GoTo(r, "choose")
    BY <1>1, <2>1, GoneFrom DEF CallFails, Again
  <2>2. CASE pc[r] = "stat" /\ GoTo(r, "absent")
    BY <1>1, <2>2, GoneFrom, Ranks DEF Onward
  <2>3. CASE pc[r] \in {"put", "create", "remove", "get"} /\ GoTo(r, "failed")
    BY <1>1, <2>3, GoneFrom, Ranks DEF Onward
  <2>4. CASE pc[r] = "list" /\ GoTo(r, "read")
    BY <1>1, <2>4, GoneFrom, Ranks DEF Onward
  <2>. QED
    BY <1>1, <2>1, <2>2, <2>3, <2>4 DEF CallFails
<1>2. CASE ChooseUuid(r)
  <2>1. pc[r] = "choose" /\ pc'[r] = "check"
    BY <1>2, GoneFrom DEF ChooseUuid
  <2>. QED
    BY <2>1, Ranks DEF Onward
<1>3. CASE CheckFileExists(r)
  <2>1. CASE store[filePath(r)] = Nothing
    <3>1. pc[r] = "check" /\ pc'[r] = "put"
      BY <1>3, <2>1, GoneFrom DEF CheckFileExists
    <3>. QED
      BY <3>1, Ranks DEF Onward
  <2>2. CASE store[filePath(r)] # Nothing
    <3>1. pc[r] = "check" /\ pc'[r] = "choose"
      BY <1>3, <2>2, GoneFrom DEF CheckFileExists
    <3>. QED
      BY <2>2, <3>1 DEF Again
  <2>. QED
    BY <2>1, <2>2
<1>4. CASE StatTask(r) \/ StatScene(r)
  <2>1. pc[r] = "stat" /\ pc'[r] \in {"absent", "create", "put"}
    BY <1>4, GoneFrom DEF StatTask, StatScene
  <2>. QED
    BY <2>1, Ranks DEF Onward
<1>5. CASE ListObjects(r)
  <2>1. pc[r] = "list" /\ pc'[r] = "read"
    BY <1>5, GoneFrom DEF ListObjects
  <2>. QED
    BY <2>1, Ranks DEF Onward
<1>6. ASSUME NEW u \in Uuids, ReadTask(r, u) \/ ReadFails(r, u)
      PROVE  Onward(r) /\ pc[r] = "read"
  BY <1>6 DEF ReadTask, ReadFails, Onward, TypeOK
<1>. QED
  BY <1>1, <1>2, <1>3, <1>4, <1>5, <1>6 DEF Looks

LEMMA LooksAlone ==
  ASSUME Inv, NEW r \in Requests, Looks(r), NEW p \in Requests \ {r}
  PROVE  Still(p)
BY LookFacts DEF Moves, Still, Inv, TypeOK

LEMMA ChangesOn ==
  ASSUME Inv, NEW r \in Requests, Changes(r)
  PROVE  Onward(r) /\ \A p \in Requests \ {r} : Still(p)
<1>1. PICK o \in Objects \cup {Nothing}, place \in Places(req[r].op) :
        /\ Alters(r, o, place)
        /\ place \in {"failed", IF pc[r] = "create" THEN "made" ELSE "done"}
        /\ pc[r] \in {"put", "create", "remove"}
  BY ChangeFacts
<1>2. pc'[r] = place /\ \A p \in Requests \ {r} : Still(p)
  BY <1>1 DEF Alters, Still, Inv, TypeOK
<1>3. place \in {"failed", "made", "done"}
  BY <1>1
<1>. QED
  BY <1>1, <1>2, <1>3, Ranks DEF Onward

LEMMA TellsOn ==
  ASSUME Inv, NEW r \in Requests, Tells(r)
  PROVE  Onward(r) /\ \A p \in Requests \ {r} : Still(p)
<1>1. PICK says, shows : Says(r, says, shows)
  BY TellFacts
<1>2. Forget({r})
  BY <1>1 DEF Says, Answers
<1>3. pc'[r] = "free" /\ \A p \in Requests \ {r} : Still(p)
  BY <1>2, ForgetFrom
<1>4. Rank(pc[r]) < 6
  BY TellFacts, Ranks
<1>. QED
  BY <1>3, <1>4, Ranks DEF Onward

LEMMA HandlerOn ==
  ASSUME Inv, NEW r \in Requests, Handler(r)
  PROVE  /\ Open(r) => Onward(r) \/ Again(r)
         /\ \A p \in Requests \ {r} : Still(p)
<1>1. CASE Refuse(r)
  BY <1>1, ForgetFrom DEF Refuse, Answers
<1>2. CASE Enters(r)
  BY <1>2, EnterFacts DEF Begins, Still, Inv, TypeOK
<1>3. CASE Looks(r)
  BY <1>3, LooksOn, LooksAlone DEF Inv
<1>4. CASE Changes(r)
  BY <1>4, ChangesOn
<1>5. CASE Tells(r)
  BY <1>5, TellsOn
<1>. QED
  BY <1>1, <1>2, <1>3, <1>4, <1>5, Cases

LEMMA RestartOn ==
  ASSUME Inv, Restart, NEW r \in Requests, Open(r)
  PROVE  Onward(r)
<1>1. pc'[r] = "free"
  BY ForgetFrom DEF Restart
<1>2. pc[r] \in {"choose", "check", "stat", "put", "create", "remove",
                 "list", "read", "get", "done", "made", "absent", "failed"}
  BY DEF Inv, TypeOK, Open
<1>3. Rank(pc[r]) < 6
  BY <1>2, Ranks
<1>. QED
  BY <1>1, <1>3, Ranks DEF Onward

\* A request that is open stays where it is or comes nearer to its end, whatever other
\* connections do; it goes back only when a name was in use or could not be looked up,
\* in the loops of addTaskHandler and copyTaskHandler, and in no other handler.
RequestsAdvance ==
  \A r \in Requests : Open(r) => Still(r) \/ Onward(r) \/ Again(r)

THEOREM RequestsGoOn == Spec => [][RequestsAdvance]_vars
<1>1. Inv /\ Next => RequestsAdvance
  <2> SUFFICES ASSUME Inv, Next, NEW r \in Requests, Open(r)
               PROVE  Still(r) \/ Onward(r) \/ Again(r)
    BY DEF RequestsAdvance
  <2>1. ASSUME NEW q \in Requests, Handler(q)
        PROVE  Still(r) \/ Onward(r) \/ Again(r)
    BY <2>1, HandlerOn
  <2>2. CASE Restart
    BY <2>2, RestartOn
  <2>. QED
    BY <2>1, <2>2 DEF Next
<1>2. Inv /\ [Next]_vars => Inv'
  BY NextInv
<1>. QED
  BY InitInv, <1>1, <1>2, PTL DEF Spec

-----------------------------------------------------------------------------
(* The loops end if nothing disturbs them.  A name that was unused when it   *)
(* was drawn is still unused when it is looked up.                          *)

\* Handlers that may be about to put an object.
Claims(q) == pc[q] \in {"check", "put", "create"}

Fresh(r) ==
  pc[r] = "check" =>
    /\ store[filePath(r)] = Nothing
    /\ \A q \in Requests \ {r} : Claims(q) => filePath(q) # filePath(r)

LInv == Inv /\ \A r \in Requests : Fresh(r)

LEMMA LooksClaim ==
  ASSUME TypeOK, NEW a \in Requests, Looks(a), ~CallFails(a), Claims(a)'
  PROVE  \/ pc[a] = "choose" /\ pc'[a] = "check"
         \/ pc[a] = "check" /\ pc'[a] = "put" /\ uuid' = uuid
         \/ pc[a] = "stat" /\ pc'[a] = "put" /\ uuid' = uuid /\ store[filePath(a)] # Nothing
         \/ pc[a] = "stat" /\ pc'[a] = "create" /\ req[a].op = "save"
<1>1. CASE ChooseUuid(a)
  BY <1>1, GoneFrom DEF ChooseUuid
<1>2. CASE CheckFileExists(a)
  <2>1. pc[a] = "check" /\ uuid' = uuid
    BY <1>2 DEF CheckFileExists
  <2>2. CASE store[filePath(a)] = Nothing
    BY <1>2, <2>1, <2>2, GoneFrom DEF CheckFileExists
  <2>3. CASE store[filePath(a)] # Nothing
    BY <1>2, <2>3, GoneFrom DEF CheckFileExists, Claims
  <2>. QED
    BY <2>2, <2>3
<1>3. CASE StatTask(a)
  <2>1. pc[a] = "stat" /\ uuid' = uuid
    BY <1>3 DEF StatTask
  <2>2. CASE store[filePath(a)] = Nothing
    BY <1>3, <2>2, GoneFrom DEF StatTask, Claims
  <2>3. CASE store[filePath(a)] # Nothing
    BY <1>3, <2>1, <2>3, GoneFrom DEF StatTask
  <2>. QED
    BY <2>2, <2>3
<1>4. CASE Serves(a, "save") /\ StatScene(a)
  <2>1. pc[a] = "stat" /\ uuid' = uuid /\ req[a].op = "save"
    BY <1>4 DEF StatScene, Serves
  <2>2. CASE store[filePath(a)] = Nothing
    BY <1>4, <2>1, <2>2, GoneFrom DEF StatScene
  <2>3. CASE store[filePath(a)] # Nothing
    BY <1>4, <2>1, <2>3, GoneFrom DEF StatScene
  <2>. QED
    BY <2>2, <2>3
<1>5. CASE ListObjects(a)
  BY <1>5, GoneFrom DEF ListObjects, Claims
<1>6. ASSUME NEW u \in Uuids, ReadTask(a, u) \/ ReadFails(a, u)
      PROVE  FALSE
  BY <1>6 DEF ReadTask, ReadFails, Claims
<1>. QED
  BY <1>1, <1>2, <1>3, <1>4, <1>5, <1>6 DEF Looks

\* A step after which no other handler claims what it did not claim before, and which
\* does not put an object that another claims.
LEMMA FreshKept ==
  ASSUME NEW r \in Requests, Fresh(r), pc'[r] = pc[r], req'[r] = req[r], uuid'[r] = uuid[r],
         pc[r] = "check" => store'[filePath(r)] = store[filePath(r)] \/ store'[filePath(r)] = Nothing,
         \A q \in Requests \ {r} : Claims(q)' =>
           \/ Claims(q) /\ req'[q] = req[q] /\ uuid'[q] = uuid[q]
           \/ pc[r] = "check" => filePath(q)' # filePath(r)
  PROVE  Fresh(r)'
<1> SUFFICES ASSUME pc[r] = "check"
             PROVE  /\ store'[filePath(r)'] = Nothing
                    /\ \A q \in Requests \ {r} : Claims(q)' => filePath(q)' # filePath(r)'
  BY DEF Fresh
<1>1. filePath(r)' = filePath(r)
  BY DEF filePath
<1>2. store'[filePath(r)'] = Nothing
  BY <1>1 DEF Fresh
<1>3. ASSUME NEW q \in Requests \ {r}, Claims(q)'
      PROVE  filePath(q)' # filePath(r)
  <2>1. CASE Claims(q) /\ req'[q] = req[q] /\ uuid'[q] = uuid[q]
    <3>1. filePath(q)' = filePath(q)
      BY <2>1 DEF filePath
    <3>. QED
      BY <2>1, <3>1 DEF Fresh
  <2>. QED
    BY <1>3, <2>1
<1>. QED
  BY <1>1, <1>2, <1>3

LEMMA FolderOf ==
  ASSUME Inv, NEW r \in Requests, Open(r)
  PROVE  /\ req[r].op = "add" => req[r].folder \in TaskFolders
         /\ req[r].op = "save" => req[r].folder \in SceneFolders
<1>1. req[r] \in Queries
  BY DEF Inv, Placed
<1>. QED
  BY <1>1 DEF Queries

LEMMA LooksFresh ==
  ASSUME LInv, TaskFolders \cap SceneFolders = {}, NEW a \in Requests, Looks(a), Undisturbed(a),
         NEW r \in Requests
  PROVE  Fresh(r)'
<1>1. PICK place \in Places(req[a].op), u \in Uuids \cup {Nothing},
           N \in SUBSET Uuids, F \in SUBSET (Uuids \X Objects) : Moves(a, place, u, N, F)
  BY LookFacts DEF LInv
<1>2. /\ store' = store /\ req' = req
      /\ \A p \in Requests \ {a} : pc'[p] = pc[p] /\ uuid'[p] = uuid[p]
  BY <1>1 DEF Moves, LInv, Inv, TypeOK
<1>3. TypeOK /\ ~CallFails(a)
  BY DEF LInv, Inv, Undisturbed
<1>4. CASE r = a
  <2> SUFFICES ASSUME pc'[a] = "check" PROVE Fresh(a)'
    BY <1>4 DEF Fresh
  <2>1. pc[a] = "choose"
    BY <1>3, LooksClaim DEF Claims
  <2>2. store[<<req[a].folder, uuid'[a]>>] = Nothing /\ \A q \in Requests : uuid[q] # uuid'[a]
    BY <2>1 DEF Undisturbed
  <2>3. filePath(a)' = <<req[a].folder, uuid'[a]>>
    BY <1>2 DEF filePath
  <2>4. \A q \in Requests \ {a} : filePath(q)' # filePath(a)'
    BY <1>2, <2>2 DEF filePath
  <2>. QED
    BY <1>2, <2>2, <2>3, <2>4 DEF Fresh
<1>5. CASE r # a
  <2>1. pc'[r] = pc[r] /\ req'[r] = req[r] /\ uuid'[r] = uuid[r]
    BY <1>2, <1>5
  <2>2. ASSUME Claims(a)', pc[r] = "check"
        PROVE  \/ Claims(a) /\ req'[a] = req[a] /\ uuid'[a] = uuid[a]
               \/ filePath(a)' # filePath(r)
    <3>1. CASE pc[a] = "choose" /\ pc'[a] = "check"
      <4>1. uuid[r] # uuid'[a]
        BY <3>1 DEF Undisturbed
      <4>. QED
        BY <4>1 DEF filePath
    <3>2. CASE pc[a] = "check" /\ pc'[a] = "put" /\ uuid' = uuid
      BY <1>2, <3>2 DEF Claims
    <3>3. CASE pc[a] = "stat" /\ uuid' = uuid /\ store[filePath(a)] # Nothing
      <4>1. filePath(a)' = filePath(a)
        BY <1>2, <3>3 DEF filePath
      <4>. QED
        BY <2>2, <3>3, <4>1 DEF LInv, Fresh
    <3>4. CASE pc[a] = "stat" /\ req[a].op = "save"
      <4>1. Open(a) /\ Open(r) /\ Placed(r)
        BY <2>2, <3>4 DEF Open, LInv, Inv
      <4>2. req[r].op = "add"
        BY <2>2, <4>1, PlaceFacts
      <4>3. req[a].folder \in SceneFolders /\ req[r].folder \in TaskFolders
        BY <3>4, <4>1, <4>2, FolderOf DEF LInv
      <4>4. req'[a].folder # req[r].folder
        BY <1>2, <4>3
      <4>. QED
        BY <4>4 DEF filePath
    <3>. QED
      BY <1>3, <2>2, <3>1, <3>2, <3>3, <3>4, LooksClaim
  <2>3. \A q \in Requests \ {r} : Claims(q)' =>
           \/ Claims(q) /\ req'[q] = req[q] /\ uuid'[q] = uuid[q]
           \/ pc[r] = "check" => filePath(q)' # filePath(r)
    BY <1>2, <2>2 DEF Claims
  <2>4. store'[filePath(r)] = store[filePath(r)] /\ Fresh(r)
    BY <1>2 DEF LInv
  <2>. QED
    BY <2>1, <2>3, <2>4, FreshKept
<1>. QED
  BY <1>4, <1>5

LEMMA ChangesFresh ==
  ASSUME LInv, NEW a \in Requests, Changes(a), NEW r \in Requests
  PROVE  Fresh(r)'
<1>1. PICK o \in Objects \cup {Nothing}, place \in Places(req[a].op) :
        /\ Alters(a, o, place)
        /\ place \in {"failed", IF pc[a] = "create" THEN "made" ELSE "done"}
        /\ IF req[a].op = "delete" THEN o = Nothing /\ pc[a] = "remove"
                                   ELSE o = newTask(a) /\ pc[a] \in {"put", "create"}
  BY ChangeFacts DEF LInv
<1>2. TypeOK
  BY DEF LInv, Inv
<1>3. /\ pc'[a] = place /\ place \in {"failed", "made", "done"}
      /\ \A p \in Requests \ {a} : pc'[p] = pc[p]
      /\ uuid' = uuid /\ req' = req
  BY <1>1, <1>2 DEF Alters, TypeOK
<1>4. CASE r = a
  BY <1>3, <1>4 DEF Fresh
<1>5. CASE r # a
  <2>1. ASSUME pc[r] = "check"
        PROVE  store'[filePath(r)] = store[filePath(r)] \/ store'[filePath(r)] = Nothing
    <3>1. CASE o = Nothing
      BY <1>1, <1>2, <3>1 DEF Alters, TypeOK
    <3>2. CASE o # Nothing
      <4>1. Claims(a)
        BY <1>1, <3>2 DEF Claims
      <4>2. filePath(a) # filePath(r)
        BY <1>5, <2>1, <4>1 DEF LInv, Fresh
      <4>3. filePath(r) \in Folders \X Uuids
        <5>1. Open(r)
          BY <2>1 DEF Open
        <5>2. req[r] \in Queries /\ uuid[r] \in Uuids
          BY <1>2, <2>1, <5>1 DEF TypeOK
        <5>. QED
          BY <5>2, QueryFacts DEF filePath
      <4>. QED
        BY <1>1, <1>2, <4>2, <4>3 DEF Alters, TypeOK
    <3>. QED
      BY <3>1, <3>2
  <2>2. \A q \in Requests \ {r} : Claims(q)' => Claims(q) /\ req'[q] = req[q] /\ uuid'[q] = uuid[q]
    BY <1>3 DEF Claims
  <2>3. pc'[r] = pc[r] /\ req'[r] = req[r] /\ uuid'[r] = uuid[r] /\ Fresh(r)
    BY <1>3, <1>5 DEF LInv
  <2>. QED
    BY <2>1, <2>2, <2>3, FreshKept
<1>. QED
  BY <1>4, <1>5

LEMMA ForgetFresh ==
  ASSUME LInv, NEW R \in SUBSET Requests, Forget(R), NEW r \in Requests
  PROVE  Fresh(r)'
<1>1. CASE r \in R
  BY <1>1, ForgetFrom DEF Fresh
<1>2. CASE r \notin R
  <2>1. /\ \A q \in R : pc'[q] = "free"
        /\ \A p \in Requests \ R : pc'[p] = pc[p] /\ req'[p] = req[p] /\ uuid'[p] = uuid[p]
        /\ store' = store
    BY ForgetFrom DEF Still
  <2>2. \A q \in Requests \ {r} : Claims(q)' => Claims(q) /\ req'[q] = req[q] /\ uuid'[q] = uuid[q]
    BY <2>1 DEF Claims
  <2>. QED
    BY <1>2, <2>1, <2>2, FreshKept DEF LInv
<1>. QED
  BY <1>1, <1>2

LEMMA BeginsFresh ==
  ASSUME LInv, NEW a \in Requests, NEW q \in Queries, Begins(a, q), NEW r \in Requests
  PROVE  Fresh(r)'
<1>1. /\ pc'[a] = First(q.op) /\ store' = store
      /\ \A p \in Requests \ {a} : pc'[p] = pc[p] /\ req'[p] = req[p] /\ uuid'[p] = uuid[p]
  BY DEF Begins, LInv, Inv, TypeOK
<1>2. ~Claims(a)'
  BY <1>1, QueryFacts DEF First, Claims
<1>3. CASE r = a
  BY <1>2, <1>3 DEF Fresh, Claims
<1>4. CASE r # a
  <2>1. \A p \in Requests \ {r} : Claims(p)' => Claims(p) /\ req'[p] = req[p] /\ uuid'[p] = uuid[p]
    BY <1>1, <1>2 DEF Claims
  <2>. QED
    BY <1>1, <1>4, <2>1, FreshKept DEF LInv
<1>. QED
  BY <1>3, <1>4

LEMMA NextLInv ==
  ASSUME LInv, TaskFolders \cap SceneFolders = {}, [Next]_vars,
         [\A r \in Requests : Undisturbed(r)]_vars
  PROVE  LInv'
<1>1. Inv'
  BY NextInv DEF LInv
<1>2. CASE UNCHANGED vars
  <2>1. UNCHANGED <<store, pc, req, uuid>>
    BY <1>2 DEF vars, handlerVars
  <2>. QED
    BY <1>1, <2>1 DEF LInv, Fresh, Claims, filePath
<1>3. CASE Next /\ \A r \in Requests : Undisturbed(r)
  <2> SUFFICES ASSUME NEW r \in Requests PROVE Fresh(r)'
    BY <1>1 DEF LInv
  <2>1. ASSUME NEW a \in Requests, Handler(a)
        PROVE  Fresh(r)'
    <3>1. CASE Refuse(a)
      BY <3>1, ForgetFresh DEF Refuse, Answers
    <3>2. CASE Enters(a)
      BY <3>2, EnterFacts, BeginsFresh
    <3>3. CASE Looks(a)
      BY <1>3, <3>3, LooksFresh
    <3>4. CASE Changes(a)
      BY <3>4, ChangesFresh
    <3>5. CASE Tells(a)
      <4>1. PICK says, shows : Says(a, says, shows)
        BY <3>5, TellFacts DEF LInv
      <4>. QED
        BY <4>1, ForgetFresh DEF Says, Answers
    <3>. QED
      BY <2>1, <3>1, <3>2, <3>3, <3>4, <3>5, Cases
  <2>2. CASE Restart
    BY <2>2, ForgetFresh DEF Restart
  <2>. QED
    BY <1>3, <2>1, <2>2 DEF Next
<1>. QED
  BY <1>2, <1>3

\* A name that is unused and not asked for when it is drawn is still unused when the
\* handler looks it up, and so, while no call fails, nothing ever sends a request back:
\* the loops of addTaskHandler and copyTaskHandler look up one name each.  Undisturbed
\* is the hypothesis of RequestAnswered.  No folder holds both tasks and scenes.
AlwaysOnward == \A r \in Requests : Open(r) => Still(r) \/ Onward(r)

THEOREM UndisturbedGoOn ==
  ASSUME TaskFolders \cap SceneFolders = {}
  PROVE  Spec /\ [][\A r \in Requests : Undisturbed(r)]_vars => [][AlwaysOnward]_vars
<1> DEFINE U == \A r \in Requests : Undisturbed(r)
<1>1. Init => LInv
  <2>1. Init => \A r \in Requests : Fresh(r)
    BY DEF Init, Fresh
  <2>. QED
    BY <2>1, InitInv DEF LInv
<1>2. LInv /\ [Next]_vars /\ [U]_vars => LInv'
  BY NextLInv
<1>3. LInv /\ [Next]_vars /\ [U]_vars => [AlwaysOnward]_vars
  <2> SUFFICES ASSUME LInv, Next, U, NEW r \in Requests, Open(r)
               PROVE  Still(r) \/ Onward(r)
    BY DEF AlwaysOnward
  <2>1. ASSUME NEW a \in Requests, Handler(a)
        PROVE  Still(r) \/ Onward(r)
    <3>1. CASE a # r
      BY <2>1, <3>1, HandlerOn DEF LInv
    <3>2. CASE a = r
      <4>1. ~Again(r)
        <5>1. ASSUME Again(r) PROVE FALSE
          <6>1. pc[r] = "check" /\ pc'[r] = "choose" /\ store[filePath(r)] = Nothing
            BY <5>1 DEF Again, LInv, Fresh
          <6>2. Looks(r)
            <7>1. CASE Refuse(r)
              BY <7>1 DEF Refuse
            <7>2. CASE Enters(r)
              BY <7>2, EnterFacts DEF Begins
            <7>3. CASE Changes(r)
              BY <6>1, <7>3 DEF Changes, PutObject, RemoveObject
            <7>4. CASE Tells(r)
              BY <6>1, <7>4, TellFacts DEF LInv
            <7>. QED
              BY <2>1, <3>2, <7>1, <7>2, <7>3, <7>4, Cases
          <6>3. CallFails(r)
            BY <6>1, <6>2, LooksOn DEF LInv, Inv
          <6>. QED
            BY <6>3 DEF Undisturbed
        <5>. QED
          BY <5>1
      <4>. QED
        BY <2>1, <3>2, <4>1, HandlerOn DEF LInv
    <3>. QED
      BY <3>1, <3>2
  <2>2. CASE Restart
    BY <2>2, RestartOn DEF LInv
  <2>. QED
    BY <2>1, <2>2 DEF Next
<1> HIDE DEF U
<1>4. Spec /\ [][U]_vars => [][AlwaysOnward]_vars
  BY <1>1, <1>2, <1>3, PTL DEF Spec
<1>. QED
  BY <1>4 DEF U
=============================================================================
