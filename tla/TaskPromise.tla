----------------------------- MODULE TaskPromise -----------------------------
(***************************************************************************)
(* What the handlers of tasks and console scenes promise, without their     *)
(* steps, the calls of MinIO and what they keep in between: a request takes *)
(* effect at most once, all at once, on one object of its own folder; and   *)
(* what its answer says was true at some time while the request was open.   *)
(* TaskStore implements this specification.                                 *)
(***************************************************************************)
CONSTANTS
  Requests,  \* the connections, each with one HTTP request at a time
  Folders,   \* the prefixes objects are stored under
  Uuids,     \* the uuids of tasks and scenes
  Nothing    \* no object

VARIABLES
  store,   \* the object of each folder and uuid
  stage,   \* "free" or "open"
  req,     \* what each request asks for
  seen,    \* what there was that concerns it since it is open
  took,    \* the uuid and the object of its effect
  trouble, \* the requests that a call of MinIO has failed
  answer   \* the status of the answer, what it says and what it shows

promiseVars == <<store, stage, req, seen, took, trouble, answer>>

\* A task or scene: the uuid it bears, and the connection its body came by.
Objects == [uuid : Uuids, from : Requests]
Entries == Uuids \X (Objects \cup {Nothing})

PromiseInit ==
  /\ store \in [Folders \X Uuids -> Objects \cup {Nothing}]
  /\ stage = [r \in Requests |-> "free"]
  /\ trouble = {}

\* What could be found in its folder that makes a difference to query q.
Scope(q) ==
  CASE q.op = "list" -> Entries
    [] q.op \in {"get", "update"} -> {q.uuid} \X (Objects \cup {Nothing})
    [] q.op = "add" -> Uuids \X {Nothing}
    [] q.op = "save" -> {<<q.uuid, Nothing>>}
    [] OTHER -> {}

Ask(r) ==
  /\ stage[r] = "free"
  /\ stage' = [stage EXCEPT ![r] = "open"]
  /\ req' = [req EXCEPT ![r] = req'[r]]
  /\ seen' = [seen EXCEPT ![r] = 
       {<<u, store[<<req'[r].folder, u>>]>> : u \in Uuids} \cap Scope(req'[r])]
  /\ took' = [took EXCEPT ![r] = Nothing]
  /\ answer' = [answer EXCEPT ![r] = answer'[r]]
  /\ UNCHANGED <<store, trouble>>

\* The requests of R are over, and all that belongs to them is forgotten.
Close(R) ==
  /\ stage' = [r \in Requests |-> IF r \in R THEN "free" ELSE stage[r]]
  /\ trouble' = trouble \ R
  /\ \A r \in Requests \ R :
       req'[r] = req[r] /\ seen'[r] = seen[r] /\ took'[r] = took[r] /\ answer'[r] = answer[r]
  /\ UNCHANGED store

\* A preflight request, or one that the handler refuses, leaves everything alone.
Refuse(r) ==
  /\ stage[r] = "free"
  /\ answer'[r].says = "refused"
  /\ answer'[r].status \in {200, 204}
  /\ Close({r})

\* What request r may do to the object of uuid u: an added task takes a place that
\* was free, an update one that was not.
May(r, u, o) ==
  LET free == <<u, Nothing>> \in seen[r]
      held == \E p \in seen[r] : p[1] = u /\ p[2] # Nothing
      mine == o = [uuid |-> u, from |-> r]
  IN  CASE req[r].op = "add" -> mine /\ free
        [] req[r].op = "update" -> mine /\ u = req[r].uuid /\ held
        [] req[r].op = "save" -> mine /\ u = req[r].uuid
        [] req[r].op = "delete" -> o = Nothing /\ u = req[r].uuid
        [] OTHER -> FALSE

\* All open requests that it concerns see it.  The call may fail all the same.
TakeEffect(r) ==
  /\ stage[r] = "open"
  /\ took[r] = Nothing
  /\ \E u \in Uuids, o \in Objects \cup {Nothing} :
       /\ May(r, u, o)
       /\ store' = [store EXCEPT ![<<req[r].folder, u>>] = o]
       /\ took' = [took EXCEPT ![r] = <<u, o>>]
       /\ seen' = [q \in Requests |->
            IF stage[q] = "open" /\ req[q].folder = req[r].folder
            THEN seen[q] \cup ({<<u, o>>} \cap Scope(req[q])) ELSE seen[q]]
  /\ trouble' \in {trouble, trouble \cup {r}}
  /\ UNCHANGED <<stage, req, answer>>

\* A call fails, without effect.
Fail(r) ==
  /\ stage[r] = "open"
  /\ trouble' = trouble \cup {r}
  /\ UNCHANGED <<store, stage, req, seen, took, answer>>

\* What request r may be told, and shown.
Honest(r, says, shows) ==
  LET u == req[r].uuid
      gone == <<u, Nothing>> \in seen[r]
  IN  CASE says \in {"added", "updated"} -> took[r] # Nothing /\ shows = {took[r]}
        [] says = "created" -> took[r] # Nothing /\ shows = {took[r]} /\ gone
        [] says = "deleted" -> took[r] = <<u, Nothing>> /\ shows = {}
        [] says = "missing" -> took[r] = Nothing /\ shows = {} /\ (gone \/ r \in trouble)
        [] says = "failed" -> shows = {} /\ (r \in trouble \/ (req[r].op = "get" /\ gone))
        [] says = "got" ->
             /\ shows \subseteq seen[r]
             /\ \E o \in Objects : shows = {<<u, o>>}
        [] says = "listed" ->
             /\ shows \subseteq seen[r]
             /\ \A p \in shows : p[2] # Nothing
             /\ \A p, q \in shows : p[1] = q[1] => p = q
             /\ r \notin trouble =>
                  \A v \in Uuids : <<v, Nothing>> \in seen[r] \/ \E p \in shows : p[1] = v
        [] OTHER -> FALSE

\* Whatever has happened, the status is that of success.
Tell(r) ==
  /\ stage[r] = "open"
  /\ answer'[r].status = 200
  /\ Honest(r, answer'[r].says, answer'[r].shows)
  /\ Close({r})

PromiseNext ==
  \/ \E r \in Requests : Ask(r) \/ Refuse(r) \/ TakeEffect(r) \/ Fail(r) \/ Tell(r)
  \/ Close(Requests) \* the process ends and is started again

PromiseSpec == PromiseInit /\ [][PromiseNext]_promiseVars
=============================================================================
