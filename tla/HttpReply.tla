------------------------------ MODULE HttpReply ------------------------------
(***************************************************************************)
(* The connections of the HTTP server, and an answer as http.ResponseWriter *)
(* makes it: the first status written is the one that is sent, whatever is  *)
(* written later.                                                          *)
(***************************************************************************)
CONSTANTS
  Requests,  \* the connections, each with one request at a time
  Asks       \* what each of them may ask for

\* Nothing is written yet.
Silence == [status |-> 0, says |-> "nothing", shows |-> {}]

\* w.WriteHeader: later calls change nothing.
WriteHeader(w, code) == IF w.status = 0 THEN [w EXCEPT !.status = code] ELSE w

\* A body, with the status 200 if none was written.
Body(w, text, things) ==
  [status |-> WriteHeader(w, 200).status, says |-> text, shows |-> things]

\* http.Error
Error(w, text, code) == Body(WriteHeader(w, code), text, {})

\* A handler panics: nothing it has written has left the buffer, and the connection
\* is closed without an answer.
Aborted == [status |-> 0, says |-> "aborted", shows |-> {}]

\* The answer to a browser's preflight request.
handlePreflight == Body(WriteHeader(Silence, 204), "refused", {})

\* The answer to a method or a body that a handler does not take, after the status
\* it has begun with.
Refused == Error(WriteHeader(Silence, 200), "refused", 405)
=============================================================================
