------------------------------ MODULE HTTPServer ------------------------------
(* src/06_networking/02_http_server: requests through the logging and         *)
(* authentication middleware to their handlers, and main's shutdown, which    *)
(* waits for the busy connections or for its timeout.                         *)
CONSTANT Requests

Inputs == [path : {"/health", "/api/users", "/api/admin"},
           get : BOOLEAN,    \* the method is GET
           key : BOOLEAN]    \* there is an X-API-Key

NoInput == [path |-> "none", get |-> FALSE, key |-> FALSE]

VARIABLES
    input,      \* what a request asks for
    stage,      \* "none", "entered" (its first line is logged), "handler",
                \* "answered", "completed" (its second line is logged)
    status,     \* the status written, 0 when none
    process     \* "serving", "shutting", "graceful", "forced", "failed"

vars == <<input, stage, status, process>>

Init == /\ input = [r \in Requests |-> NoInput]
        /\ stage = [r \in Requests |-> "none"]
        /\ status = [r \in Requests |-> 0]
        /\ process = "serving"

Exited == process \notin {"serving", "shutting"}

Busy == {r \in Requests : stage[r] \notin {"none", "completed"}}

Goes(r, from, to) == /\ ~Exited /\ stage[r] = from
                     /\ stage' = [stage EXCEPT ![r] = to]
                     /\ UNCHANGED process

(* loggingMiddleware: a line, next, and a line when that returns.             *)
Enter(r, i) == /\ process = "serving"
               /\ Goes(r, "none", "entered")
               /\ input' = [input EXCEPT ![r] = i]
               /\ UNCHANGED status

Complete(r) == Goes(r, "answered", "completed") /\ UNCHANGED <<input, status>>

(* An error of Encode comes after the status and is only logged.              *)
WriteJSON(r, from, code) == /\ Goes(r, from, "answered")
                            /\ status' = [status EXCEPT ![r] = code]
                            /\ UNCHANGED input

(* authMiddleware, around the admin route only.                               *)
Auth(r) == LET stopped == input[r].path = "/api/admin" /\ ~input[r].key
           IN \/ stopped /\ WriteJSON(r, "entered", 401)
              \/ /\ ~stopped /\ Goes(r, "entered", "handler")
                 /\ UNCHANGED <<input, status>>

(* handleHealth, handleUsers and handleProtected.                             *)
Handle(r) == LET refused == input[r].path = "/api/users" /\ ~input[r].get
             IN WriteJSON(r, "handler", IF refused THEN 405 ELSE 200)

Ends(from, how) == /\ process = from /\ process' = how
                   /\ UNCHANGED <<input, stage, status>>

Signal == Ends("serving", "shutting")

(* server.Shutdown: no connection is busy, or the 10 seconds are over.        *)
Shutdown == (Busy = {} /\ Ends("shutting", "graceful")) \/ Ends("shutting", "forced")

(* ListenAndServe fails for another reason than Shutdown, and log.Fatalf.     *)
ListenFails == Ends("serving", "failed")

Next == \/ \E r \in Requests : \/ \E i \in Inputs : Enter(r, i)
                               \/ Auth(r) \/ Handle(r) \/ Complete(r)
        \/ Signal \/ Shutdown \/ ListenFails

Spec == Init /\ [][Next]_vars
-----------------------------------------------------------------------------
(* A server that "stopped gracefully" has answered all it took in, logged to  *)
(* the end; whatever the end was, no request without a key came through to    *)
(* the protected handler, and every answer is the one its request calls for.  *)
AnswersWhatItTook ==
    /\ process = "graceful" => Busy = {}
    /\ \A r \in Requests : stage[r] \in {"answered", "completed"} =>
          LET i == input[r]
              protected == i.path = "/api/admin"
          IN /\ status[r] = 200 <=> (protected => i.key) /\ (i.path = "/api/users" => i.get)
             /\ status[r] = 401 <=> protected /\ ~i.key
    /\ \A r \in Requests : stage[r] = "handler" /\ input[r].path = "/api/admin" =>
          input[r].key
=============================================================================
