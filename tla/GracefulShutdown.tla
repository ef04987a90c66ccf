--------------------------- MODULE GracefulShutdown ---------------------------
(* src/08_production/05_graceful_shutdown: requests under the tracker while   *)
(* main goes through its phases: stop accepting, drain, flush and close.      *)
(* Both waits have a timeout; what server.Shutdown waits for is the busy      *)
(* connection, the tracker counts from inside the handler.                    *)
EXTENDS FiniteSets

CONSTANTS Requests, Startup   \* Startup is the message published by main

VARIABLES
    at,         \* a request: "none", "accepted", "tracked", "published", "served"
    buffer,     \* mq.buffer
    flushed,    \* history: what Flush has written out
    phase,      \* main: "serving", "shutdown", "drain", "flush", "close", "exited"
    inTime,     \* server.Shutdown returned nil
    drained,    \* tracker.Wait returned true
    waitedFor,  \* history: the requests in the wait group when Wait was called
    dbOpen      \* db.open

vars == <<at, buffer, flushed, phase, inTime, drained, waitedFor, dbOpen>>

Init == /\ at = [r \in Requests |-> "none"]
        /\ buffer = {Startup} /\ flushed = {}
        /\ phase = "serving" /\ inTime = FALSE /\ drained = FALSE
        /\ waitedFor = {} /\ dbOpen = TRUE

Handler(r, from, to) == /\ phase # "exited"
                        /\ at[r] = from
                        /\ at' = [at EXCEPT ![r] = to]
                        /\ UNCHANGED <<flushed, phase, inTime, drained, waitedFor, dbOpen>>

Accept(r) == phase = "serving" /\ Handler(r, "none", "accepted") /\ UNCHANGED buffer

(* rt.wg.Add(1)                                                              *)
Track(r) == Handler(r, "accepted", "tracked") /\ UNCHANGED buffer

Publish(r) == Handler(r, "tracked", "published") /\ buffer' = buffer \union {r}

(* The handler returns, and its deferred rt.wg.Done() runs.                  *)
Serve(r) == Handler(r, "published", "served") /\ UNCHANGED buffer

InGroup == {r \in Requests : at[r] \in {"tracked", "published"}}
Busy == InGroup \union {r \in Requests : at[r] = "accepted"}

Signal == /\ phase = "serving"
          /\ phase' = "shutdown"
          /\ UNCHANGED <<at, buffer, flushed, inTime, drained, waitedFor, dbOpen>>

(* Phase 1: nil when no connection is busy, or the error of the 15 seconds.  *)
BugShutdown(ok) == /\ phase = "shutdown" /\ (ok => InGroup = {})
                   /\ phase' = "drain" /\ inTime' = ok
                   /\ waitedFor' = InGroup
                   /\ UNCHANGED <<at, buffer, flushed, drained, dbOpen>>

Shutdown(ok) == /\ phase = "shutdown" /\ (ok => Busy = {})
                /\ phase' = "drain" /\ inTime' = ok
                /\ waitedFor' = InGroup
                /\ UNCHANGED <<at, buffer, flushed, drained, dbOpen>>

(* Phase 2: the group's counter was 0 at some moment, or the 10 seconds.     *)
Wait(ok) == /\ phase = "drain" /\ (ok => InGroup = {})
            /\ phase' = "flush" /\ drained' = ok
            /\ UNCHANGED <<at, buffer, flushed, inTime, waitedFor, dbOpen>>

(* Phase 3                                                                   *)
Flush == /\ phase = "flush"
         /\ phase' = "close"
         /\ flushed' = flushed \union buffer /\ buffer' = {}
         /\ UNCHANGED <<at, inTime, drained, waitedFor, dbOpen>>

(* The last call of main: the process ends with its handlers.                *)
CloseDB == /\ phase = "close"
           /\ phase' = "exited" /\ dbOpen' = FALSE
           /\ UNCHANGED <<at, buffer, flushed, inTime, drained, waitedFor>>

MainMoves == Flush \/ CloseDB \/ \E ok \in BOOLEAN : Shutdown(ok) \/ Wait(ok)

Next == \/ \E r \in Requests : Accept(r) \/ Track(r) \/ Publish(r) \/ Serve(r)
        \/ Signal \/ MainMoves

Spec == Init /\ [][Next]_vars
-----------------------------------------------------------------------------
(* If the server shut down in time, every request that was accepted has been *)
(* served and its message flushed before the resources are closed.  If not,  *)
(* a drain that reports success still covers the requests it began with, and *)
(* a served request can lose its message only by outliving both waits or     *)
(* entering the group after the second began.  Nobody works on a closed      *)
(* database.                                                                 *)
NothingLostInShutdown ==
    /\ phase \in {"flush", "close", "exited"} /\ inTime => Busy = {}
    /\ phase \in {"close", "exited"} /\ inTime =>
          /\ buffer = {}
          /\ {r \in Requests : at[r] = "served"} \subseteq flushed
    /\ drained => \A r \in waitedFor : at[r] = "served"
    /\ phase = "exited" => \A r \in Requests :
          at[r] = "served" /\ r \notin flushed =>
             ~inTime /\ (~drained \/ r \notin waitedFor)
    /\ ~dbOpen => phase = "exited"
=============================================================================
