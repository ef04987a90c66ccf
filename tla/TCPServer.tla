------------------------------- MODULE TCPServer -------------------------------
(* src/06_networking/01_tcp_server: main's accept loop, the goroutine that     *)
(* waits for the signal, and for each connection its handler and the goroutine *)
(* that cuts its reads and writes short when the context ends.                 *)
EXTENDS Naturals, FiniteSets

CONSTANT Conns

VARIABLES
    signalled,   \* a signal is in sigCh
    stopper,     \* the signal goroutine: "select", "close", "gone"
    ctxDone,     \* cancel() was called
    listening,   \* the listener is open
    server,      \* main: "accept", "error", "wait", "returned"
    conn,        \* "none", "dialled", "read", "write", "closing", "closed"
    cut,         \* connections whose deadline has been set
    wg           \* the wait group's counter

vars == <<signalled, stopper, ctxDone, listening, server, conn, cut, wg>>

Init == /\ signalled = FALSE /\ stopper = "select" /\ ctxDone = FALSE
        /\ listening = TRUE /\ server = "accept"
        /\ conn = [c \in Conns |-> "none"] /\ cut = {} /\ wg = 0

To(c, place) == conn' = [conn EXCEPT ![c] = place]

(* The system queues what clients dial; a listener that closes drops them.    *)
Dial(c) == /\ listening /\ conn[c] = "none"
           /\ To(c, "dialled")
           /\ UNCHANGED <<signalled, stopper, ctxDone, listening, server, cut, wg>>

BugAccept(c) == /\ server = "accept" /\ listening /\ conn[c] = "dialled"
                /\ To(c, "read")
                /\ UNCHANGED <<signalled, stopper, ctxDone, listening, server, cut, wg>>

(* wg.Add(1); go handleConnection(...)                                        *)
Accept(c) == /\ server = "accept" /\ listening /\ conn[c] = "dialled"
             /\ To(c, "read")
             /\ wg' = wg + 1
             /\ UNCHANGED <<signalled, stopper, ctxDone, listening, server, cut>>

(* Accept fails: for good once the listener is closed, or now and then.       *)
AcceptFails == /\ server = "accept"
               /\ server' = "error"
               /\ UNCHANGED <<signalled, stopper, ctxDone, listening, conn, cut, wg>>

LookAtError == /\ server = "error"
               /\ server' = IF ctxDone THEN "wait" ELSE "accept"
               /\ UNCHANGED <<signalled, stopper, ctxDone, listening, conn, cut, wg>>

Goodbye == /\ server = "wait" /\ wg = 0
           /\ server' = "returned"
           /\ UNCHANGED <<signalled, stopper, ctxDone, listening, conn, cut, wg>>

Signal == /\ ~signalled
          /\ signalled' = TRUE
          /\ UNCHANGED <<stopper, ctxDone, listening, server, conn, cut, wg>>

Cancel == /\ signalled /\ stopper = "select"
          /\ ctxDone' = TRUE /\ stopper' = "close"
          /\ UNCHANGED <<signalled, listening, server, conn, cut, wg>>

BugCloseListener == /\ stopper = "close"
                    /\ stopper' = "gone"
                    /\ UNCHANGED <<signalled, ctxDone, listening, server, conn, cut, wg>>

CloseListener == /\ stopper = "close"
                 /\ listening' = FALSE /\ stopper' = "gone"
                 /\ UNCHANGED <<signalled, ctxDone, server, conn, cut, wg>>

(* <-ctx.Done(); conn.SetDeadline(time.Now())                                 *)
Cut(c) == /\ ctxDone /\ c \notin cut
          /\ conn[c] \notin {"none", "dialled"}
          /\ cut' = cut \union {c}
          /\ UNCHANGED <<signalled, stopper, ctxDone, listening, server, conn, wg>>

(* A read or a write of an open connection; past its deadline both fail.      *)
Echo(c) == /\ c \notin cut
           /\ \/ conn[c] = "read" /\ To(c, "write")
              \/ conn[c] = "write" /\ To(c, "read")
           /\ UNCHANGED <<signalled, stopper, ctxDone, listening, server, cut, wg>>

(* The read or the write returns an error, whoever caused it; then the        *)
(* deferred conn.Close() and wg.Done(), in this order.                        *)
Break(c) == /\ conn[c] \in {"read", "write"}
            /\ To(c, "closing")
            /\ UNCHANGED <<signalled, stopper, ctxDone, listening, server, cut, wg>>

Leave(c) == /\ conn[c] = "closing"
            /\ To(c, "closed")
            /\ wg' = wg - 1
            /\ UNCHANGED <<signalled, stopper, ctxDone, listening, server, cut>>

Handle(c) == Echo(c) \/ Leave(c) \/ (c \in cut /\ Break(c))

Next == \/ \E c \in Conns : Dial(c) \/ Accept(c) \/ Cut(c) \/ Echo(c) \/ Break(c) \/ Leave(c)
        \/ AcceptFails \/ LookAtError \/ Goodbye
        \/ Signal \/ Cancel \/ CloseListener

Spec == Init /\ [][Next]_vars
-----------------------------------------------------------------------------
Open == {c \in Conns : conn[c] \in {"read", "write", "closing"}}

(* "all connections closed, goodbye": when main returns no handler is left,  *)
(* not even one whose connection was accepted while the signal arrived.       *)
GoodbyeIsTrue == /\ wg = Cardinality(Open)
                 /\ server = "returned" => Open = {} /\ ctxDone
==============================================================================
