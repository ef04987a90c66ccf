---------------------------- MODULE ContextSelect ----------------------------
(* Two lessons of src/03_concurrency about Done channels, timeouts and select. *)
(* They are separate programs: each has its own initial states and steps.     *)
EXTENDS Naturals

------------------------------------------------------------------------------
(* src/03_concurrency/06_context: parentTask with its two workers under a      *)
(* child context, the cancellation of the parent context by main, and a query *)
(* that races with the deadline of its own context.                           *)

CONSTANTS Children,   \* the workers parentTask launches
          MaxTicks    \* ticks of each (a bound)

VARIABLES parentOver, childOver,   \* the two contexts' Done channels are closed
          task,      \* parentTask: "select" or "returned"
          ticks,     \* ticks of each worker, MaxTicks + 1 when it has stopped
          deadline,  \* the query's context is over
          query      \* "running", "result", "error"

contextVars == <<parentOver, childOver, task, ticks, deadline, query>>

Stopped == MaxTicks + 1

ContextInit == /\ parentOver = FALSE /\ childOver = FALSE /\ task = "select"
        /\ ticks = [c \in Children |-> 0]
        /\ deadline = FALSE /\ query = "running"

(* cancel3(): the cancellation reaches the contexts derived from it.          *)
CancelParent == /\ ~parentOver
                /\ parentOver' = TRUE
                /\ childOver' = TRUE
                /\ UNCHANGED <<task, ticks, deadline, query>>

BugTaskReturns == /\ task = "select"
                  /\ task' = "returned"
                  /\ UNCHANGED <<parentOver, childOver, ticks, deadline, query>>

(* On ctx.Done() or after its own work; either way the deferred childCancel   *)
(* runs.                                                                      *)
TaskReturns == /\ task = "select"
               /\ task' = "returned"
               /\ childOver' = TRUE
               /\ UNCHANGED <<parentOver, ticks, deadline, query>>

(* The select of a worker: either case, when both are ready.                  *)
WorkerTicks(c) == /\ ticks[c] < MaxTicks
                  /\ ticks' = [ticks EXCEPT ![c] = @ + 1]
                  /\ UNCHANGED <<parentOver, childOver, task, deadline, query>>

WorkerStops(c) == /\ ticks[c] # Stopped /\ childOver
                  /\ ticks' = [ticks EXCEPT ![c] = Stopped]
                  /\ UNCHANGED <<parentOver, childOver, task, deadline, query>>

DeadlinePasses == /\ ~deadline
                  /\ deadline' = TRUE
                  /\ UNCHANGED <<parentOver, childOver, task, ticks, query>>

(* slowQuery                                                                  *)
QueryReturns == /\ query = "running"
                /\ \/ query' = "result"
                   \/ deadline /\ query' = "error"
                /\ UNCHANGED <<parentOver, childOver, task, ticks, deadline>>

ContextNext == \/ CancelParent \/ TaskReturns \/ DeadlinePasses \/ QueryReturns
        \/ \E c \in Children : WorkerTicks(c) \/ WorkerStops(c)

ContextSpec == ContextInit /\ [][ContextNext]_contextVars
-----------------------------------------------------------------------------
(* No context is left behind: the children's is over as soon as the task that *)
(* launched them has returned or its own context is over, whichever comes     *)
(* first; a worker stops and a query fails only for its context.              *)
CancellationCascades ==
    /\ task = "returned" \/ parentOver => childOver
    /\ \A c \in Children : ticks[c] = Stopped => childOver
    /\ query = "error" => deadline

------------------------------------------------------------------------------
(* src/03_concurrency/03_select_statement: the call with a timeout (section   *)
(* 2) and the loop that reads two producers until it is told to quit or       *)
(* nothing has happened for a while (section 5).                              *)

CONSTANTS FastCount, SlowCount, ChanCap   \* 5, 3 and 10 in main

VARIABLES service,     \* the slow service: "working", "sent"
          caller,      \* "waiting", "result", "timeout", "loop", "quit", "idle"
          fastSent, slowSent, fastRead, slowRead,   \* the two buffered channels
          quit         \* close(quitCh)

selectVars == <<service, caller, fastSent, slowSent, fastRead, slowRead, quit>>
channels == <<fastSent, slowSent, fastRead, slowRead, quit>>

SelectInit == /\ service = "working" /\ caller = "waiting"
        /\ fastSent = 0 /\ slowSent = 0 /\ fastRead = 0 /\ slowRead = 0
        /\ quit = FALSE

(* The send on the unbuffered channel needs the receiver.                     *)
Answer == /\ service = "working" /\ caller = "waiting"
          /\ service' = "sent" /\ caller' = "result"
          /\ UNCHANGED channels

Timeout == /\ caller = "waiting"
           /\ caller' = "timeout"
           /\ UNCHANGED <<service, channels>>

LoopBegins == /\ caller \in {"result", "timeout"}
              /\ caller' = "loop"
              /\ UNCHANGED <<service, channels>>

FastSends == /\ caller \in {"loop", "quit", "idle"}
             /\ fastSent < FastCount /\ fastSent - fastRead < ChanCap
             /\ fastSent' = fastSent + 1
             /\ UNCHANGED <<service, caller, slowSent, fastRead, slowRead, quit>>

SlowSends == /\ caller \in {"loop", "quit", "idle"}
             /\ slowSent < SlowCount /\ slowSent - slowRead < ChanCap
             /\ slowSent' = slowSent + 1
             /\ UNCHANGED <<service, caller, fastSent, fastRead, slowRead, quit>>

BugQuit == /\ ~quit /\ slowSent > 0
           /\ quit' = TRUE
           /\ UNCHANGED <<service, caller, fastSent, slowSent, fastRead, slowRead>>

Quit == /\ ~quit /\ slowSent = SlowCount
        /\ quit' = TRUE
        /\ UNCHANGED <<service, caller, fastSent, slowSent, fastRead, slowRead>>

(* The cases of the select; with several ready, any of them.                  *)
ReadFast == /\ caller = "loop" /\ fastRead < fastSent
            /\ fastRead' = fastRead + 1
            /\ UNCHANGED <<service, caller, fastSent, slowSent, slowRead, quit>>

ReadSlow == /\ caller = "loop" /\ slowRead < slowSent
            /\ slowRead' = slowRead + 1
            /\ UNCHANGED <<service, caller, fastSent, slowSent, fastRead, quit>>

BreakOnQuit == /\ caller = "loop" /\ quit
               /\ caller' = "quit"
               /\ UNCHANGED <<service, channels>>

(* 150 ms without activity; the timer is a case like the others, and a         *)
(* goroutine that gets to the select late may find it ready along with them.   *)
BreakIdle == /\ caller = "loop"
             /\ caller' = "idle"
             /\ UNCHANGED <<service, channels>>

SelectNext == \/ Answer \/ Timeout \/ LoopBegins
        \/ FastSends \/ SlowSends \/ Quit
        \/ ReadFast \/ ReadSlow \/ BreakOnQuit \/ BreakIdle

SelectSpec == SelectInit /\ [][SelectNext]_selectVars
-----------------------------------------------------------------------------
(* The loop is told to quit only behind the slow producer's last value, and   *)
(* what it does not read (nothing makes select prefer data to the quit        *)
(* signal or to the timer) fits into the channels, so that neither producer   *)
(* is left blocked when the loop is broken for the one reason or the other.   *)
ProducersAreNotStranded ==
    /\ caller = "quit" => slowSent = SlowCount
    /\ fastSent < FastCount => fastSent - fastRead < ChanCap
    /\ slowSent < SlowCount => slowSent - slowRead < ChanCap
==============================================================================
