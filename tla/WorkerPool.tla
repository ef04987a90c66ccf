------------------------------ MODULE WorkerPool ------------------------------
(***************************************************************************)
(* src/05_patterns/02_worker_pool_advanced/main.go: Pool[T, R] under the   *)
(* program that drives it.  One goroutine submits jobs 1..NJobs and closes *)
(* the jobs channel, the workers range over it, a closer waits for them    *)
(* and closes the results channel, and main collects until it is closed.   *)
(* The context may be cancelled at any moment.                             *)
(*                                                                         *)
(* A FIFO channel is what was sent minus what was received: the jobs       *)
(* channel holds jobs taken+1..submitted, the results channel holds the    *)
(* elements of out after the first `collected`.                            *)
(***************************************************************************)
EXTENDS Naturals, Sequences

CONSTANTS Workers,      \* the goroutines Start launches
          NJobs,        \* jobs the program submits
          BufferSize    \* capacity of both channels, not rendezvous channels

ASSUME PoolAssumption == /\ Workers # {}
                         /\ NJobs \in Nat
                         /\ BufferSize \in Nat \ {0}

VARIABLES
    submitted,      \* jobs sent on p.jobs so far
    jobsClosed,     \* close(p.jobs)
    taken,          \* jobs received from p.jobs so far
    pc,             \* where a worker is
    hand,           \* the job a worker holds, 0 when none
    verdict,        \* the Err of the result a worker is about to send
    out,            \* results sent on p.results so far
    resultsClosed,  \* close(p.results)
    collected,      \* results received by main so far
    finished,       \* main's range over the results has ended
    cancelled,      \* ctx.Done() is closed
    late            \* history: jobs a worker took after the cancellation

worker == <<pc, hand, verdict, late>>
input == <<submitted, jobsClosed>>
output == <<out, resultsClosed, collected, finished>>
vars == <<input, taken, worker, output, cancelled>>

Errs == {"none", "codec", "ctx"}

Init == /\ submitted = 0 /\ jobsClosed = FALSE /\ taken = 0
        /\ pc = [w \in Workers |-> "range"]
        /\ hand = [w \in Workers |-> 0]
        /\ verdict = [w \in Workers |-> "none"]
        /\ late = [w \in Workers |-> 0]
        /\ out = <<>> /\ resultsClosed = FALSE
        /\ collected = 0 /\ finished = FALSE
        /\ cancelled = FALSE

-----------------------------------------------------------------------------
(* The submitting goroutine.                                               *)
BugSubmitsOneMore ==
    /\ submitted <= NJobs
    /\ submitted - taken < BufferSize
    /\ submitted' = submitted + 1
    /\ UNCHANGED <<jobsClosed, taken, worker, output, cancelled>>

Submit == /\ submitted < NJobs
          /\ submitted - taken < BufferSize
          /\ submitted' = submitted + 1
          /\ UNCHANGED <<jobsClosed, taken, worker, output, cancelled>>

BugClosesAfterCollecting ==
    /\ submitted = NJobs /\ ~jobsClosed /\ finished
    /\ jobsClosed' = TRUE
    /\ UNCHANGED <<submitted, taken, worker, output, cancelled>>

Close == /\ submitted = NJobs /\ ~jobsClosed
         /\ jobsClosed' = TRUE
         /\ UNCHANGED <<submitted, taken, worker, output, cancelled>>

-----------------------------------------------------------------------------
(* A worker of Start.                                                      *)
Take(w) == /\ pc[w] = "range" /\ taken < submitted
           /\ taken' = taken + 1
           /\ hand' = [hand EXCEPT ![w] = taken + 1]
           /\ pc' = [pc EXCEPT ![w] = "select"]
           /\ late' = [late EXCEPT ![w] = IF cancelled THEN @ + 1 ELSE @]
           /\ UNCHANGED <<input, verdict, output, cancelled>>

BugIgnoresCancel(w) ==
    /\ pc[w] = "select"
    /\ pc' = [pc EXCEPT ![w] = "process"]
    /\ UNCHANGED <<input, taken, hand, verdict, late, output, cancelled>>

(* select { case <-ctx.Done(): ... default: }                              *)
SelectDone(w) ==
    /\ pc[w] = "select"
    /\ IF cancelled
       THEN /\ pc' = [pc EXCEPT ![w] = "sendAndReturn"]
            /\ verdict' = [verdict EXCEPT ![w] = "ctx"]
       ELSE pc' = [pc EXCEPT ![w] = "process"] /\ UNCHANGED verdict
    /\ UNCHANGED <<input, taken, hand, late, output, cancelled>>

(* p.processor: it may see the cancellation, or finish first.              *)
Process(w) ==
    /\ pc[w] = "process"
    /\ \E e \in Errs : /\ e = "ctx" => cancelled
                       /\ verdict' = [verdict EXCEPT ![w] = e]
    /\ pc' = [pc EXCEPT ![w] = "send"]
    /\ UNCHANGED <<input, taken, hand, late, output, cancelled>>

BugFallsThrough(w) ==
    /\ pc[w] \in {"send", "sendAndReturn"}
    /\ Len(out) - collected < BufferSize
    /\ out' = Append(out, [job |-> hand[w], err |-> verdict[w]])
    /\ hand' = [hand EXCEPT ![w] = IF pc[w] = "send" THEN 0 ELSE @]
    /\ pc' = [pc EXCEPT ![w] = IF @ = "send" THEN "range" ELSE "process"]
    /\ UNCHANGED <<input, taken, verdict, late, resultsClosed, collected,
                   finished, cancelled>>

BugReturnsWithoutDone(w) ==
    /\ pc[w] \in {"send", "sendAndReturn"}
    /\ Len(out) - collected < BufferSize
    /\ out' = Append(out, [job |-> hand[w], err |-> verdict[w]])
    /\ hand' = [hand EXCEPT ![w] = 0]
    /\ pc' = [pc EXCEPT ![w] = IF @ = "send" THEN "range" ELSE "returned"]
    /\ UNCHANGED <<input, taken, verdict, late, resultsClosed, collected,
                   finished, cancelled>>

Send(w) ==
    /\ pc[w] \in {"send", "sendAndReturn"}
    /\ Len(out) - collected < BufferSize
    /\ out' = Append(out, [job |-> hand[w], err |-> verdict[w]])
    /\ hand' = [hand EXCEPT ![w] = 0]
    /\ pc' = [pc EXCEPT ![w] = IF @ = "send" THEN "range" ELSE "done"]
    /\ UNCHANGED <<input, taken, verdict, late, resultsClosed, collected,
                   finished, cancelled>>

(* The range ends on a closed and empty channel.                           *)
BugLeavesEarly(w) == /\ pc[w] = "range" /\ jobsClosed
                     /\ pc' = [pc EXCEPT ![w] = "done"]
                     /\ UNCHANGED <<input, taken, hand, verdict, late, output,
                                    cancelled>>

Leave(w) == /\ pc[w] = "range" /\ jobsClosed /\ taken = submitted
            /\ pc' = [pc EXCEPT ![w] = "done"]
            /\ UNCHANGED <<input, taken, hand, verdict, late, output, cancelled>>

-----------------------------------------------------------------------------
BugAllDone == \E w \in Workers : pc[w] = "done"

AllDone == \A w \in Workers : pc[w] = "done"

(* wg.Wait(); close(p.results)                                             *)
CloseResults == /\ AllDone /\ ~resultsClosed
                /\ resultsClosed' = TRUE
                /\ UNCHANGED <<input, taken, worker, out, collected, finished,
                               cancelled>>

(* main: for result := range pool.Results()                                *)
Collect == /\ collected < Len(out)
           /\ collected' = collected + 1
           /\ UNCHANGED <<input, taken, worker, out, resultsClosed, finished,
                          cancelled>>

Finish == /\ resultsClosed /\ collected = Len(out) /\ ~finished
          /\ finished' = TRUE
          /\ UNCHANGED <<input, taken, worker, out, resultsClosed, collected,
                         cancelled>>

(* The timeout of the context, or its cancel function.                     *)
Cancel == /\ ~cancelled
          /\ cancelled' = TRUE
          /\ UNCHANGED <<input, taken, worker, output>>

Ended == finished /\ cancelled /\ UNCHANGED vars

Work(w) == Take(w) \/ SelectDone(w) \/ Process(w) \/ Send(w) \/ Leave(w)

Next == \/ Submit \/ Close
        \/ \E w \in Workers : Work(w)
        \/ CloseResults \/ Collect \/ Finish
        \/ Cancel
        \/ Ended

Spec == Init /\ [][Next]_vars

(* Every goroutine that can move is eventually scheduled; the context need *)
(* not be cancelled.                                                       *)
Fairness == /\ WF_vars(Submit \/ Close)
            /\ \A w \in Workers : WF_vars(Work(w))
            /\ WF_vars(CloseResults)
            /\ WF_vars(Collect \/ Finish)

FairSpec == Spec /\ Fairness
-----------------------------------------------------------------------------
TypeOK ==
    /\ submitted \in 0..NJobs /\ taken \in 0..submitted
    /\ jobsClosed \in BOOLEAN /\ resultsClosed \in BOOLEAN
    /\ finished \in BOOLEAN /\ cancelled \in BOOLEAN
    /\ pc \in [Workers -> {"range", "select", "process", "send",
                           "sendAndReturn", "done"}]
    /\ hand \in [Workers -> 0..NJobs]
    /\ verdict \in [Workers -> Errs]
    /\ late \in [Workers -> Nat]
    /\ out \in Seq([job : 1..NJobs, err : Errs])
    /\ collected \in 0..Len(out)

(* Every job that left the channel is either in the hands of exactly one   *)
(* worker or the subject of exactly one result: no job is answered twice   *)
(* and none is dropped by a worker that quits.                             *)
JobsConserved ==
    /\ \A i, j \in 1..Len(out) : out[i].job = out[j].job => i = j
    /\ \A v, w \in Workers : hand[v] # 0 /\ hand[v] = hand[w] => v = w
    /\ \A n \in 1..taken : (\E w \in Workers : hand[w] = n)
                             <=> ~ \E i \in 1..Len(out) : out[i].job = n

(* Nobody can send on the closed results channel, which would panic.       *)
ResultsClosedLast ==
    resultsClosed => \A w \in Workers : pc[w] = "done" /\ hand[w] = 0

(* The pool without a cancellation is lossless: when the collector's loop  *)
(* ends it has seen a result for every job, and none of them says "ctx".   *)
CompleteUnlessCancelled ==
    finished /\ ~cancelled =>
        /\ \A n \in 1..NJobs : \E i \in 1..collected : out[i].job = n
        /\ \A i \in 1..collected : out[i].err # "ctx"

(* "everyone wraps up their current item and goes home": a worker takes at *)
(* most one more job after the cancellation.                               *)
AtMostOneMoreJob == \A w \in Workers : late[w] <= 1

(* All of these, for every reachable state.                                *)
PoolInv == /\ TypeOK /\ JobsConserved /\ ResultsClosedLast
           /\ CompleteUnlessCancelled /\ AtMostOneMoreJob

(* The collector is never left waiting, cancelled or not, however small    *)
(* the buffers are and wherever the workers stopped.                       *)
CollectorFinishes == <>finished

(* Nor is the submitter, as long as nobody cancels: workers that are busy, *)
(* full buffers and a slow collector only delay it.                        *)
SubmitterFinishesUnlessCancelled == <>(jobsClosed \/ cancelled)
=============================================================================
