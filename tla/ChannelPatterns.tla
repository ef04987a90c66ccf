--------------------------- MODULE ChannelPatterns ---------------------------
(* The channel lessons of src/03_concurrency: the patterns, and the pool that *)
(* needs no collector, each with its own initial states and steps.            *)
EXTENDS Naturals, Sequences, FiniteSets, SequencesExt

------------------------------------------------------------------------------
(* src/03_concurrency/04_channel_patterns: the stages generate, square and   *)
(* addTen, fanIn over producers, each with its forwarding goroutine, and the *)
(* done channel that ends an endless producer, all over unbuffered channels. *)
(* The three run one after the other in main and share nothing.              *)

CONSTANTS Numbers,    \* generate sends 1..Numbers
          Producers,  \* the channels given to fanIn
          PerSource,  \* what makeProducer sends on each
          Wanted      \* values main consumes before close(done)

VARIABLES
    sent,       \* what generate has sent
    toSend,     \* the values square and addTen are to send, 0 when none
    ended,      \* how many of the three stages have closed their channel
    results,    \* what main received from addTen
    made,       \* messages a producer has sent
    chClosed,   \* the producers' channels that are closed
    forward,    \* the message a forwarder is to send on merged, 0 when none
    left,       \* forwarders that have called wg.Done
    mergedClosed,
    merged,     \* what main received from merged: <<producer, number>>
    section,    \* main: "chain", "fanin", "done", "over"
    counter,    \* the endless producer's i
    eaten,      \* values consumed by main
    done, outClosed   \* close(done), and the producer's deferred close(out)

chain == <<sent, toSend, ended, results>>
fanin == <<made, chClosed, forward, left, mergedClosed, merged>>
endless == <<counter, eaten, done, outClosed>>
vars == <<chain, fanin, section, endless>>

Init == /\ sent = 0 /\ toSend = <<0, 0>> /\ ended = 0 /\ results = <<>>
        /\ made = [p \in Producers |-> 0] /\ chClosed = {}
        /\ forward = [p \in Producers |-> 0] /\ left = {}
        /\ mergedClosed = FALSE /\ merged = <<>>
        /\ section = "chain"
        /\ counter = 0 /\ eaten = <<>> /\ done = FALSE /\ outClosed = FALSE

(* Each stage sends what it holds to the next one's range.                   *)
Generate == /\ sent < Numbers /\ toSend[1] = 0
            /\ sent' = sent + 1
            /\ toSend' = [toSend EXCEPT ![1] = (sent + 1) * (sent + 1)]
            /\ UNCHANGED <<ended, results, fanin, section, endless>>

Square == /\ toSend[1] # 0 /\ toSend[2] = 0
          /\ toSend' = <<0, toSend[1] + 10>>
          /\ UNCHANGED <<sent, ended, results, fanin, section, endless>>

AddTen == /\ section = "chain" /\ toSend[2] # 0
          /\ results' = Append(results, toSend[2])
          /\ toSend' = [toSend EXCEPT ![2] = 0]
          /\ UNCHANGED <<sent, ended, fanin, section, endless>>

(* close(out): generate when it has sent all, a stage after the one before.  *)
StageEnds == /\ ended < 3
             /\ IF ended = 0 THEN sent = Numbers ELSE toSend[ended] = 0
             /\ ended' = ended + 1
             /\ UNCHANGED <<sent, toSend, results, fanin, section, endless>>

ChainEnds == /\ section = "chain" /\ ended = 3
             /\ section' = "fanin"
             /\ UNCHANGED <<chain, fanin, endless>>

(* ch <- msg meets the forwarder's range.                                    *)
Produce(p) == /\ section = "fanin" /\ made[p] < PerSource /\ forward[p] = 0
              /\ made' = [made EXCEPT ![p] = @ + 1]
              /\ forward' = [forward EXCEPT ![p] = made[p] + 1]
              /\ UNCHANGED <<chain, chClosed, left, mergedClosed, merged, section, endless>>

ProducerCloses(p) == /\ made[p] = PerSource /\ p \notin chClosed
                     /\ chClosed' = chClosed \union {p}
                     /\ UNCHANGED <<chain, made, forward, left, mergedClosed, merged,
                                    section, endless>>

(* merged <- msg meets main's range.                                         *)
Merge(p) == /\ section = "fanin" /\ forward[p] # 0
            /\ merged' = Append(merged, <<p, forward[p]>>)
            /\ forward' = [forward EXCEPT ![p] = 0]
            /\ UNCHANGED <<chain, made, chClosed, left, mergedClosed, section, endless>>

ForwarderLeaves(p) == /\ p \in chClosed \ left /\ forward[p] = 0
                      /\ left' = left \union {p}
                      /\ UNCHANGED <<chain, made, chClosed, forward, mergedClosed, merged,
                                     section, endless>>

BugCloseMerged == /\ left # {} /\ ~mergedClosed
                  /\ mergedClosed' = TRUE
                  /\ UNCHANGED <<chain, made, chClosed, forward, left, merged, section, endless>>

CloseMerged == /\ left = Producers /\ ~mergedClosed
               /\ mergedClosed' = TRUE
               /\ UNCHANGED <<chain, made, chClosed, forward, left, merged, section, endless>>

FanInEnds == /\ section = "fanin" /\ mergedClosed
             /\ section' = "done"
             /\ UNCHANGED <<chain, fanin, endless>>

(* The endless producer's select: the send meets main's receive, or done is  *)
(* closed.                                                                   *)
Consume == /\ section = "done" /\ ~done /\ Len(eaten) < Wanted
           /\ eaten' = Append(eaten, counter)
           /\ counter' = counter + 1
           /\ UNCHANGED <<chain, fanin, section, done, outClosed>>

CloseDone == /\ section = "done" /\ ~done /\ Len(eaten) = Wanted
             /\ done' = TRUE
             /\ UNCHANGED <<chain, fanin, section, counter, eaten, outClosed>>

ProducerCancelled == /\ done /\ ~outClosed
                     /\ outClosed' = TRUE
                     /\ UNCHANGED <<chain, fanin, section, counter, eaten, done>>

(* main sleeps and leaves, with the producer still there or not.             *)
MainLeaves == /\ section = "done" /\ done
              /\ section' = "over"
              /\ UNCHANGED <<chain, fanin, endless>>

Next == \/ Generate \/ Square \/ AddTen \/ StageEnds \/ ChainEnds
        \/ \E p \in Producers : \/ Produce(p) \/ ProducerCloses(p)
                                \/ Merge(p) \/ ForwarderLeaves(p)
        \/ CloseMerged \/ FanInEnds
        \/ Consume \/ CloseDone \/ ProducerCancelled \/ MainLeaves

Spec == Init /\ [][Next]_vars
-----------------------------------------------------------------------------
(* The numbers of the messages of p that main has received.                  *)
Delivered(p) == {merged[k][2] : k \in {j \in DOMAIN merged : merged[j][1] = p}}

(* The chain delivers every number, in order and through both stages, before *)
(* the last channel is closed.                                               *)
ChainDelivers ==
    /\ results = [i \in 1..Len(results) |-> i * i + 10]
    /\ Len(results) = sent - Cardinality({s \in 1..2 : toSend[s] # 0})
    /\ ended = 3 => Len(results) = Numbers

(* fanIn merges without reordering a source, and what is in a forwarder's    *)
(* hands is next; merged is closed only after everything has gone through    *)
(* it, so that no forwarder sends on a closed channel and main's range does  *)
(* not end early.  The endless producer stops where main stopped.            *)
MergesEverySource ==
    /\ \A j, k \in DOMAIN merged :
          j < k /\ merged[j][1] = merged[k][1] => merged[j][2] < merged[k][2]
    /\ \A p \in Producers :
          /\ Delivered(p) = 1..(made[p] - IF forward[p] = 0 THEN 0 ELSE 1)
          /\ mergedClosed => Delivered(p) = 1..PerSource
    /\ outClosed => counter = Wanted

------------------------------------------------------------------------------
(* src/03_concurrency/07_worker_pool, and the fan-out of 04_channel_patterns: *)
(* main sends all jobs and closes the channel before it collects the first   *)
(* result, which works because both channels have room for everything.       *)

CONSTANTS Hands,     \* the workers
          NumJobs, JobsCap, ResultsCap

VARIABLES jobs, jobsShut,   \* the jobs channel
          next,      \* jobs main has sent
          busy,      \* the job a worker has, 0 when it ranges, NumJobs + 1 when gone
          answers, answersShut,   \* the results channel
          printed    \* the results main has read

bufferedVars == <<jobs, jobsShut, next, busy, answers, answersShut, printed>>

Gone == NumJobs + 1

BufferedInit == /\ jobs = <<>> /\ jobsShut = FALSE /\ next = 0
        /\ busy = [h \in Hands |-> 0]
        /\ answers = <<>> /\ answersShut = FALSE /\ printed = <<>>

SendJob == /\ next < NumJobs /\ Len(jobs) < JobsCap
           /\ jobs' = Append(jobs, next + 1)
           /\ next' = next + 1
           /\ UNCHANGED <<jobsShut, busy, answers, answersShut, printed>>

CloseJobs == /\ next = NumJobs /\ ~jobsShut
             /\ jobsShut' = TRUE
             /\ UNCHANGED <<jobs, next, busy, answers, answersShut, printed>>

BugReceive(h) == /\ busy[h] = 0 /\ jobs # <<>>
                 /\ busy' = [busy EXCEPT ![h] = IF jobsShut THEN Gone ELSE Head(jobs)]
                 /\ jobs' = Tail(jobs)
                 /\ UNCHANGED <<jobsShut, next, answers, answersShut, printed>>

Receive(h) == /\ busy[h] = 0 /\ jobs # <<>>
              /\ busy' = [busy EXCEPT ![h] = Head(jobs)]
              /\ jobs' = Tail(jobs)
              /\ UNCHANGED <<jobsShut, next, answers, answersShut, printed>>

Answer(h) == /\ busy[h] \in 1..NumJobs /\ Len(answers) < ResultsCap
             /\ answers' = Append(answers, busy[h])
             /\ busy' = [busy EXCEPT ![h] = 0]
             /\ UNCHANGED <<jobs, jobsShut, next, answersShut, printed>>

Leaves(h) == /\ busy[h] = 0 /\ jobs = <<>> /\ jobsShut
             /\ busy' = [busy EXCEPT ![h] = Gone]
             /\ UNCHANGED <<jobs, jobsShut, next, answers, answersShut, printed>>

CloseAnswers == /\ \A h \in Hands : busy[h] = Gone
                /\ ~answersShut
                /\ answersShut' = TRUE
                /\ UNCHANGED <<jobs, jobsShut, next, busy, answers, printed>>

(* main's range begins once close(jobs) is done.                             *)
Show == /\ jobsShut /\ answers # <<>>
        /\ printed' = Append(printed, Head(answers))
        /\ answers' = Tail(answers)
        /\ UNCHANGED <<jobs, jobsShut, next, busy, answersShut>>

BufferedNext == \/ SendJob \/ CloseJobs \/ CloseAnswers \/ Show
        \/ \E h \in Hands : Receive(h) \/ Answer(h) \/ Leaves(h)

BufferedSpec == BufferedInit /\ [][BufferedNext]_bufferedVars
-----------------------------------------------------------------------------
Over == answersShut /\ answers = <<>>

(* Each job is answered once; when main's range ends it has them all.        *)
AnswersEveryJob ==
    /\ IsInjective(printed \o answers)
    /\ Over => ToSet(printed) = 1..NumJobs
==============================================================================
