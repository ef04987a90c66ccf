-------------------------- MODULE MessageConsumers ---------------------------
(* The two consumer programs of src/10_distributed/messaging, each with its    *)
(* own initial states and steps.                                              *)
EXTENDS Naturals, Sequences, FiniteSets, SequencesExt

------------------------------------------------------------------------------
(* src/10_distributed/messaging/kafka: the consumer's loop over one partition, *)
(* with the broker and the client library as the program uses them: the       *)
(* library remembers an offset when ReadMessage hands the message out, and     *)
(* commits what it remembers now and then ("enable.auto.commit") and in Close. *)

CONSTANTS Payments, Malformed,   \* what is produced, 1..Payments; what does not unmarshal
          MaxCrashes             \* bound

VARIABLES
    produced,    \* the end of the partition
    position,    \* the next offset ReadMessage fetches
    committed,   \* the group's offset at the broker
    inHand,      \* msg, 0 when none
    loop,        \* "check", "read", "got", "closed", "crashed"
    signal,      \* a signal is in sigChan
    processed,   \* history: the offsets printed, in order
    abandoned,   \* history: the messages in hand at a crash
    crashes

consumer == <<position, inHand, loop>>
kafkaVars == <<produced, consumer, committed, signal, processed, abandoned, crashes>>

KafkaInit == /\ produced = 0 /\ position = 1 /\ committed = 1
        /\ inHand = 0 /\ loop = "check" /\ signal = FALSE
        /\ processed = <<>> /\ abandoned = {} /\ crashes = 0

(* The producer program; with one key per user its partition keeps the order. *)
Produce == /\ produced < Payments
           /\ produced' = produced + 1
           /\ UNCHANGED <<consumer, committed, signal, processed, abandoned, crashes>>

Signal == /\ ~signal /\ loop \notin {"closed", "crashed"}
          /\ signal' = TRUE
          /\ UNCHANGED <<produced, consumer, committed, processed, abandoned, crashes>>

(* The select at the head of the loop.                                        *)
Check == /\ loop = "check" /\ ~signal
         /\ loop' = "read"
         /\ UNCHANGED <<produced, position, inHand, committed, signal, processed,
                        abandoned, crashes>>

(* run = false; the deferred Close commits.                                   *)
Close == /\ loop = "check" /\ signal
         /\ loop' = "closed" /\ signal' = FALSE
         /\ committed' = position
         /\ UNCHANGED <<produced, position, inHand, processed, abandoned, crashes>>

ReadMessage == /\ loop = "read" /\ position <= produced
               /\ loop' = "got" /\ inHand' = position /\ position' = position + 1
               /\ UNCHANGED <<produced, committed, signal, processed, abandoned, crashes>>

ReadFails == /\ loop = "read"
             /\ loop' = "check"
             /\ UNCHANGED <<produced, position, inHand, committed, signal, processed,
                            abandoned, crashes>>

BugProcess == /\ loop = "got"
              /\ loop' = "check" /\ inHand' = 0
              /\ processed' = IF inHand \in Malformed \/ signal THEN processed
                              ELSE Append(processed, inHand)
              /\ UNCHANGED <<produced, position, committed, signal, abandoned, crashes>>

(* Unmarshal and print, or report the malformed message and go on.            *)
Process == /\ loop = "got"
           /\ loop' = "check" /\ inHand' = 0
           /\ processed' = IF inHand \in Malformed THEN processed
                           ELSE Append(processed, inHand)
           /\ UNCHANGED <<produced, position, committed, signal, abandoned, crashes>>

AutoCommit == /\ loop \in {"check", "read", "got"} /\ committed # position
              /\ committed' = position
              /\ UNCHANGED <<produced, consumer, signal, processed, abandoned, crashes>>

Crash == /\ loop \in {"check", "read", "got"} /\ crashes < MaxCrashes
         /\ loop' = "crashed" /\ inHand' = 0 /\ signal' = FALSE
         /\ crashes' = crashes + 1
         /\ abandoned' = abandoned \union ({inHand} \ {0})
         /\ UNCHANGED <<produced, position, committed, processed>>

(* The program is started again, in the same group.                           *)
Restart == /\ loop \in {"closed", "crashed"}
           /\ loop' = "check" /\ position' = committed
           /\ UNCHANGED <<produced, inHand, committed, signal, processed, abandoned, crashes>>

KafkaNext == \/ Produce \/ Signal \/ Check \/ Close \/ ReadMessage \/ ReadFails
        \/ Process \/ AutoCommit \/ Crash \/ Restart

KafkaSpec == KafkaInit /\ [][KafkaNext]_kafkaVars
-----------------------------------------------------------------------------
(* What the header of the consumer claims: at least once, since it commits    *)
(* after processing.  The library commits on its own, also the offset of a     *)
(* message that has been handed out and not yet been processed: a crash then   *)
(* loses it, and no restart fetches it again.                                 *)
AtLeastOnce == \A m \in 1..(committed - 1) :
    m \in ToSet(processed) \union Malformed \union {inHand}

(* What is left of that: the message in hand is all that a crash may lose,    *)
(* and a crash is all that may lose or repeat one.  Stops and restarts, read  *)
(* errors and malformed messages do neither, nor change the order.            *)
LosesOnlyTheOneInHand ==
    /\ \A m \in 1..(position - 1) :
          m \in ToSet(processed) \union Malformed \union abandoned \union {inHand}
    /\ crashes = 0 => \A i, j \in 1..Len(processed) :
          i < j => processed[i] < processed[j]
    /\ \A m \in ToSet(processed) :
          Cardinality({i \in 1..Len(processed) : processed[i] = m}) <= 1 + crashes

------------------------------------------------------------------------------
(* src/10_distributed/messaging/nsq: the consumer's handler, with nsqd and the *)
(* go-nsq library as the program uses them: at most MaxInFlight messages are    *)
(* with the consumer, one handler runs, its error requeues the message, nil    *)
(* finishes it, and nsqd requeues what is not answered in time.                *)

CONSTANTS Orders, Garbled,   \* the messages, and those that do not unmarshal
          MaxInFlight, MaxAttempts

VARIABLES
    queue, inFlight, finished,   \* nsqd: the messages in each state
    attempts,    \* deliveries of each
    handling,    \* the messages of the handler goroutine, at most one
    handled,     \* it has been processed, the answer is not sent yet
    handledOnce, \* history: orders processed
    running      \* main waits for the signal

nsqVars == <<queue, inFlight, finished, attempts, handling, handled, handledOnce, running>>

NSQInit == /\ queue = {} /\ inFlight = {} /\ finished = {}
        /\ attempts = [m \in Orders |-> 0]
        /\ handling = {} /\ handled = FALSE /\ handledOnce = {} /\ running = TRUE

(* The producer program, one order after the other.                           *)
Publish(m) == /\ m \notin queue \union inFlight \union finished
              /\ queue' = queue \union {m}
              /\ UNCHANGED <<inFlight, finished, attempts, handling, handled,
                             handledOnce, running>>

Deliver(m) == /\ running /\ m \in queue
              /\ Cardinality(inFlight) < MaxInFlight
              /\ queue' = queue \ {m} /\ inFlight' = inFlight \union {m}
              /\ attempts' = [attempts EXCEPT ![m] = IF @ <= MaxAttempts THEN @ + 1 ELSE @]
              /\ UNCHANGED <<finished, handling, handled, handledOnce, running>>

(* The library gives a message up after MaxAttempts.                          *)
GiveUp(m) == /\ running /\ handling = {} /\ m \in inFlight
             /\ attempts[m] > MaxAttempts
             /\ inFlight' = inFlight \ {m} /\ finished' = finished \union {m}
             /\ UNCHANGED <<queue, attempts, handling, handled, handledOnce, running>>

HandleMessage(m) == /\ running /\ handling = {} /\ m \in inFlight
                    /\ attempts[m] <= MaxAttempts
                    /\ handling' = {m} /\ handled' = FALSE
                    /\ UNCHANGED <<queue, inFlight, finished, attempts, handledOnce, running>>

(* The order is processed; a garbled one is not.                              *)
BugHandle == /\ running /\ handling # {} /\ ~handled
             /\ handled' = TRUE
             /\ UNCHANGED <<queue, inFlight, finished, attempts, handling,
                            handledOnce, running>>

Handle == /\ running /\ handling # {} /\ ~handled
          /\ handled' = TRUE
          /\ handledOnce' = handledOnce \union (handling \ Garbled)
          /\ UNCHANGED <<queue, inFlight, finished, attempts, handling, running>>

(* FIN or REQ; nsqd ignores it if it has taken the message back.              *)
Answer == /\ running /\ handled
          /\ handling' = {} /\ handled' = FALSE
          /\ inFlight' = inFlight \ handling
          /\ LET known == handling \intersect inFlight
             IN /\ finished' = finished \union (known \ Garbled)
                /\ queue' = queue \union (known \intersect Garbled)
          /\ UNCHANGED <<attempts, handledOnce, running>>

(* No answer within the message timeout.                                      *)
TakeBack(m) == /\ m \in inFlight
               /\ inFlight' = inFlight \ {m} /\ queue' = queue \union {m}
               /\ UNCHANGED <<finished, attempts, handling, handled, handledOnce, running>>

(* A signal, Stop and the end of main, which waits for no handler; or a crash.*)
Exit == /\ running
        /\ running' = FALSE
        /\ handling' = {} /\ handled' = FALSE
        /\ inFlight' = {} /\ queue' = queue \union inFlight
        /\ UNCHANGED <<finished, attempts, handledOnce>>

RestartNSQ == /\ ~running
           /\ running' = TRUE
           /\ UNCHANGED <<queue, inFlight, finished, attempts, handling, handled, handledOnce>>

NSQNext == \/ \E m \in Orders : \/ Publish(m) \/ Deliver(m) \/ GiveUp(m)
                             \/ HandleMessage(m) \/ TakeBack(m)
        \/ Handle \/ Answer \/ Exit \/ RestartNSQ

NSQSpec == NSQInit /\ [][NSQNext]_nsqVars
-----------------------------------------------------------------------------
(* An order leaves nsqd only processed, or after MaxAttempts deliveries;      *)
(* a garbled one never counts as processed; and what is published stays in     *)
(* exactly one of nsqd's states, whenever the consumer stops or is too slow.   *)
FinishedMeansHandled ==
    /\ \A m \in finished : m \in handledOnce \/ attempts[m] > MaxAttempts
    /\ handledOnce \intersect Garbled = {}
    /\ queue \intersect inFlight = {} /\ (queue \union inFlight) \intersect finished = {}
    /\ \A m \in Orders : attempts[m] > 0 => m \in queue \union inFlight \union finished
    /\ Cardinality(inFlight) <= MaxInFlight
==============================================================================
