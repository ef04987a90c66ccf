------------------------------- MODULE Services -------------------------------
(* The servers, brokers' clients and stores of src/06_networking,             *)
(* src/08_production and src/10_distributed, and the circuit breaker under    *)
(* one caller.  They share nothing: subject picks one of them in the initial  *)
(* state and only that one moves.  The rate limiter is extended, the others   *)
(* are instances.                                                             *)
EXTENDS RateLimiter, Integers, FiniteSets

CONSTANTS Callers, Threshold, HalfOpenMax, ResetTimeout,
          MaxFailures,   \* CircuitBreaker
          Requests, Startup,   \* GracefulShutdown
          Conns,   \* TCPServer
          Instances, Names, Timeout, MaxEntries, Intervals,   \* ServiceRegistry
          Accounts, Amounts, MaxEvents,   \* EventStore
          Payments, Malformed, MaxCrashes, Orders, Garbled, MaxInFlight,
          MaxAttempts,   \* MessageConsumers
          Calls, MaxCreated,   \* UserService
          Clients, Emails, Passwords, MaxUsers, MaxTasks,   \* Accounts
          Routes, Bounds, Durations, MaxRequests,   \* Metrics
          WebRequests,   \* HTTPServer
          Runs   \* OrderTransaction

VARIABLES subject,
          state, failures, successes, elapsed, pc, seen, up,
          streak,   \* CircuitBreaker
          at, buffer, flushed, phase, inTime, drained,
          waitedFor, dbOpen,   \* GracefulShutdown
          signalled, stopper, ctxDone, listening, server,
          conn, cut, wg,   \* TCPServer
          clock, checked, services, beat, handed, stopped,   \* ServiceRegistry
          events, rejected,   \* EventStore
          produced, position, committed, inHand, loop, signal,
          processed, abandoned, crashes,
          queue, inFlight, finished, attempts, handling,
          handled, handledOnce, running,   \* MessageConsumers
          directory, idCounter, rpc, readers, writer, newID,
          streamed, moment,   \* UserService
          users, tasks, issued, expired, stage, who, draft,   \* Accounts
          total, active, buckets, sum, count, place, reader, page,
          took,   \* Metrics
          input, passed, status, process,   \* HTTPServer
          userIDs, serial, orders, call, userID, result   \* OrderTransaction

CB == INSTANCE CircuitBreaker
GS == INSTANCE GracefulShutdown
TS == INSTANCE TCPServer
SR == INSTANCE ServiceRegistry WITH
        IDs <- Instances, MaxTime <- Intervals, now <- clock
ES == INSTANCE EventStore
MQ == INSTANCE MessageConsumers
US == INSTANCE UserService WITH
        MaxUsers <- MaxCreated, users <- directory, seen <- moment
AC == INSTANCE Accounts
MT == INSTANCE Metrics WITH Handlers <- Routes
HS == INSTANCE HTTPServer WITH Requests <- WebRequests, stage <- passed
OT == INSTANCE OrderTransaction

ASSUME ServicesAssumption == /\ MaxInFlight \in Nat /\ MaxAttempts \in Nat
                             /\ Timeout \in Nat
                             /\ Amounts \subseteq Nat /\ IsFiniteSet(Routes)
                             /\ Bounds \subseteq Nat /\ Durations \subseteq Nat
                             /\ CB!BreakerAssumption

breakerVars == <<state, failures, successes, elapsed, pc, seen, up, streak>>
shutdownVars == <<at, buffer, flushed, phase, inTime, drained, waitedFor,
    dbOpen>>
tcpVars == <<signalled, stopper, ctxDone, listening, server, conn, cut, wg>>
registryVars == <<clock, checked, services, beat, handed, stopped>>
eventsVars == <<events, rejected>>
kafkaVars == <<produced, position, committed, inHand, loop, signal,
    processed, abandoned, crashes>>
nsqVars == <<queue, inFlight, finished, attempts, handling, handled,
    handledOnce, running>>
rpcVars == <<directory, idCounter, rpc, readers, writer, newID, streamed,
    moment>>
accountsVars == <<users, tasks, issued, expired, stage, who, draft>>
metricsVars == <<total, active, buckets, sum, count, place, reader, page,
    took>>
httpVars == <<input, passed, status, process>>
ordersVars == <<userIDs, serial, orders, call, userID, result>>

ServicesInit ==
    /\ subject \in {"limiter", "breaker", "shutdown", "tcp", "registry",
                    "events", "kafka", "nsq", "rpc", "accounts", "metrics",
                    "http", "orders"}
    /\ Init /\ GS!Init /\ TS!Init /\ SR!Init /\ ES!Init /\ MQ!KafkaInit /\ MQ!NSQInit
    /\ US!Init /\ AC!Init /\ MT!Init /\ HS!Init /\ OT!Init
    /\ CB!Init /\ (subject # "breaker" => up)

LimiterStep == /\ subject = "limiter" /\ Next
               /\ UNCHANGED <<subject, breakerVars, shutdownVars, tcpVars,
                             registryVars, eventsVars, kafkaVars, nsqVars,
                             rpcVars, accountsVars, metricsVars, httpVars,
                             ordersVars>>
BreakerStep == /\ subject = "breaker" /\ CB!Next
               /\ UNCHANGED <<subject, vars, shutdownVars, tcpVars,
                             registryVars, eventsVars, kafkaVars, nsqVars,
                             rpcVars, accountsVars, metricsVars, httpVars,
                             ordersVars>>
ShutdownStep == /\ subject = "shutdown" /\ GS!Next
                /\ UNCHANGED <<subject, vars, breakerVars, tcpVars,
                              registryVars, eventsVars, kafkaVars, nsqVars,
                              rpcVars, accountsVars, metricsVars, httpVars,
                              ordersVars>>
TcpStep == /\ subject = "tcp" /\ TS!Next
           /\ UNCHANGED <<subject, vars, breakerVars, shutdownVars,
                         registryVars, eventsVars, kafkaVars, nsqVars,
                         rpcVars, accountsVars, metricsVars, httpVars,
                         ordersVars>>
RegistryStep == /\ subject = "registry" /\ SR!Next
                /\ UNCHANGED <<subject, vars, breakerVars, shutdownVars,
                              tcpVars, eventsVars, kafkaVars, nsqVars,
                              rpcVars, accountsVars, metricsVars, httpVars,
                              ordersVars>>
EventsStep == /\ subject = "events" /\ ES!Next
              /\ UNCHANGED <<subject, vars, breakerVars, shutdownVars, tcpVars,
                            registryVars, kafkaVars, nsqVars, rpcVars,
                            accountsVars, metricsVars, httpVars, ordersVars>>
KafkaStep == /\ subject = "kafka" /\ MQ!KafkaNext
             /\ UNCHANGED <<subject, vars, breakerVars, shutdownVars, tcpVars,
                           registryVars, eventsVars, nsqVars, rpcVars,
                           accountsVars, metricsVars, httpVars, ordersVars>>
NsqStep == /\ subject = "nsq" /\ MQ!NSQNext
           /\ UNCHANGED <<subject, vars, breakerVars, shutdownVars, tcpVars,
                         registryVars, eventsVars, kafkaVars, rpcVars,
                         accountsVars, metricsVars, httpVars, ordersVars>>
RpcStep == /\ subject = "rpc" /\ US!Next
           /\ UNCHANGED <<subject, vars, breakerVars, shutdownVars, tcpVars,
                         registryVars, eventsVars, kafkaVars, nsqVars,
                         accountsVars, metricsVars, httpVars, ordersVars>>
AccountsStep == /\ subject = "accounts" /\ AC!Next
                /\ UNCHANGED <<subject, vars, breakerVars, shutdownVars,
                              tcpVars, registryVars, eventsVars, kafkaVars,
                              nsqVars, rpcVars, metricsVars, httpVars,
                              ordersVars>>
MetricsStep == /\ subject = "metrics" /\ MT!Next
               /\ UNCHANGED <<subject, vars, breakerVars, shutdownVars,
                             tcpVars, registryVars, eventsVars, kafkaVars,
                             nsqVars, rpcVars, accountsVars, httpVars,
                             ordersVars>>
HttpStep == /\ subject = "http" /\ HS!Next
            /\ UNCHANGED <<subject, vars, breakerVars, shutdownVars, tcpVars,
                          registryVars, eventsVars, kafkaVars, nsqVars,
                          rpcVars, accountsVars, metricsVars, ordersVars>>
OrdersStep == /\ subject = "orders" /\ OT!Next
              /\ UNCHANGED <<subject, vars, breakerVars, shutdownVars, tcpVars,
                            registryVars, eventsVars, kafkaVars, nsqVars,
                            rpcVars, accountsVars, metricsVars, httpVars>>

ServicesNext == \/ LimiterStep \/ BreakerStep \/ ShutdownStep \/ TcpStep
                \/ RegistryStep \/ EventsStep \/ KafkaStep \/ NsqStep
                \/ RpcStep \/ AccountsStep \/ MetricsStep \/ HttpStep
                \/ OrdersStep

allVars == <<subject, vars, breakerVars, shutdownVars, tcpVars, registryVars,
             eventsVars, kafkaVars, nsqVars, rpcVars, accountsVars,
             metricsVars, httpVars, ordersVars>>

(* Goroutines that can move are eventually scheduled, and I/O of a connection *)
(* past its deadline returns; no signal and no timeout need ever come, but a  *)
(* wait with a timeout ends.                                                  *)
ServicesFairness ==
    /\ WF_shutdownVars(subject = "shutdown" /\ GS!MainMoves)
    /\ WF_tcpVars(subject = "tcp" /\ ~listening /\ TS!AcceptFails)
    /\ WF_tcpVars(subject = "tcp" /\ (TS!LookAtError \/ TS!Goodbye))
    /\ WF_tcpVars(subject = "tcp" /\ (TS!Cancel \/ TS!CloseListener))
    /\ \A c \in Conns : /\ WF_tcpVars(subject = "tcp" /\ TS!Cut(c))
                        /\ WF_tcpVars(subject = "tcp" /\ TS!Handle(c))
    /\ WF_httpVars(subject = "http" /\ HS!Shutdown)
    /\ \A c \in Calls : WF_rpcVars(subject = "rpc" /\ US!Serve(c))

ServicesSpec == ServicesInit /\ [][ServicesNext]_allVars /\ ServicesFairness

-----------------------------------------------------------------------------
(* See CircuitBreaker: under one caller it is the documented protocol.        *)
FollowsProtocol == CB!FollowsProtocol

(* See GracefulShutdown and HTTPServer: three requests, or two of any kind, at *)
(* any moment of the shutdown.                                                *)
NothingLostInShutdown == GS!NothingLostInShutdown /\ HS!AnswersWhatItTook

(* See TCPServer: two connections.                                            *)
GoodbyeIsTrue == TS!GoodbyeIsTrue

(* See ServiceRegistry: two entries, of one or two IDs and names.             *)
HealthIsRecent == SR!HealthIsRecent

(* See EventStore: every log of up to five events over two accounts.          *)
ReplaysAtEveryVersion == ES!ReplaysAtEveryVersion

(* See EventStore: the commands are those of a book of accounts.              *)
IsLedger == ES!IsLedger

(* See MessageConsumers: stops, crashes, restarts and late                    *)
(* answers, with one message that cannot be read.                             *)
DeliveriesAccountedFor == MQ!LosesOnlyTheOneInHand /\ MQ!FinishedMeansHandled

(* See MessageConsumers: what the header of the Kafka consumer promises.      *)
AtLeastOnce == MQ!AtLeastOnce

(* See UserService: three RPCs at a time.                                     *)
ListsOneMoment == US!ListsOneMoment

(* See Accounts and OrderTransaction: two clients with one e-mail, two runs   *)
(* of one program, a database that may fail.                                  *)
AccountsHangTogether == AC!AccountsHangTogether /\ OT!OrdersAreTransactional

(* See Metrics: two handlers and a reader of the page.                        *)
MetricsAgree == MT!MetricsAgree

(* See Metrics: "Expose returns metrics in Prometheus text exposition         *)
(* format".                                                                   *)
BucketsWithinCount == MT!BucketsWithinCount

(* A signal ends the TCP server, whatever its connections do, the graceful    *)
(* shutdown and the HTTP server, whatever their requests do; and a CreateUser *)
(* that waits for the streams of ListUsers gets its turn.                     *)
ServicesStop == /\ signalled ~> server = "returned"
                /\ process = "shutting" ~> HS!Exited
                /\ phase = "shutdown" ~> phase = "exited"
                /\ \A c \in Calls : rpc[c] = "create" ~> rpc[c] = "idle"
=============================================================================
