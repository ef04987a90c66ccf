------------------------------- MODULE EventBus -------------------------------
(***************************************************************************)
(* src/05_patterns/06_pub_sub/main.go: the generic EventBus between        *)
(* publishing goroutines and subscriber loops.  Publish runs under the     *)
(* read lock, so several run at once and interleave their sends; Subscribe,*)
(* Unsubscribe and Close take the write lock and run when no Publish does. *)
(* A subscriber has one channel, made by its Subscribe.                    *)
(***************************************************************************)
EXTENDS Naturals, Sequences, SequencesExt

CONSTANTS Publishers, Subscribers, Topics,
          Slow,         \* the subscribers that may stop reading
          BufferSize,   \* capacity of every subscriber's channel
          MaxEvents,    \* bound: events each publisher publishes
          Brief         \* bound: the publishers that publish a single event

ASSUME BusAssumption == /\ Slow \subseteq Subscribers
                        /\ BufferSize \in Nat \ {0} /\ MaxEvents \in Nat

VARIABLES
    subscribers,  \* eb.subscribers: the channels of each topic, in order
    buf,          \* what a subscriber's channel holds
    status,       \* a channel: not made yet, open, or closed
    stopped,      \* the subscriber's range loop has ended
    sent,         \* events each publisher has started to publish
    todo,         \* Publish's loop: channels still to be offered the event
    publishing,   \* a publisher is inside Publish, under the read lock
    owed, got, lost   \* history: per subscriber, the events whose Publish
                      \* found it subscribed, those it received, those dropped

publisher == <<sent, todo, publishing>>
history == <<owed, got, lost>>
busVars == <<subscribers, buf, status, stopped, publisher, history>>

Event(p) == <<p, sent[p]>>

BusInit == /\ subscribers = [t \in Topics |-> <<>>]
           /\ buf = [s \in Subscribers |-> <<>>]
           /\ status = [s \in Subscribers |-> "none"]
           /\ stopped = [s \in Subscribers |-> FALSE]
           /\ sent = [p \in Publishers |-> 0]
           /\ todo = [p \in Publishers |-> <<>>]
           /\ publishing = [p \in Publishers |-> FALSE]
           /\ owed = [s \in Subscribers |-> {}]
           /\ got = owed /\ lost = owed

-----------------------------------------------------------------------------
(* Publish: RLock, one non-blocking send per channel, RUnlock.             *)
RLock(p, t) ==
    /\ ~publishing[p]
    /\ sent[p] < MaxEvents /\ (p \in Brief => sent[p] = 0)
    /\ publishing' = [publishing EXCEPT ![p] = TRUE]
    /\ sent' = [sent EXCEPT ![p] = @ + 1]
    /\ todo' = [todo EXCEPT ![p] = subscribers[t]]
    /\ owed' = [s \in Subscribers |-> IF s \in ToSet(subscribers[t])
                                      THEN owed[s] \cup {<<p, sent[p] + 1>>}
                                      ELSE owed[s]]
    /\ UNCHANGED <<subscribers, buf, status, stopped, got, lost>>

BugBlocksWhenFull(p) ==
    /\ todo[p] # <<>> /\ Len(buf[Head(todo[p])]) < BufferSize
    /\ buf' = [buf EXCEPT ![Head(todo[p])] = Append(@, Event(p))]
    /\ todo' = [todo EXCEPT ![p] = Tail(@)]
    /\ UNCHANGED <<subscribers, status, stopped, sent, publishing, history>>

BugStopsAtSlow(p) ==
    /\ todo[p] # <<>>
    /\ LET s == Head(todo[p]) IN
       IF Len(buf[s]) < BufferSize
       THEN /\ buf' = [buf EXCEPT ![s] = Append(@, Event(p))]
            /\ todo' = [todo EXCEPT ![p] = Tail(@)]
            /\ UNCHANGED lost
       ELSE /\ lost' = [lost EXCEPT ![s] = @ \cup {Event(p)}]
            /\ todo' = [todo EXCEPT ![p] = <<>>]
            /\ UNCHANGED buf
    /\ UNCHANGED <<subscribers, status, stopped, sent, publishing, owed, got>>

BugPrepends(p) ==
    /\ todo[p] # <<>>
    /\ LET s == Head(todo[p]) IN
       IF Len(buf[s]) < BufferSize
       THEN buf' = [buf EXCEPT ![s] = <<Event(p)>> \o @] /\ UNCHANGED lost
       ELSE lost' = [lost EXCEPT ![s] = @ \cup {Event(p)}] /\ UNCHANGED buf
    /\ todo' = [todo EXCEPT ![p] = Tail(@)]
    /\ UNCHANGED <<subscribers, status, stopped, sent, publishing, owed, got>>

BugOneMoreSlot(p) ==
    /\ todo[p] # <<>>
    /\ LET s == Head(todo[p]) IN
       IF Len(buf[s]) <= BufferSize
       THEN buf' = [buf EXCEPT ![s] = Append(@, Event(p))] /\ UNCHANGED lost
       ELSE lost' = [lost EXCEPT ![s] = @ \cup {Event(p)}] /\ UNCHANGED buf
    /\ todo' = [todo EXCEPT ![p] = Tail(@)]
    /\ UNCHANGED <<subscribers, status, stopped, sent, publishing, owed, got>>

Offer(p) ==
    /\ todo[p] # <<>>
    /\ LET s == Head(todo[p]) IN
       IF Len(buf[s]) < BufferSize
       THEN buf' = [buf EXCEPT ![s] = Append(@, Event(p))] /\ UNCHANGED lost
       ELSE lost' = [lost EXCEPT ![s] = @ \cup {Event(p)}] /\ UNCHANGED buf
    /\ todo' = [todo EXCEPT ![p] = Tail(@)]
    /\ UNCHANGED <<subscribers, status, stopped, sent, publishing, owed, got>>

RUnlock(p) == /\ publishing[p] /\ todo[p] = <<>>
              /\ publishing' = [publishing EXCEPT ![p] = FALSE]
              /\ UNCHANGED <<subscribers, buf, status, stopped, sent, todo, history>>

-----------------------------------------------------------------------------
(* The three writers.                                                      *)
BugNoReaders == TRUE

NoReaders == \A p \in Publishers : ~publishing[p]

Subscribe(s, t) ==
    /\ NoReaders /\ status[s] = "none"
    /\ status' = [status EXCEPT ![s] = "open"]
    /\ subscribers' = [subscribers EXCEPT ![t] = Append(@, s)]
    /\ UNCHANGED <<buf, stopped, publisher, history>>

Without(seq, i) == SubSeq(seq, 1, i - 1) \o SubSeq(seq, i + 1, Len(seq))

BugRemovesNeighbour(s, t) ==
    /\ NoReaders
    /\ \E i \in DOMAIN subscribers[t] :
          /\ subscribers[t][i] = s
          /\ subscribers' = [subscribers EXCEPT ![t] = SubSeq(@, 1, i)
                                                         \o SubSeq(@, i + 2, Len(@))]
    /\ status' = [status EXCEPT ![s] = "closed"]
    /\ UNCHANGED <<buf, stopped, publisher, history>>

Unsubscribe(s, t) ==
    /\ NoReaders
    /\ \E i \in DOMAIN subscribers[t] :
          /\ subscribers[t][i] = s
          /\ subscribers' = [subscribers EXCEPT ![t] = Without(@, i)]
    /\ status' = [status EXCEPT ![s] = "closed"]
    /\ UNCHANGED <<buf, stopped, publisher, history>>

Registered == UNION {ToSet(subscribers[t]) : t \in Topics}

BugOnlyForgets == /\ NoReaders
                  /\ subscribers' = [t \in Topics |-> <<>>]
                  /\ UNCHANGED <<buf, status, stopped, publisher, history>>

Close == /\ NoReaders
         /\ status' = [s \in Subscribers |-> IF s \in Registered THEN "closed"
                                             ELSE status[s]]
         /\ subscribers' = [t \in Topics |-> <<>>]
         /\ UNCHANGED <<buf, stopped, publisher, history>>

-----------------------------------------------------------------------------
(* A subscriber's goroutine: for event := range ch.                        *)
Receive(s) == /\ buf[s] # <<>>
              /\ got' = [got EXCEPT ![s] = @ \cup {Head(buf[s])}]
              /\ buf' = [buf EXCEPT ![s] = Tail(@)]
              /\ UNCHANGED <<subscribers, status, stopped, publisher, owed, lost>>

Stop(s) == /\ status[s] = "closed" /\ buf[s] = <<>> /\ ~stopped[s]
           /\ stopped' = [stopped EXCEPT ![s] = TRUE]
           /\ UNCHANGED <<subscribers, buf, status, publisher, history>>

Publish(p) == (\E t \in Topics : RLock(p, t)) \/ Offer(p) \/ RUnlock(p)

BusNext == \/ \E p \in Publishers : Publish(p)
           \/ \E s \in Subscribers, t \in Topics : Subscribe(s, t) \/ Unsubscribe(s, t)
           \/ Close
           \/ \E s \in Subscribers : Receive(s) \/ Stop(s)

BusSpec == BusInit /\ [][BusNext]_busVars

(* A goroutine inside Publish keeps running, as does the loop of every     *)
(* subscriber that is not Slow.                                            *)
BusFairness ==
    /\ \A p \in Publishers : WF_busVars(Offer(p) \/ RUnlock(p))
    /\ \A s \in Subscribers \ Slow : WF_busVars(Receive(s) \/ Stop(s))

FairBusSpec == BusSpec /\ BusFairness
-----------------------------------------------------------------------------
Events == Publishers \X (1..MaxEvents)

BusTypeOK ==
    /\ \A t \in Topics : ToSet(subscribers[t]) \subseteq Subscribers
    /\ \A s \in Subscribers : /\ ToSet(buf[s]) \subseteq Events
                              /\ Len(buf[s]) <= BufferSize
    /\ status \in [Subscribers -> {"none", "open", "closed"}]
    /\ stopped \in [Subscribers -> BOOLEAN]
    /\ sent \in [Publishers -> 0..MaxEvents]
    /\ publishing \in [Publishers -> BOOLEAN]
    /\ {owed, got, lost} \subseteq [Subscribers -> SUBSET Events]

(* The bus and the channels agree: the registered channels are exactly the *)
(* open ones, each registered once.  Otherwise a channel is closed twice,  *)
(* or left open with a subscriber waiting on it for ever.                  *)
RegisteredIffOpen ==
    /\ \A s \in Subscribers : status[s] = "open" <=> s \in Registered
    /\ \A t, u \in Topics : \A i \in DOMAIN subscribers[t], j \in DOMAIN subscribers[u] :
          subscribers[t][i] = subscribers[u][j] => t = u /\ i = j

(* A Publish in the middle of its loop never sends on a closed channel,    *)
(* which would panic, whatever is unsubscribed or closed meanwhile.        *)
NoSendOnClosed ==
    \A p \in Publishers : \A s \in ToSet(todo[p]) : status[s] = "open"

(* All of these, for every reachable state.                                *)
BusInv == BusTypeOK /\ RegisteredIffOpen /\ NoSendOnClosed

Pending(s) == {Event(p) : p \in {q \in Publishers : s \in ToSet(todo[q])}}

(* Every event a subscriber was subscribed for is received once, dropped,  *)
(* buffered or about to be offered: none is lost on the way, in particular *)
(* not those buffered when the channel is closed.                          *)
EventsAccountedFor ==
    \A s \in Subscribers :
        /\ owed[s] = got[s] \cup lost[s] \cup ToSet(buf[s]) \cup Pending(s)
        /\ got[s] \cap ToSet(buf[s]) = {}
        /\ IsInjective(buf[s])
        /\ stopped[s] => owed[s] = got[s] \cup lost[s]

(* A subscriber sees the events of one publisher in the order they were    *)
(* published, although other publishers send in between.                   *)
InPublishOrder ==
    \A s \in Subscribers : \A i \in DOMAIN buf[s] :
        /\ \A j \in 1..(i - 1) : buf[s][j][1] = buf[s][i][1]
                                   => buf[s][j][2] < buf[s][i][2]
        /\ \A e \in got[s] : e[1] = buf[s][i][1] => e[2] < buf[s][i][2]

(* Both: what was published arrives, unless dropped, once and in order.    *)
DeliversWhatIsOwed == EventsAccountedFor /\ InPublishOrder

(* "slow subscribers don't block producers": Publish returns although a    *)
(* subscriber on its list no longer receives.                              *)
PublishReturns == \A p \in Publishers : publishing[p] ~> ~publishing[p]

(* "Close() propagates shutdown to all subscribers": a subscriber that the *)
(* bus no longer knows, because of Close or of Unsubscribe, receives what  *)
(* was buffered for it and ends its loop.                                  *)
ForgottenSubscriberStops ==
    \A s \in Subscribers \ Slow :
        status[s] # "none" /\ s \notin Registered ~> stopped[s] /\ buf[s] = <<>>
=============================================================================
