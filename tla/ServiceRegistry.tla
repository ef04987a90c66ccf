---------------------------- MODULE ServiceRegistry ----------------------------
(* src/10_distributed/01_service_discovery: the registry, its health checker   *)
(* and callers that look services up.  Time passes on its own; the checker    *)
(* comes round at any time, since its ticks can be late or dropped and it      *)
(* waits for the lock like everybody else.                                    *)
EXTENDS Integers, Sequences, FiniteSets

CONSTANTS IDs, Names,    \* instance IDs and service names
          Timeout,       \* in units of time
          MaxEntries, MaxTime   \* bounds

VARIABLES
    now,
    checked,    \* history: when the checker last looked
    services,   \* name -> entries, in the order they were registered
    beat,       \* history: when an ID last registered or sent a heartbeat
    handed,     \* what a caller got from Discover: <<name, position>>, when, and
                \* when the checker had looked last
    stopped     \* healthChecker has returned

vars == <<now, checked, services, beat, handed, stopped>>

Init == /\ now = 0 /\ checked = 0
        /\ services = [n \in Names |-> <<>>]
        /\ beat = [i \in IDs |-> 0]
        /\ handed = {} /\ stopped = FALSE

Present == UNION {{n} \X DOMAIN services[n] : n \in Names}
At(e) == services[e[1]][e[2]]

Register(id, name) ==
    /\ Cardinality(Present) < MaxEntries
    /\ services' = [services EXCEPT ![name] =
                       Append(@, [id |-> id, healthy |-> TRUE, lastSeen |-> now])]
    /\ beat' = [beat EXCEPT ![id] = now]
    /\ UNCHANGED <<now, checked, handed, stopped>>

(* The entries the search of Heartbeat may meet first: any name of the map,   *)
(* but its list from the front.                                               *)
Found(id) == {e \in Present : /\ At(e).id = id
                              /\ \A k \in 1..(e[2] - 1) : services[e[1]][k].id # id}

BugRenew(entry) == [entry EXCEPT !.lastSeen = now]

Renew(entry) == [entry EXCEPT !.lastSeen = now, !.healthy = TRUE]

Heartbeat(id) ==
    \/ /\ \E e \in Found(id) : services' = [services EXCEPT ![e[1]][e[2]] = Renew(@)]
       /\ beat' = [beat EXCEPT ![id] = now]
       /\ UNCHANGED <<now, checked, handed, stopped>>
    \/ Found(id) = {} /\ UNCHANGED vars

BugDiscover(name) ==
    /\ handed' = {<<e, now, checked>> : e \in {f \in Present : f[1] = name}}
    /\ UNCHANGED <<now, checked, services, beat, stopped>>

(* Discover hands out pointers, which the caller goes on using.               *)
Discover(name) ==
    /\ handed' = {<<e, now, checked>> : e \in {f \in Present : f[1] = name /\ At(f).healthy}}
    /\ UNCHANGED <<now, checked, services, beat, stopped>>

BugExpired(entry) == entry.healthy /\ now - entry.lastSeen > Timeout + 1

Expired(entry) == entry.healthy /\ now - entry.lastSeen > Timeout

Checked(list) == [k \in DOMAIN list |->
    IF Expired(list[k]) THEN [list[k] EXCEPT !.healthy = FALSE] ELSE list[k]]

(* ticker.C: one round of the checker, by the time it reads under the lock.   *)
Check == /\ ~stopped
         /\ checked' = now
         /\ services' = [n \in Names |-> Checked(services[n])]
         /\ UNCHANGED <<now, beat, handed, stopped>>

Tick == /\ now < MaxTime
        /\ now' = now + 1
        /\ UNCHANGED <<checked, services, beat, handed, stopped>>

(* The checker sees stop closed; a last round may have come before.           *)
Stop == /\ ~stopped
        /\ stopped' = TRUE
        /\ UNCHANGED <<now, checked, services, beat, handed>>

Next == \/ \E id \in IDs : Heartbeat(id) \/ \E n \in Names : Register(id, n)
        \/ \E n \in Names : Discover(n)
        \/ Check \/ Tick \/ Stop

Spec == Init /\ [][Next]_vars
-----------------------------------------------------------------------------
Twice(id) == \E e, f \in Present : e # f /\ At(e).id = id /\ At(f).id = id

(* An entry is healthy exactly if the checker has not looked since its         *)
(* timeout ran out; one whose ID was registered once goes unhealthy only if   *)
(* no heartbeat of the ID came for longer than that (with two entries of one   *)
(* ID the second starves); and an instance that is handed out had been silent *)
(* for no longer than the timeout and what the checker was late by, however   *)
(* long ago it was handed out and whatever its entry went through since.      *)
HealthIsRecent ==
    /\ \A e \in Present : At(e).healthy <=> checked - At(e).lastSeen <= Timeout
    /\ \A e \in Present : ~At(e).healthy =>
          Twice(At(e).id) \/ checked - beat[At(e).id] > Timeout
    /\ \A h \in handed : h[2] - At(h[1]).lastSeen <= Timeout + (h[2] - h[3])
=============================================================================
