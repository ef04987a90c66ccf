--------------------------- MODULE DistributedLock ---------------------------
(***************************************************************************)
(* src/10_distributed/03_distributed_lock/main.go: the lock manager, its   *)
(* expiry goroutine, and the sessions that use it.  A session that holds a *)
(* token works until it unlocks, however long that takes; it may crash,    *)
(* and nothing tells it that its lease ran out.                            *)
(*                                                                         *)
(* Time is kept as what is left of each lease, in ticks: now.Before(       *)
(* ExpiresAt) is left > 0, now.After(ExpiresAt) is left < 0, and nothing   *)
(* looks further into the past than that.                                  *)
(***************************************************************************)
EXTENDS Integers

CONSTANTS Sessions,   \* clients of the lock manager, each with one lock at most
          Keys,
          Name,       \* Name[s]: the holder string the session passes
          TTLs,       \* leases that are asked for, in ticks
          NoName,     \* holder of an absent entry
          MaxToken    \* bound: Lock grants no token above it

ASSUME LockAssumption ==
    /\ Keys # {}
    /\ TTLs \subseteq Nat
    /\ MaxToken \in Nat
    /\ NoName \notin {Name[s] : s \in Sessions}

VARIABLES
    locks,    \* dl.locks; a key that is not in the map has NoEntry
    nextTok,  \* dl.nextTok
    session,  \* a session: idle, refused, or working under a token
    lease     \* the lease a working session was granted

lockVars == <<locks, nextTok, session, lease>>

NoEntry == [holder |-> NoName, token |-> 0, left |-> -1]

NoLease == [key |-> CHOOSE k \in Keys : TRUE, token |-> 0, left |-> -1]

Present(k) == locks[k].token # 0

BugUnexpired(k) == Present(k) /\ locks[k].left > 1

Unexpired(k) == Present(k) /\ locks[k].left > 0

Working(s) == session[s] = "working"

LockInit == /\ locks = [k \in Keys |-> NoEntry]
            /\ nextTok = 0
            /\ session = [s \in Sessions |-> "idle"]
            /\ lease = [s \in Sessions |-> NoLease]

-----------------------------------------------------------------------------
Refuse(s) == /\ ~Working(s)
             /\ \E k \in Keys : Unexpired(k)
             /\ session' = [session EXCEPT ![s] = "refused"]
             /\ UNCHANGED <<locks, nextTok, lease>>

BugTokenPerEntry(s, k, ttl) ==
    /\ ~Working(s) /\ ~Unexpired(k)
    /\ nextTok < MaxToken
    /\ nextTok' = nextTok + 1
    /\ locks' = [locks EXCEPT ![k] = [holder |-> Name[s], token |-> @.token + 1,
                                      left |-> ttl]]
    /\ lease' = [lease EXCEPT ![s] = [key |-> k, token |-> locks[k].token + 1,
                                      left |-> ttl]]
    /\ session' = [session EXCEPT ![s] = "working"]

BugTokenBeforeIncrement(s, k, ttl) ==
    /\ ~Working(s) /\ ~Unexpired(k)
    /\ nextTok < MaxToken
    /\ nextTok' = nextTok + 1
    /\ locks' = [locks EXCEPT ![k] = [holder |-> Name[s], token |-> nextTok,
                                      left |-> ttl]]
    /\ lease' = [lease EXCEPT ![s] = [key |-> k, token |-> nextTok, left |-> ttl]]
    /\ session' = [session EXCEPT ![s] = "working"]

Grant(s, k, ttl) ==
    /\ ~Working(s) /\ ~Unexpired(k)
    /\ nextTok < MaxToken
    /\ nextTok' = nextTok + 1
    /\ locks' = [locks EXCEPT ![k] = [holder |-> Name[s], token |-> nextTok + 1,
                                      left |-> ttl]]
    /\ lease' = [lease EXCEPT ![s] = [key |-> k, token |-> nextTok + 1,
                                      left |-> ttl]]
    /\ session' = [session EXCEPT ![s] = "working"]

Lock(s) == Refuse(s) \/ \E k \in Keys, ttl \in TTLs : Grant(s, k, ttl)

(* Unlock looks at the holder's name only.  When the entry is gone or      *)
(* belongs to another holder it returns an error and the session goes on.  *)
BugReleasable(s) == Present(lease[s].key)

Releasable(s) == /\ Present(lease[s].key)
                 /\ locks[lease[s].key].holder = Name[s]

Unlock(s) ==
    /\ Working(s)
    /\ \/ Releasable(s) /\ locks' = [locks EXCEPT ![lease[s].key] = NoEntry]
       \/ ~Releasable(s) /\ UNCHANGED locks
    /\ session' = [session EXCEPT ![s] = "idle"]
    /\ lease' = [lease EXCEPT ![s] = NoLease]
    /\ UNCHANGED nextTok

(* The session dies and comes back without its token; its entry stays.     *)
Crash(s) == /\ Working(s)
            /\ session' = [session EXCEPT ![s] = "idle"]
            /\ lease' = [lease EXCEPT ![s] = NoLease]
            /\ UNCHANGED <<locks, nextTok>>

-----------------------------------------------------------------------------
(* One round of expiryLoop.                                                *)
BugStale(k) == Present(k) /\ locks[k].left > 0

Stale(k) == Present(k) /\ locks[k].left < 0

ExpirySweep == /\ \E k \in Keys : Stale(k)
               /\ locks' = [k \in Keys |-> IF Stale(k) THEN NoEntry ELSE locks[k]]
               /\ UNCHANGED <<nextTok, session, lease>>

Older(left) == IF left >= 0 THEN left - 1 ELSE -1

TimePasses == /\ \/ \E k \in Keys : locks[k].left >= 0
                 \/ \E s \in Sessions : lease[s].left >= 0
              /\ locks' = [k \in Keys |-> [locks[k] EXCEPT !.left = Older(@)]]
              /\ lease' = [s \in Sessions |-> [lease[s] EXCEPT !.left = Older(@)]]
              /\ UNCHANGED <<nextTok, session>>

LockNext == \/ \E s \in Sessions : Lock(s) \/ Unlock(s) \/ Crash(s)
            \/ ExpirySweep
            \/ TimePasses

LockSpec == LockInit /\ [][LockNext]_lockVars

(* The ticker fires and time passes; sessions owe nothing.                 *)
FairLockSpec == LockSpec /\ WF_lockVars(ExpirySweep) /\ WF_lockVars(TimePasses)
-----------------------------------------------------------------------------
(* Tokens start at 1 and never exceed the counter; a key is in the map iff *)
(* its entry names a holder.                                               *)
LockTypeOK ==
    /\ nextTok \in 0..MaxToken
    /\ locks \in [Keys -> [holder : {Name[s] : s \in Sessions} \cup {NoName},
                           token : 0..nextTok, left : {-1} \cup Nat]]
    /\ \A k \in Keys : Present(k) <=> locks[k].holder # NoName
    /\ session \in [Sessions -> {"idle", "refused", "working"}]
    /\ lease \in [Sessions -> [key : Keys, token : 0..nextTok,
                               left : {-1} \cup Nat]]

Leased(s) == Working(s) /\ lease[s].left > 0

(* Mutual exclusion with a lease: while its TTL runs, a session that has   *)
(* not crashed or unlocked is the one the manager's map names, whatever    *)
(* stale sessions unlock and however often the sweep ran meanwhile.        *)
LeaseIsRecorded ==
    \A s \in Sessions : Leased(s) =>
        locks[lease[s].key] = [holder |-> Name[s], token |-> lease[s].token,
                               left |-> lease[s].left]

(* "Fencing token": of two sessions that both believe they hold a lock the *)
(* tokens differ, and none is above the token in the map, so a resource    *)
(* that compares tokens can turn away everybody but the newest.            *)
TokensFence ==
    /\ \A s, t \in Sessions : Working(s) /\ Working(t) /\ s # t
                                => lease[s].token # lease[t].token
    /\ \A s \in Sessions : Working(s) /\ Present(lease[s].key)
                                => lease[s].token <= locks[lease[s].key].token

(* All of these, for every reachable state.                                *)
LockInv == LockTypeOK /\ LeaseIsRecorded /\ TokensFence

(* "Fencing token concept to prevent stale lock holders" (main.go:9), "only*)
(* the holder can unlock" (:76): a session that leaves takes no entry away *)
(* but the one it was granted.                                             *)
OnlyOwnLeaseReleased ==
    [][\A s \in Sessions :
        Working(s) /\ session'[s] = "idle" /\ Present(lease[s].key)
            /\ locks'[lease[s].key] = NoEntry
            => locks[lease[s].key].token = lease[s].token]_lockVars

(* "Without it, a crashed process holds the lock forever": whatever grant  *)
(* an entry records, it leaves the map or makes way for another, whatever  *)
(* its holder does.                                                        *)
Recorded(t) == \E k \in Keys : locks[k].token = t

EveryLeaseLapses == \A t \in 1..MaxToken : Recorded(t) ~> ~Recorded(t)

-----------------------------------------------------------------------------
LeasedOn(k) == {s \in Sessions : Leased(s) /\ lease[s].key = k}

Owner == [k \in Keys |-> IF LeasedOn(k) = {} THEN NoName
                         ELSE CHOOSE s \in Sessions : s \in LeasedOn(k)]

Abstract == INSTANCE LeaseLock WITH NoOwner <- NoName,
                                    owner <- Owner, issued <- nextTok

(* The lock manager keeps the promise of LeaseLock when every session      *)
(* passes a holder name of its own.                                        *)
KeepsLeases == Abstract!Spec
=============================================================================
