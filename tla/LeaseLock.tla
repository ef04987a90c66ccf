------------------------------ MODULE LeaseLock ------------------------------
(***************************************************************************)
(* What a lock with leases and fencing tokens promises its users: at any   *)
(* moment at most one of them owns a key, a key is granted only when no    *)
(* one owns it, and every grant carries a token above all earlier ones.    *)
(* DistributedLock.tla is the code.                                        *)
(***************************************************************************)
EXTENDS Naturals

CONSTANTS Keys, Sessions, NoOwner

VARIABLES owner,   \* owner[k]: the session whose lease on k is running
          issued   \* the highest token granted so far

vars == <<owner, issued>>

Init == owner = [k \in Keys |-> NoOwner] /\ issued = 0

Grant(k, s) == /\ owner[k] = NoOwner
               /\ owner' = [owner EXCEPT ![k] = s]
               /\ issued' = issued + 1

(* Leases end: released, given up in a crash, or run out, several at once. *)
End(K) == /\ owner' = [k \in Keys |-> IF k \in K THEN NoOwner ELSE owner[k]]
          /\ UNCHANGED issued

Next == \/ \E k \in Keys, s \in Sessions : Grant(k, s)
        \/ \E K \in SUBSET Keys : End(K)

Spec == Init /\ [][Next]_vars
=============================================================================
