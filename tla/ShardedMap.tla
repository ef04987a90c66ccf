------------------------------ MODULE ShardedMap ------------------------------
(* src/09_dsa/04_concurrent_map: every operation on a key is one critical    *)
(* section of its shard; Len and Keys lock one shard after the other, with   *)
(* other goroutines' operations in between.                                  *)
EXTENDS Naturals, FiniteSets, Functions

CONSTANTS Keys, Values, Shards,   \* Shards is shardCount
          Hashes    \* what a hash function may return

VARIABLES hashFn,   \* given to NewShardedMap
          shards,   \* the items of each shard, partial functions
          pos,      \* the next shard of the walk; Shards when it is over
          keys,     \* what Keys has collected
          total,    \* what Len has added up (the two walks are one here)
          moments   \* history: the key sets the map had while the walk went on

vars == <<hashFn, shards, pos, keys, total, moments>>

Present == UNION {DOMAIN shards[i] : i \in DOMAIN shards}

Init == /\ hashFn \in [Keys -> Hashes]
        /\ shards = [i \in 0..(Shards - 1) |-> <<>>]
        /\ pos = Shards /\ keys = {} /\ total = 0 /\ moments = {{}}

ShardOf(k) == hashFn[k] % Shards

Witnessed == moments' = IF pos < Shards THEN moments \union {Present'} ELSE moments

Set(k, v) == /\ shards' = [shards EXCEPT ![ShardOf(k)] =
                  [j \in DOMAIN @ \union {k} |-> IF j = k THEN v ELSE @[j]]]
             /\ Witnessed
             /\ UNCHANGED <<hashFn, pos, keys, total>>

Delete(k) == /\ shards' = [shards EXCEPT ![ShardOf(k)] = Restrict(@, DOMAIN @ \ {k})]
             /\ Witnessed
             /\ UNCHANGED <<hashFn, pos, keys, total>>

WalkBegins == /\ pos = Shards
              /\ pos' = 0 /\ keys' = {} /\ total' = 0
              /\ moments' = {Present}
              /\ UNCHANGED <<hashFn, shards>>

BugStopsAtEmpty == /\ pos < Shards
                   /\ pos' = IF shards[pos] = <<>> THEN Shards ELSE pos + 1
                   /\ keys' = keys \union DOMAIN shards[pos]
                   /\ total' = total + Cardinality(DOMAIN shards[pos])
                   /\ UNCHANGED <<hashFn, shards, moments>>

WalkShard == /\ pos < Shards
             /\ pos' = pos + 1
             /\ keys' = keys \union DOMAIN shards[pos]
             /\ total' = total + Cardinality(DOMAIN shards[pos])
             /\ UNCHANGED <<hashFn, shards, moments>>

Next == \/ WalkBegins \/ WalkShard
        \/ \E k \in Keys : Delete(k) \/ \E v \in Values : Set(k, v)

Spec == Init /\ [][Next]_vars
-----------------------------------------------------------------------------
Since == {k \in Keys : \A keySet \in moments : k \in keySet}
During == UNION moments

(* However many writes it overlaps, a walk misses no key that stayed in the  *)
(* map throughout, reports none that was in it at no time of the walk, and   *)
(* counts no key twice (a key lives in one shard).  Without writers it is    *)
(* exact, which is what main prints after wg.Wait.                           *)
WalkIsRegular == pos = Shards => /\ Since \subseteq keys /\ keys \subseteq During
                                 /\ total = Cardinality(keys)

(* What the comment on Keys claims: it is a snapshot, the keys the map had   *)
(* at some moment of the call.  A walk releases each shard before it locks   *)
(* the next, and may return a set of keys the map never had.                 *)
KeysIsASnapshot == pos = Shards => keys \in moments
=============================================================================
