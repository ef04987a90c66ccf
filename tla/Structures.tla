------------------------------ MODULE Structures ------------------------------
(* The data structures of src/09_dsa and the frame codec of the WebSocket     *)
(* server.  They are programs of their own: subject picks one of them in the  *)
(* initial state and only that one moves, so that their state spaces add up.  *)
(* The ring buffer is extended, the others are instances.                     *)
EXTENDS RingBuffer, Sequences, SequencesExt

CONSTANTS Keys, Values, None, Capacities,   \* LRUCache
          Letters, MaxLength,               \* Trie
          Items, MaxLen,                    \* PriorityQueue
          Nodes, Weights,                   \* UnionFind and kruskalMST
          Sizes, Numbers,                  \* SegmentTree
          MapKeys, MapValues, Shards, Hashes,  \* ShardedMap
          Lengths, Bytes, MaxSent           \* WebSocket

ASSUME StructuresAssumption ==
    /\ Capacities \subseteq Nat /\ IsFiniteSet(Keys)
    /\ Shards \in Nat \ {0} /\ Hashes \subseteq Nat /\ IsFiniteSet(MapKeys)
    /\ Lengths \subseteq Nat /\ \A len \in Lengths : len < 65536
    /\ Bytes \subseteq {0, 1} /\ Items \subseteq Int /\ MaxLength \in Nat
    /\ Sizes \subseteq Nat \ {0} /\ Numbers \subseteq Int

VARIABLES subject,
          capacity, items, order, entry, reply,     \* LRUCache
          nodes, ends, size, existed,               \* Trie
          heap, max, served,                        \* PriorityQueue
          uf, sets, joined, graph,                  \* UnionFind
          n, tree, arr,                             \* SegmentTree
          hashFn, shards, pos, keys, total, moments,  \* ShardedMap
          requested,        \* the capacity that nextPowerOf2 is asked for
          inbound, outbound, closed, handling, sent, msgs   \* WebSocket

Priority(v) == v \div 2      \* 2 and 3 tie

LRU == INSTANCE LRUCache
TR  == INSTANCE Trie
PQ  == INSTANCE PriorityQueue
UF  == INSTANCE UnionFind
ST  == INSTANCE SegmentTree
SM  == INSTANCE ShardedMap WITH Keys <- MapKeys, Values <- MapValues
WS  == INSTANCE WebSocket

Edges == {[from |-> p[1], to |-> p[2], weight |-> w] :
             p \in {q \in Nodes \X Nodes : q[1] < q[2]}, w \in Weights}

lruVars == <<capacity, items, order, entry, reply>>
trieVars == <<nodes, ends, size, existed>>
heapVars == <<heap, max, served>>
ufVars == <<uf, sets, joined>>
segVars == <<n, tree, arr>>
mapVars == <<hashFn, shards, pos, keys, total, moments>>
wsVars == <<inbound, outbound, closed, handling, sent, msgs>>

Request == requested < 2^Width - 1 /\ requested' = requested + 1

AddEdge == Len(graph) < 4 /\ \E e \in Edges : graph' = Append(graph, e)

StructuresInit ==
    /\ subject \in {"ring", "lru", "trie", "heap", "unionfind",
                    "kruskal", "segments", "sharded", "power", "websocket"}
    /\ Init /\ TR!Init /\ UF!Init /\ graph = <<>> /\ SM!Init /\ requested = 0 /\ WS!Init
    /\ LRU!Init /\ (subject # "lru" => capacity = 0)
    /\ PQ!Init /\ (subject # "heap" => ~max)
    /\ ST!Init /\ (subject # "segments" => n = 1 /\ arr[0] = 0)
    /\ subject # "sharded" => \A k \in MapKeys : hashFn[k] = CHOOSE h \in Hashes : TRUE

RingStep == /\ subject = "ring" /\ Next
            /\ UNCHANGED <<subject, lruVars, trieVars, heapVars, ufVars, graph,
                           segVars, mapVars, requested, wsVars>>
LruStep == /\ subject = "lru" /\ LRU!Next
           /\ UNCHANGED <<subject, vars, trieVars, heapVars, ufVars, graph,
                          segVars, mapVars, requested, wsVars>>
TrieStep == /\ subject = "trie" /\ TR!Next
            /\ UNCHANGED <<subject, vars, lruVars, heapVars, ufVars, graph,
                           segVars, mapVars, requested, wsVars>>
HeapStep == /\ subject = "heap" /\ PQ!Next
            /\ UNCHANGED <<subject, vars, lruVars, trieVars, ufVars, graph,
                           segVars, mapVars, requested, wsVars>>
UnionfindStep == /\ subject = "unionfind" /\ UF!Next
                 /\ UNCHANGED <<subject, vars, lruVars, trieVars, heapVars, graph,
                                segVars, mapVars, requested, wsVars>>
KruskalStep == /\ subject = "kruskal" /\ AddEdge
               /\ UNCHANGED <<subject, vars, lruVars, trieVars, heapVars, ufVars,
                              segVars, mapVars, requested, wsVars>>
SegmentsStep == /\ subject = "segments" /\ ST!Next
                /\ UNCHANGED <<subject, vars, lruVars, trieVars, heapVars, ufVars,
                               graph, mapVars, requested, wsVars>>
ShardedStep == /\ subject = "sharded" /\ SM!Next
               /\ UNCHANGED <<subject, vars, lruVars, trieVars, heapVars, ufVars,
                              graph, segVars, requested, wsVars>>
PowerStep == /\ subject = "power" /\ Request
             /\ UNCHANGED <<subject, vars, lruVars, trieVars, heapVars, ufVars,
                            graph, segVars, mapVars, wsVars>>
WebsocketStep == /\ subject = "websocket" /\ WS!Next
                 /\ UNCHANGED <<subject, vars, lruVars, trieVars, heapVars, ufVars,
                                graph, segVars, mapVars, requested>>

StructuresNext == \/ RingStep \/ LruStep \/ TrieStep
                  \/ HeapStep \/ UnionfindStep \/ KruskalStep
                  \/ SegmentsStep \/ ShardedStep \/ PowerStep
                  \/ WebsocketStep

allVars == <<subject, vars, lruVars, trieVars, heapVars, ufVars,
             graph, segVars, mapVars, requested, wsVars>>

StructuresSpec == /\ StructuresInit /\ [][StructuresNext]_allVars
                  /\ WF_vars(subject = "ring" /\ Push) /\ WF_vars(subject = "ring" /\ Pop)

-----------------------------------------------------------------------------
(* The ring buffer, capacity 2, counters modulo 8: see RingBuffer.           *)
RingDelivers == subject = "ring" ~> consumed = Total

(* See LRUCache: the cache is a recency list, for capacities 0, 1 and 2.     *)
CacheIsRecencyList == LRU!IsRecencyList

(* See Trie: words of up to two letters over two letters.                    *)
TrieHoldsItsWords == subject = "trie" => TR!TrieHoldsItsWords

(* See Trie, UnionFind and SegmentTree: through any calls each holds what the *)
(* calls put into it, here words, partitions of four elements and arrays of   *)
(* one to five numbers.                                                       *)
TreesHoldTheirContents == /\ TrieHoldsItsWords
                          /\ UF!RepresentsPartition
                          /\ ST!SumsTheArray

(* See Trie: what the comment on Delete promises.                            *)
DeleteReportsExistence == TR!DeleteReportsExistence

(* See PriorityQueue: both orders, ties included.                            *)
HeapServesInOrder == PQ!ServesInOrder

(* See UnionFind and RingBuffer: what they return is what the definition of a *)
(* minimum spanning forest and of the next power of two says, for any four    *)
(* edges of two weights over four nodes and any 8-bit word.                   *)
AnswersByDefinition == UF!KruskalIsMinimal(Nodes, graph) /\ RoundsUp(requested)

(* See ShardedMap: three keys in two shards.                                 *)
WalkIsRegular == SM!WalkIsRegular

(* See ShardedMap: what the comment on Keys promises.                        *)
KeysIsASnapshot == SM!KeysIsASnapshot

(* See WebSocket: two messages of any length around the limit.               *)
StaysInStep == WS!StaysInStep
=============================================================================
