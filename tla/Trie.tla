--------------------------------- MODULE Trie ---------------------------------
(* src/09_dsa/02_trie: a node is the path that leads to it, the children map *)
(* of a node the nodes one letter longer.  node.word is the node itself.    *)
EXTENDS Naturals, Sequences, SequencesExt

CONSTANTS Letters, MaxLength   \* words are sequences of at most MaxLength

VARIABLES nodes,     \* the nodes reachable from the root
          ends,      \* those with isEnd
          size,      \* t.size
          existed    \* what the last Delete returned, and what it documents

vars == <<nodes, ends, size, existed>>

Words == BoundedSeq(Letters, MaxLength)

Init == nodes = {<<>>} /\ ends = {} /\ size = 0 /\ existed = <<TRUE, TRUE>>

Children(n) == {c \in nodes : c # <<>> /\ Front(c) = n}

Insert(w) == /\ nodes' = nodes \union Prefixes(w)
             /\ ends' = ends \union {w}
             /\ size' = IF w \in ends THEN size ELSE size + 1
             /\ UNCHANGED existed

BugPrunes(w) ==
    LET prunes[d \in 0..Len(w)] ==
          IF d = Len(w) THEN Children(w) = {}
          ELSE prunes[d + 1] /\ Cardinality(Children(SubSeq(w, 1, d))) = 1
    IN prunes

(* What deleteHelper returns at each depth: whether the caller is to delete *)
(* the node there.                                                          *)
Prunes(w) ==
    LET at(d) == SubSeq(w, 1, d)
        prunes[d \in 0..Len(w)] ==
          IF d = Len(w) THEN Children(w) = {}
          ELSE /\ prunes[d + 1]
               /\ at(d) \notin ends /\ Children(at(d)) = {at(d + 1)}
    IN prunes

(* The branch below the deepest node that is still needed goes.  Delete     *)
(* returns what deleteHelper returned for the root.                         *)
Delete(w) ==
    IF w \in ends
    THEN /\ nodes' = nodes \ {SubSeq(w, 1, d) : d \in {e \in 1..Len(w) : Prunes(w)[e]}}
         /\ ends' = ends \ {w}
         /\ size' = size - 1
         /\ existed' = <<Prunes(w)[0], TRUE>>
    ELSE existed' = <<FALSE, FALSE>> /\ UNCHANGED <<nodes, ends, size>>

Search(w) == w \in nodes /\ w \in ends

StartsWith(p) == p \in nodes

(* What collect can make of results when it visits these siblings: it stops  *)
(* at the limit, and the map yields the siblings in any order.               *)
Collect(siblings, limit) ==
    LET collect[at \in (SUBSET nodes) \X Seq(nodes)] ==
          LET results == at[2]
              found(n) == IF n \in ends THEN Append(results, n) ELSE results
              visited(n) == IF Len(results) >= limit THEN {results}
                            ELSE collect[<<Children(n), found(n)>>]
          IN IF at[1] = {} THEN {results}
             ELSE UNION {UNION {collect[<<at[1] \ {n}, r>>] : r \in visited(n)} : n \in at[1]}
    IN collect[<<siblings, <<>>>>]

Autocomplete(p, limit) == IF p \in nodes THEN Collect({p}, limit) ELSE {<<>>}

Next == \E w \in Words : Insert(w) \/ Delete(w)

Spec == Init /\ [][Next]_vars
-----------------------------------------------------------------------------
(* StartsWith "returns true if any word has the given prefix", and only     *)
(* then: Delete leaves no dead branch behind (the root always stays), and   *)
(* takes no live one with it; Size counts the words.                        *)
NoDeadBranches ==
    /\ \A p \in Words \ {<<>>} : StartsWith(p) <=> \E w \in ends : IsPrefix(p, w)
    /\ size = Cardinality({w \in Words : Search(w)}) /\ ends \subseteq nodes

(* Autocomplete "returns all words with the given prefix, up to limit":     *)
(* none twice, and fewer than the limit only if there are no more, in       *)
(* whatever order the children are visited.                                 *)
Completes ==
    \A p \in Words, limit \in 0..3 : \A r \in Autocomplete(p, limit) :
        LET below == {w \in ends : IsPrefix(p, w)}
        IN /\ ToSet(r) \subseteq below /\ Cardinality(ToSet(r)) = Len(r)
           /\ Len(r) = IF Cardinality(below) < limit THEN Cardinality(below) ELSE limit

TrieHoldsItsWords == NoDeadBranches /\ Completes

(* main.go:88 Delete "Returns true if it existed".                          *)
DeleteReportsExistence == existed[1] = existed[2]
=============================================================================
