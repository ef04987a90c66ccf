------------------------------- MODULE UnionFind -------------------------------
(* src/09_dsa/06_union_find: the two maps and the count, Find with path       *)
(* compression, Union by rank, and Kruskal's algorithm on top.  Elements are *)
(* made before they are used, as in main and kruskalMST.                     *)
EXTENDS Naturals, Sequences, SequencesExt

CONSTANTS Nodes

VARIABLES uf,      \* the structure: parent, rank and count
          sets,    \* history: the partition that the calls so far describe
          joined   \* what the last Union returned, and whether it should

vars == <<uf, sets, joined>>

NewUnionFind == [parent |-> <<>>, rank |-> <<>>, count |-> 0]

Made(u) == DOMAIN u.parent

With(f, x, v) == [y \in DOMAIN f \union {x} |-> IF y = x THEN v ELSE f[y]]

MakeSet(u, x) ==
    IF x \in Made(u) THEN u
    ELSE [parent |-> With(u.parent, x, x), rank |-> With(u.rank, x, 0),
          count |-> u.count + 1]

Path(u, x) ==
    LET path[y \in Made(u)] ==
          IF u.parent[y] = y THEN <<y>> ELSE <<y>> \o path[u.parent[y]]
    IN path[x]

Root(u, x) == Last(Path(u, x))

(* Find: every node on the way now hangs from the root.                      *)
Compressed(u, x) ==
    [u EXCEPT !.parent = [y \in Made(u) |->
        IF y \in ToSet(Path(u, x)) THEN Root(u, x) ELSE u.parent[y]]]

(* Both finds compress; then the root of smaller rank goes under the other.  *)
BugLink(u, a, b) ==
    [u EXCEPT !.parent[a] = b, !.rank[b] = @ + 1, !.count = @ - 1]

Link(u, a, b) ==
    IF u.rank[a] < u.rank[b] THEN [u EXCEPT !.parent[a] = b, !.count = @ - 1]
    ELSE [u EXCEPT !.parent[b] = a, !.count = @ - 1,
                   !.rank[a] = IF u.rank[a] = u.rank[b] THEN @ + 1 ELSE @]

Union(u, x, y) ==
    LET found == Compressed(Compressed(u, x), y)
        a == Root(u, x)
        b == Root(u, y)
    IN IF a = b THEN [uf |-> found, joined |-> FALSE]
       ELSE [uf |-> Link(found, a, b), joined |-> TRUE]

Connected(u, x, y) == Root(u, x) = Root(u, y)

SetOf(x) == CHOOSE s \in sets : x \in s

Init == uf = NewUnionFind /\ sets = {} /\ joined = <<FALSE, FALSE>>

Make(x) == /\ uf' = MakeSet(uf, x)
           /\ sets' = IF \E s \in sets : x \in s THEN sets ELSE sets \union {{x}}
           /\ UNCHANGED joined

Join(x, y) == /\ {x, y} \subseteq Made(uf)
              /\ uf' = Union(uf, x, y).uf
              /\ joined' = <<Union(uf, x, y).joined, SetOf(x) # SetOf(y)>>
              /\ sets' = (sets \ {SetOf(x), SetOf(y)}) \union {SetOf(x) \union SetOf(y)}

(* Connected and Find read, and compress on their way.                       *)
Ask(x) == /\ x \in Made(uf)
          /\ uf' = Compressed(uf, x)
          /\ UNCHANGED <<sets, joined>>

Next == \E x \in Nodes : Make(x) \/ Ask(x) \/ \E y \in Nodes : Join(x, y)

Spec == Init /\ [][Next]_vars

-----------------------------------------------------------------------------
(* kruskalMST.  The insertion sort swaps while strictly smaller, so it is    *)
(* stable: an edge goes behind all those of its weight or less.              *)
Sorted(edges) ==
    LET insert(s, e) ==
          LET at == Cardinality({i \in DOMAIN s : s[i].weight <= e.weight})
          IN InsertAt(s, at + 1, e)
    IN FoldLeft(insert, <<>>, edges)

BugStops(mst, vertices) == Len(mst) >= Cardinality(vertices) - 2

Stops(mst, vertices) == mst # <<>> /\ Len(mst) = Cardinality(vertices) - 1

Kruskal(vertices, edges) ==
    LET take(acc, e) ==
          LET u == Union(acc.uf, e.from, e.to)
          IN IF Stops(acc.mst, vertices) THEN acc
             ELSE [uf |-> u.uf,
                   mst |-> IF u.joined THEN Append(acc.mst, e) ELSE acc.mst,
                   total |-> acc.total + IF u.joined THEN e.weight ELSE 0]
        made == FoldLeft(MakeSet, NewUnionFind, SetToSeq(vertices))
    IN FoldLeft(take, [uf |-> made, mst |-> <<>>, total |-> 0], Sorted(edges))

-----------------------------------------------------------------------------
TwoTo(r) == LET power[k \in Nat] == IF k = 0 THEN 1 ELSE 2 * power[k - 1] IN power[r]

(* Through any sequence of unions and compressions, Connected answers by the *)
(* partition the unions describe, Union returns whether the sets were        *)
(* separate, Count is the number of sets, and a root of rank r has at least  *)
(* 2^r elements under it, on paths no longer than r ("Union by rank keeps    *)
(* trees balanced").                                                         *)
RepresentsPartition ==
    /\ Made(uf) = UNION sets /\ uf.count = Cardinality(sets)
    /\ joined[1] = joined[2]
    /\ \A x, y \in Made(uf) : Connected(uf, x, y) <=> SetOf(x) = SetOf(y)
    /\ \A x \in Made(uf) : LET r == uf.rank[Root(uf, x)]
                           IN Len(Path(uf, x)) <= r + 1 /\ TwoTo(r) <= Cardinality(SetOf(x))

(* What a set of edges connects: merge the blocks that each edge touches.     *)
Blocks(vertices, edges) ==
    LET merge(e, parts) ==
          LET touched == {p \in parts : {e.from, e.to} \cap p # {}}
          IN (parts \ touched) \union {UNION touched}
    IN FoldSet(merge, {{v} : v \in vertices}, edges)

Weight(edges) == FoldSet(LAMBDA e, sum : e.weight + sum, 0, edges)

(* The tree connects whatever the graph connects, none that does weighs less *)
(* (weights are positive), and the total returned is the tree's.             *)
KruskalIsMinimal(vertices, edges) ==
    LET r == Kruskal(vertices, edges)
        all == ToSet(edges)
        mst == ToSet(r.mst)
    IN /\ mst \subseteq all /\ r.total = Weight(mst)
       /\ Blocks(vertices, mst) = Blocks(vertices, all)
       /\ \A other \in SUBSET all :
            Blocks(vertices, other) = Blocks(vertices, all) => r.total <= Weight(other)
=============================================================================
