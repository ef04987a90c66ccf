\* The ring's goroutines, the edge list, the capacities tried and the
\* WebSocket connection come to an end; the other structures go on.
CHECK_DEADLOCK FALSE
SPECIFICATION StructuresSpec
CONSTANTS
    Capacity = 2
    Wrap = 8
    Total = 11
    Keys = {k1, k2, k3}
    Values = {v1, v2}
    None = None
    Capacities = {0, 1, 2}
    Letters = {1, 2}
    MaxLength = 2
    Items = {1, 2, 3, 4, 5}
    MaxLen = 5
    Nodes = {1, 2, 3, 4}
    Weights = {1, 2}
    Sizes = {1, 2, 3, 4, 5}
    Numbers = {0, 2, 5}
    MapKeys = {1, 2, 3}
    MapValues = {v1}
    Shards = 2
    Hashes = {2, 5}
    Width = 8
    Lengths = {0, 1, 4, 5, 6, 7}
    Bytes = {1}
    MaxSent = 2
INVARIANT KeysIsASnapshot
