------------------------------ MODULE UserService ------------------------------
(* src/10_distributed/grpc_service/cmd/server: RPCs on the map of users under  *)
(* its RWMutex.  A waiting writer keeps new readers out, as in Go's RWMutex.   *)
(* ListUsers holds the read lock while it streams, one Send per user.          *)
EXTENDS Naturals, FiniteSets

CONSTANTS Calls, MaxUsers   \* concurrent RPCs; MaxUsers bounds the users created

VARIABLES
    users,      \* the keys of s.users
    idCounter,
    rpc,        \* per RPC: "idle", "create", "store", "get", "list", "blocked"
    readers,    \* holders of the read lock
    writer,     \* holders of the write lock, at most one
    newID,      \* the id CreateUser generated
    streamed,   \* what a ListUsers has sent
    seen        \* history: the users when it took the lock

lock == <<readers, writer>>
vars == <<users, idCounter, rpc, lock, newID, streamed, seen>>

Init == /\ users = {} /\ idCounter = 0
        /\ rpc = [c \in Calls |-> "idle"]
        /\ readers = {} /\ writer = {}
        /\ newID = [c \in Calls |-> 0]
        /\ streamed = [c \in Calls |-> {}] /\ seen = [c \in Calls |-> {}]

To(c, place) == rpc' = [rpc EXCEPT ![c] = place]

Waiting == {c \in Calls : rpc[c] = "create"}

CreateUser(c) == /\ rpc[c] = "idle" /\ idCounter + Cardinality(Waiting) < MaxUsers
                 /\ To(c, "create")
                 /\ UNCHANGED <<users, idCounter, lock, newID, streamed, seen>>

BugLock(c) == /\ rpc[c] = "create"
              /\ writer' = writer \union {c} /\ To(c, "store")
              /\ idCounter' = idCounter + 1
              /\ newID' = [newID EXCEPT ![c] = idCounter + 1]
              /\ UNCHANGED <<users, readers, streamed, seen>>

(* s.mu.Lock() and generateID, which has a lock of its own.                   *)
Lock(c) == /\ rpc[c] = "create" /\ readers = {} /\ writer = {}
           /\ writer' = {c} /\ To(c, "store")
           /\ idCounter' = idCounter + 1
           /\ newID' = [newID EXCEPT ![c] = idCounter + 1]
           /\ UNCHANGED <<users, readers, streamed, seen>>

Store(c) == /\ rpc[c] = "store"
            /\ users' = users \union {newID[c]}
            /\ newID' = [newID EXCEPT ![c] = 0]
            /\ writer' = writer \ {c} /\ To(c, "idle")
            /\ UNCHANGED <<idCounter, readers, streamed, seen>>

RLock(c, place) == /\ rpc[c] = "idle" /\ writer = {} /\ Waiting = {}
                   /\ readers' = readers \union {c} /\ To(c, place)
                   /\ seen' = [seen EXCEPT ![c] = users]
                   /\ UNCHANGED <<users, idCounter, writer, newID, streamed>>

RUnlock(c) == /\ readers' = readers \ {c} /\ To(c, "idle")
              /\ streamed' = [streamed EXCEPT ![c] = {}]
              /\ seen' = [seen EXCEPT ![c] = {}]
              /\ UNCHANGED <<users, idCounter, writer, newID>>

(* GetUser: the user, or codes.NotFound.                                      *)
GetUser(c) == rpc[c] = "get" /\ RUnlock(c)

(* The next user of the range; an error of the stream ends the call.          *)
Send(c) == /\ rpc[c] = "list"
           /\ \E u \in users \ streamed[c] :
                 streamed' = [streamed EXCEPT ![c] = @ \union {u}]
           /\ UNCHANGED <<users, idCounter, rpc, lock, newID, seen>>

ListEnds(c) == rpc[c] = "list" /\ streamed[c] = users /\ RUnlock(c)

StreamBreaks(c) == rpc[c] = "list" /\ streamed[c] # users /\ RUnlock(c)

(* What the server does for an RPC once it can.                               *)
Serve(c) == Lock(c) \/ Store(c) \/ GetUser(c) \/ Send(c) \/ ListEnds(c)

Next == \E c \in Calls : \/ CreateUser(c) \/ Lock(c) \/ Store(c)
                         \/ RLock(c, "get") \/ GetUser(c)
                         \/ RLock(c, "list") \/ Send(c) \/ ListEnds(c) \/ StreamBreaks(c)

Spec == Init /\ [][Next]_vars
-----------------------------------------------------------------------------
(* Overlapping CreateUser calls give out different ids, each of which GetUser *)
(* finds from then on; a list streams the users of one moment, none of them   *)
(* twice, however long the stream takes.                                      *)
ListsOneMoment ==
    /\ \A c \in Calls : rpc[c] = "list" => users = seen[c] /\ streamed[c] \subseteq users
    /\ \A c, d \in Calls : rpc[c] = "store" /\ rpc[d] = "store" => c = d
    /\ users \subseteq 1..idCounter
    /\ \A i \in 1..idCounter : i \in users \/ \E c \in Calls : rpc[c] = "store" /\ newID[c] = i
=============================================================================
