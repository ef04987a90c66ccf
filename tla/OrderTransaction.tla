--------------------------- MODULE OrderTransaction ---------------------------
(* src/10_distributed/databases/postgres: runs of main, any number at the     *)
(* same time, on one database.  Each creates the same user, or finds it there, *)
(* and adds an order in a transaction.  Every call of the database may fail,  *)
(* or be done and still fail for its caller, and a run may die anywhere.      *)
EXTENDS Naturals, FiniteSets

CONSTANT Runs

VARIABLES
    userIDs,    \* the users table: IDs of rows, which have one e-mail
    serial,     \* the sequence behind users.id
    orders,     \* the orders table, committed: whose run, and user_id
    call,       \* a run's next call: "create", "find", "begin", "exists",
                \* "insert", "commit", "list", "end"
    userID,     \* user.ID in main, 0 for the zero User
    result      \* what CreateOrderWithTransaction returned: "none", "order", "error"

tables == <<userIDs, serial, orders>>
vars == <<tables, call, userID, result>>

Init == /\ userIDs = {} /\ serial = 0 /\ orders = {}
        /\ call = [r \in Runs |-> "create"]
        /\ userID = [r \in Runs |-> 0]
        /\ result = [r \in Runs |-> "none"]

Goes(r, from, to) == /\ call[r] = from
                     /\ call' = [call EXCEPT ![r] = to]

(* Create: the UNIQUE e-mail lets one row in; a refused one uses an ID up.    *)
Create(r) ==
    /\ \/ /\ userIDs = {}
          /\ userIDs' = {serial + 1} /\ serial' = serial + 1
          /\ \/ Goes(r, "create", "begin") /\ userID' = [userID EXCEPT ![r] = serial + 1]
             \/ Goes(r, "create", "find") /\ UNCHANGED userID
       \/ /\ Goes(r, "create", "find")
          /\ serial' \in {serial, serial + 1}
          /\ UNCHANGED <<userIDs, userID>>
    /\ UNCHANGED <<orders, result>>

(* GetByEmail, whose error main drops.                                        *)
GetByEmail(r) == /\ Goes(r, "find", "begin")
                 /\ \E id \in userIDs \union {0} : userID' = [userID EXCEPT ![r] = id]
                 /\ UNCHANGED <<tables, result>>

(* CreateOrderWithTransaction: until the commit, what the transaction inserts *)
(* is nobody else's to see, and the deferred Rollback drops it.               *)
Fails(r, from) == /\ Goes(r, from, "list")
                  /\ result' = [result EXCEPT ![r] = "error"]

Begin(r) == /\ Fails(r, "begin") \/ (Goes(r, "begin", "exists") /\ UNCHANGED result)
            /\ UNCHANGED <<tables, userID>>

CheckUser(r) == /\ \/ Fails(r, "exists")
                   \/ /\ userID[r] \in userIDs
                      /\ Goes(r, "exists", "insert") /\ UNCHANGED result
                /\ UNCHANGED <<tables, userID>>

InsertOrder(r) == /\ \/ Fails(r, "insert")
                     \/ Goes(r, "insert", "commit") /\ UNCHANGED result
                  /\ UNCHANGED <<tables, userID>>

Commit(r) ==
    /\ \/ /\ Fails(r, "commit") /\ UNCHANGED orders
       \/ /\ orders' = orders \union {[run |-> r, user |-> userID[r]]}
          /\ \/ Fails(r, "commit")
             \/ /\ Goes(r, "commit", "list")
                /\ result' = [result EXCEPT ![r] = "order"]
    /\ UNCHANGED <<userIDs, serial, userID>>

List(r) == Goes(r, "list", "end") /\ UNCHANGED <<tables, userID, result>>

(* The server rolls an open transaction back.                                 *)
Die(r) == /\ call[r] # "end" /\ Goes(r, call[r], "end")
          /\ UNCHANGED <<tables, userID, result>>

Next == \E r \in Runs : \/ Create(r) \/ GetByEmail(r) \/ Begin(r) \/ CheckUser(r)
                        \/ InsertOrder(r) \/ Commit(r) \/ List(r) \/ Die(r)

Spec == Init /\ [][Next]_vars
-----------------------------------------------------------------------------
(* However the runs overlap, fail and die, they make one user between them,   *)
(* every order is that user's, and the order a run was told it has is there;  *)
(* one it was not told of can be there only if its Commit reported an error.  *)
OrdersAreTransactional ==
    /\ Cardinality(userIDs) <= 1
    /\ \A o \in orders : o.user \in userIDs
    /\ \A r \in Runs : LET mine == {o \in orders : o.run = r}
                       IN /\ result[r] = "order" => mine # {}
                          /\ mine # {} => result[r] # "none"
                          /\ Cardinality(mine) <= 1
=============================================================================
