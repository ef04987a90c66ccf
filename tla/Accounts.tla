------------------------------- MODULE Accounts -------------------------------
(* src/08_production/clean_backend: clients that sign up, log in, refresh      *)
(* their tokens and use the protected routes, down through middleware,         *)
(* controller, usecase and repository.  Each call of the database is a step:   *)
(* it may fail, or be done and still fail for the caller (its timeout).        *)
EXTENDS Naturals, Sequences, FiniteSets

CONSTANTS Clients, Emails, Passwords,
          MaxUsers, MaxTasks   \* bounds

VARIABLES
    users,     \* the users collection, in insertion order; a position is an ID
    tasks,     \* the tasks collection: the owners
    issued,    \* the tokens handed out: kind and user ID
    expired,   \* those past their time
    stage,     \* a client's request: "idle", or the step of its handler
    who,       \* the user the handler has identified: an ID, 0 when none
    draft      \* what Signup will insert, with the history of its lookup: the
               \* users there were, and whether it told

store == <<users, tasks>>
tokens == <<issued, expired>>
vars == <<store, tokens, stage, who, draft>>

IDs == 1..Len(users)
Kinds == {"access", "refresh"}
Credentials == [email : Emails, password : Passwords]
NoDraft == [email |-> CHOOSE e \in Emails : TRUE,
            password |-> CHOOSE p \in Passwords : TRUE, count |-> 0, told |-> TRUE]

Init == /\ users = <<>> /\ tasks = <<>> /\ issued = {} /\ expired = {}
        /\ stage = [c \in Clients |-> "idle"]
        /\ who = [c \in Clients |-> 0]
        /\ draft = [c \in Clients |-> NoDraft]

Goes(c, step, id) == /\ stage' = [stage EXCEPT ![c] = step]
                     /\ who' = [who EXCEPT ![c] = id]

(* c.JSON and return, whatever the status, or a panic that gin.Default's       *)
(* recovery answers.                                                           *)
Answers(c) == /\ Goes(c, "idle", 0)
              /\ draft' = [draft EXCEPT ![c] = NoDraft]

(* FindOne on the e-mail gives the first of them.                              *)
ByEmail(e) == {i \in IDs : /\ users[i].email = e
                           /\ \A j \in 1..(i - 1) : users[j].email # e}

(* FindOne on the _id, which is a position here.                               *)
ByID(id) == {id} \intersect IDs

(* Signup: bind, then the lookup.  Any error of it counts as "no such user".   *)
SignupLookup(c, r) ==
    /\ stage[c] = "idle"
    /\ \/ ByEmail(r.email) # {} /\ Answers(c)      \* 409
       \/ \E failed \in BOOLEAN :
             /\ failed \/ ByEmail(r.email) = {}
             /\ Goes(c, "create", 0)
             /\ draft' = [draft EXCEPT ![c] =
                   [email |-> r.email, password |-> r.password,
                    count |-> Len(users), told |-> ~failed]]
    /\ UNCHANGED <<store, tokens>>

BugInsert(c) == /\ users' \in {users, Append(users, draft[c])}
                /\ Goes(c, "tokens", Len(users) + 1)
                /\ UNCHANGED draft

(* InsertOne: no user and an error, a user and an error, or a user.            *)
Insert(c) == \/ /\ users' \in {users, Append(users, draft[c])}
                /\ Answers(c)                        \* 500
             \/ /\ users' = Append(users, draft[c])
                /\ Goes(c, "tokens", Len(users) + 1)
                /\ UNCHANGED draft

SignupCreate(c) == /\ stage[c] = "create" /\ Len(users) < MaxUsers
                   /\ Insert(c)
                   /\ UNCHANGED <<tasks, tokens>>

(* 404 for an unknown e-mail or any error, 401 for another password.           *)
Login(c, r) ==
    /\ stage[c] = "idle"
    /\ \/ Answers(c)
       \/ \E i \in ByEmail(r.email) : /\ users[i].password = r.password
                                      /\ Goes(c, "tokens", i)
                                      /\ UNCHANGED draft
    /\ UNCHANGED <<store, tokens>>

Valid(t, kind) == t \in issued \ expired /\ t.kind = kind

(* ExtractIDFromToken with the secret of the kind wanted, then GetUserByID;    *)
(* 401 if either fails.                                                        *)
Refresh(c, t) ==
    /\ stage[c] = "idle" /\ t \in issued
    /\ \/ Answers(c)
       \/ Valid(t, "refresh") /\ t.id \in ByID(t.id) /\ Goes(c, "tokens", t.id)
          /\ UNCHANGED draft
    /\ UNCHANGED <<store, tokens>>

(* CreateAccessToken and CreateRefreshToken: an error keeps both.  A token is  *)
(* its kind and user, and expired once all of that kind and user are.          *)
IssueTokens(c) ==
    /\ stage[c] = "tokens"
    /\ Answers(c)
    /\ \/ UNCHANGED tokens
       \/ LET new == {[kind |-> k, id |-> who[c]] : k \in Kinds}
          IN issued' = issued \union new /\ expired' = expired \ new
    /\ UNCHANGED store

(* JwtAuthMiddleware parses the token twice, for the signature and the ID; 401 *)
(* if either fails.                                                            *)
Authorize(c, t) ==
    /\ stage[c] = "idle" /\ t \in issued
    /\ \/ Answers(c)
       \/ Valid(t, "access") /\ Goes(c, "extract", t.id) /\ UNCHANGED draft
    /\ UNCHANGED <<store, tokens>>

ExtractID(c) ==
    /\ stage[c] = "extract"
    /\ \/ Answers(c)
       \/ /\ Valid([kind |-> "access", id |-> who[c]], "access")
          /\ \E step \in {"profile", "tasks", "create task"} : Goes(c, step, who[c])
          /\ UNCHANGED draft
    /\ UNCHANGED <<store, tokens>>

(* GetProfileByID: the user, or 500.                                           *)
Profile(c) == /\ stage[c] = "profile"
              /\ Answers(c)
              /\ UNCHANGED <<store, tokens>>

(* FetchByUserID: the user's own tasks, none for a user without any, or 500.   *)
TasksOf(id) == {k \in DOMAIN tasks : tasks[k] = id}

FetchTasks(c) == /\ stage[c] = "tasks"
                 /\ Answers(c)
                 /\ UNCHANGED <<store, tokens>>

(* TaskController.Create: bind fails, or InsertOne as above.                   *)
CreateTask(c) ==
    /\ stage[c] = "create task" /\ Len(tasks) < MaxTasks
    /\ Answers(c)
    /\ tasks' \in {tasks, Append(tasks, who[c])}
    /\ UNCHANGED <<users, tokens>>

Expire(t) == /\ t \in issued \ expired
             /\ expired' = expired \union {t}
             /\ UNCHANGED <<store, issued, stage, who, draft>>

Next == \/ \E c \in Clients :
              \/ \E r \in Credentials : SignupLookup(c, r) \/ Login(c, r)
              \/ \E t \in issued : Refresh(c, t) \/ Authorize(c, t)
              \/ SignupCreate(c) \/ IssueTokens(c) \/ ExtractID(c)
              \/ Profile(c) \/ FetchTasks(c) \/ CreateTask(c)
        \/ \E t \in issued : Expire(t)

Spec == Init /\ [][Next]_vars
-----------------------------------------------------------------------------
(* "Each task belongs to exactly one user", one on record, and so does every   *)
(* token, whatever failed or timed out on the way; a client that holds a       *)
(* user's ID goes on holding one that exists.  Two users have one e-mail only   *)
(* if the second lookup was made before the first was stored, or failed.       *)
AccountsHangTogether ==
    /\ DOMAIN tasks = UNION {TasksOf(id) : id \in IDs}
    /\ \A t \in issued : t.id \in IDs
    /\ \A c \in Clients : stage[c] \notin {"idle", "create"} => ByID(who[c]) # {}
    /\ \A i, j \in IDs : i < j /\ users[i].email = users[j].email =>
          users[j].count < i \/ ~users[j].told
=============================================================================
