------------------------------ MODULE EventStore ------------------------------
(* src/10_distributed/04_event_sourcing: the append-only log and the command  *)
(* handlers, which reconstruct an account from its events, check it and       *)
(* append.  One goroutine uses the store and no lock guards it: a command,    *)
(* with its one or two appends, is one step.                                  *)
EXTENDS Integers, Sequences

CONSTANTS Accounts, Amounts, MaxEvents   \* MaxEvents bounds the log

VARIABLES events,    \* es.events; the ID of an event is its position
          rejected   \* the last command returned an error

vars == <<events, rejected>>

Init == events = <<>> /\ rejected = FALSE

NoAccount == [balance |-> 0, version |-> 0]

BugApplied(account, e) ==
    [balance |-> CASE e.type = "AccountCreated" -> 0
                   [] e.type \in {"MoneyDeposited", "TransferReceived"} ->
                         account.balance + e.amount
                   [] e.type = "MoneyWithdrawn" -> account.balance - e.amount
                   [] e.type = "TransferSent" -> account.balance,
     version |-> e.version]

(* BankAccount.Apply                                                          *)
Applied(account, e) ==
    [balance |-> CASE e.type = "AccountCreated" -> 0
                   [] e.type \in {"MoneyDeposited", "TransferReceived"} ->
                         account.balance + e.amount
                   [] e.type \in {"MoneyWithdrawn", "TransferSent"} ->
                         account.balance - e.amount,
     version |-> e.version]

(* The account after each prefix of the log.  GetEvents keeps the account's   *)
(* own events, so the others are passed over.                                 *)
Replayed(log, a) ==
    LET after[k \in 0..Len(log)] ==
            IF k = 0 THEN NoAccount
            ELSE IF log[k].account = a THEN Applied(after[k - 1], log[k])
            ELSE after[k - 1]
    IN after

Reconstruct(log, a) == Replayed(log, a)[Len(log)]

Event(log, type, a, m) == [type |-> type, account |-> a, amount |-> m,
                           version |-> IF type = "AccountCreated" THEN 1
                                       ELSE Reconstruct(log, a).version + 1]

CreateAccount(a) ==
    /\ events' = Append(events, Event(events, "AccountCreated", a, 0))
    /\ rejected' = FALSE

Deposit(a, m) ==
    /\ events' = Append(events, Event(events, "MoneyDeposited", a, m))
    /\ rejected' = FALSE

Withdraw(a, m) ==
    LET short == Reconstruct(events, a).balance < m
    IN /\ rejected' = short
       /\ events' = IF short THEN events
                    ELSE Append(events, Event(events, "MoneyWithdrawn", a, m))

BugTransfer(a, b, m) ==
    LET short == Reconstruct(events, a).balance < m
        sent == Append(events, Event(events, "TransferSent", a, m))
    IN /\ rejected' = short
       /\ events' = IF short THEN events
                    ELSE Append(sent, Event(events, "TransferReceived", b, m))

(* The receiver is reconstructed after the sender's event is in the log.      *)
Transfer(a, b, m) ==
    LET short == Reconstruct(events, a).balance < m
        sent == Append(events, Event(events, "TransferSent", a, m))
    IN /\ rejected' = short
       /\ events' = IF short THEN events
                    ELSE Append(sent, Event(sent, "TransferReceived", b, m))

Next == /\ Len(events) < MaxEvents
        /\ \E a \in Accounts :
              \/ CreateAccount(a)
              \/ \E m \in Amounts : \/ Deposit(a, m) \/ Withdraw(a, m)
                                    \/ \E b \in Accounts : Transfer(a, b, m)

Spec == Init /\ [][Next]_vars
-----------------------------------------------------------------------------
(* The replayed log is a ledger: every command changes the reconstructed      *)
(* balances the way the book of accounts allows, transfers to oneself and to   *)
(* an account nobody created included, and no transfer makes or loses money.   *)
balances == [a \in Accounts |-> Reconstruct(events, a).balance]

Moved(e) == CASE e.type = "MoneyDeposited" -> e.amount
              [] e.type = "MoneyWithdrawn" -> 0 - e.amount
              [] OTHER -> 0

cash == LET upTo[k \in 0..Len(events)] ==
                IF k = 0 THEN 0 ELSE upTo[k - 1] + Moved(events[k])
        IN upTo[Len(events)]

Book == INSTANCE Ledger WITH balance <- balances

IsLedger == Book!Spec

(* Event k is the next one of its account behind event j.                     *)
Follows(k, j) ==
    /\ j < k /\ events[j].account = events[k].account
    /\ \A i \in j + 1..k - 1 : events[i].account # events[k].account

(* The log can be replayed to any point in the past and shows no account in   *)
(* the red there, and the versions of an account count its events from the    *)
(* last time it was created, with no gap and no version used twice.           *)
ReplaysAtEveryVersion ==
    /\ \A a \in Accounts, k \in 0..Len(events) : Replayed(events, a)[k].balance >= 0
    /\ \A k \in 1..Len(events) :
          \/ /\ events[k].version = 1
             /\ \/ events[k].type = "AccountCreated"
                \/ \A j \in 1..k - 1 : events[j].account # events[k].account
          \/ /\ events[k].type # "AccountCreated"
             /\ \E j \in 1..k - 1 : /\ Follows(k, j)
                                    /\ events[k].version = events[j].version + 1
=============================================================================
