-------------------------------- MODULE Ledger --------------------------------
(* What an account book promises, with no log: a balance per account that     *)
(* withdrawals and transfers never take below 0, and cash that comes and goes *)
(* with deposits and withdrawals only: a transfer makes and loses none.       *)
EXTENDS Integers

CONSTANTS Accounts, Amounts

VARIABLES balance, cash

Open(a) == balance' = [balance EXCEPT ![a] = 0] /\ UNCHANGED cash

Deposit(a, m) == /\ balance' = [balance EXCEPT ![a] = @ + m]
                 /\ cash' = cash + m

Withdraw(a, m) == /\ balance[a] >= m
                  /\ balance' = [balance EXCEPT ![a] = @ - m]
                  /\ cash' = cash - m

Transfer(a, b, m) == /\ balance[a] >= m /\ a # b
                     /\ balance' = [balance EXCEPT ![a] = @ - m, ![b] = @ + m]
                     /\ UNCHANGED cash

Next == \E a \in Accounts :
           \/ Open(a)
           \/ \E m \in Amounts : \/ Deposit(a, m) \/ Withdraw(a, m)
                                 \/ \E b \in Accounts : Transfer(a, b, m)

Init == balance = [a \in Accounts |-> 0] /\ cash = 0

Spec == Init /\ [][Next]_<<balance, cash>>
=============================================================================
