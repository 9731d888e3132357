------------------------------- MODULE Greedy -------------------------------
(***************************************************************************)
(* computeReimbursements of lib/greedy.ts: who pays whom so that the       *)
(* balances of a project come back to zero.  One step is one iteration of  *)
(* its while loop.                                                         *)
(*                                                                         *)
(* Amounts are integers, in cents: computeProjectBalances rounds every     *)
(* balance to two decimals, and the loop rounds after every operation, so  *)
(* |x| >= 0.01 reads x # 0.  The array `state' is the set `open': the loop *)
(* only looks at the two ends of the sorted array, and removes no other    *)
(* element.  Which of several equal balances comes first is left open.     *)
(***************************************************************************)
EXTENDS Integers, Sequences, FiniteSets, FiniteSetsExt, SequencesExt

CONSTANTS People,       \* participants of a project
          Inputs,       \* the balances the algorithm is run on
          MaxPayments   \* bound: payments beyond this many are not recorded

ASSUME InputsAssumption == /\ IsFiniteSet(People)
                           /\ Inputs \subseteq [People -> Int]
                           /\ MaxPayments \in Nat

VARIABLES given,      \* the parameter `balances'
          balance,    \* amount of the copies in `state'
          open,       \* the participants still in `state'
          payments    \* reimbursements

vars == <<given, balance, open, payments>>

Unsettled(b) == {p \in People : b[p] # 0}

Init == /\ given \in Inputs
        /\ balance = given
        /\ open = Unsettled(given)
        /\ payments = <<>>

\* The first and the last element once `state' is sorted in descending order.
Creditor(c) == c \in open /\ \A p \in open : balance[p] <= balance[c]
Debtor(d)   == d \in open /\ \A p \in open : balance[d] <= balance[p]

Abs(x) == IF x < 0 THEN -x ELSE x

\* Faulty variant: the debtor pays all it owes, whatever the creditor is due.
WholeDebt(c, d) == Abs(balance[d])

\* Neither side is ever overpaid.
Amount(c, d) == IF balance[c] < Abs(balance[d]) THEN balance[c] ELSE Abs(balance[d])

\* Faulty variant: from and to are swapped.
RecordSwapped(from, to, amount) ==
    IF Len(payments) = MaxPayments THEN payments
    ELSE Append(payments, [from |-> to, to |-> from, amount |-> amount])

Record(from, to, amount) ==
    IF Len(payments) = MaxPayments THEN payments
    ELSE Append(payments, [from |-> from, to |-> to, amount |-> amount])

\* Faulty variant: a creditor who is paid back stays in `state'.
ReimburseKeepingCreditor(c, d) ==
    /\ c # d
    /\ Creditor(c)
    /\ Debtor(d)
    /\ LET amount == Amount(c, d) IN
       /\ balance' = [balance EXCEPT ![c] = @ - amount, ![d] = @ + amount]
       /\ open' = open \ {p \in {d} : balance'[p] = 0}
       /\ payments' = Record(d, c, amount)
    /\ UNCHANGED given

\* Faulty variant: the loop stops when two participants are left.
ReimburseAboveTwo(c, d) ==
    /\ Cardinality(open) > 2
    /\ Creditor(c)
    /\ Debtor(d)
    /\ LET amount == Amount(c, d) IN
       /\ balance' = [balance EXCEPT ![c] = @ - amount, ![d] = @ + amount]
       /\ open' = open \ {p \in {c, d} : balance'[p] = 0}
       /\ payments' = Record(d, c, amount)
    /\ UNCHANGED given

\* Faulty variant: the creditor is any that is due something, as if `state' were
\* sorted once and not at each iteration.
ReimburseUnsorted(c, d) ==
    /\ c # d
    /\ c \in open /\ balance[c] > 0
    /\ Debtor(d)
    /\ LET amount == Amount(c, d) IN
       /\ balance' = [balance EXCEPT ![c] = @ - amount, ![d] = @ + amount]
       /\ open' = open \ {p \in {c, d} : balance'[p] = 0}
       /\ payments' = Record(d, c, amount)
    /\ UNCHANGED given

Reimburse(c, d) ==
    /\ c # d
    /\ Creditor(c)
    /\ Debtor(d)
    /\ LET amount == Amount(c, d) IN
       /\ balance' = [balance EXCEPT ![c] = @ - amount, ![d] = @ + amount]
       /\ open' = open \ {p \in {c, d} : balance'[p] = 0}
       /\ payments' = Record(d, c, amount)
    /\ UNCHANGED given

Next == \E c, d \in People : Reimburse(c, d)

Spec == Init /\ [][Next]_vars

\* The loop is synchronous code: nothing stops it before it is done.
FairSpec == Spec /\ WF_vars(Next)

-----------------------------------------------------------------------------
(* Properties *)

Done == Cardinality(open) < 2

Total(b, S) == SumFunctionOnSet(b, S)

\* "This ensures we never overpay either side": no creditor turns into a debtor
\* or the reverse, and nobody's balance ever moves away from zero.
NeverOverpaid ==
    \A p \in People : \/ 0 <= balance[p] /\ balance[p] <= given[p]
                      \/ given[p] <= balance[p] /\ balance[p] <= 0

\* "Guaranteed max n-1 transactions", n counting the participants not at zero.
AtMostNMinusOne ==
    payments # <<>> => Len(payments) <= Cardinality(Unsettled(given)) - 1

\* The loop ends, and then every balance is zero: all debts are settled.
SettlesEverything == <>[](Done /\ Unsettled(balance) = {})

(* A reference for the number of transactions.  A group whose balances sum *)
(* to zero is settled among its n members with n-1 payments, so splitting  *)
(* the participants into as many such groups as possible saves a payment   *)
(* per group.                                                              *)

ZeroSumGroups(b) == {S \in SUBSET Unsettled(b) : S # {} /\ Total(b, S) = 0}

\* Sets of disjoint zero-sum groups; those left over form groups with another.
GroupingsOf(b) ==
    {P \in SUBSET ZeroSumGroups(b) : \A S, T \in P : S # T => S \intersect T = {}}

FewestPayments(b) ==
    Cardinality(Unsettled(b)) - Max({Cardinality(P) : P \in GroupingsOf(b)})

\* "The minimum number of transactions to settle all debts": the greedy choice
\* reaches it as long as no more than four participants are unsettled.
MinimalUpToFour ==
    (Done /\ Cardinality(Unsettled(given)) <= 4) => Len(payments) <= FewestPayments(given)
=============================================================================
