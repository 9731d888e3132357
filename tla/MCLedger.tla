------------------------------ MODULE MCLedger ------------------------------
(* Model checking of Ledger. *)
EXTENDS Ledger, TLC

CONSTANTS ann, bob, cat,   \* participants
          dan,             \* a participant of another project
          o1, o2,          \* operations
          r1, r2           \* requests

\* Shares that add up: an expense of 2 for one person, whoever pays, or split between
\* the founders by one of them.
BalancedExpenses ==
    {[payer |-> p, amount |-> 2, shares |-> [q \in {o} |-> 2]] : p, o \in People} \union
    {[payer |-> p, amount |-> 2, shares |-> [q \in Founders |-> 1]] : p \in Founders}

\* Founders, newcomers and strangers are not interchangeable.
Perms == Permutations(Founders) \union Permutations(Ops) \union Permutations(Requests)
=============================================================================
