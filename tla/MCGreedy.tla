------------------------------ MODULE MCGreedy ------------------------------
(* Model checking of Greedy over every vector of small balances, and over  *)
(* the balances of the seeded projects.  The input is taken in descending  *)
(* order, since the loop sorts it first.                                   *)
EXTENDS Greedy, SeedData, TLC

CONSTANTS Size, MaxAmount

Participants == 1..Size

Descending == {b \in [Participants -> -MaxAmount..MaxAmount] :
                  \A p \in 1..(Size - 1) : b[p] >= b[p + 1]}

\* What balances are when the shares of every expense add up to its amount.
ZeroSum == {b \in Descending : MapThenSumSet(LAMBDA p : b[p], Participants) = 0}

\* What the people of a project have paid, less what they owe; those who are not
\* in it are settled.
SeededBalance(proj) ==
    LET Has(p) == p \in DOMAIN proj.people
        Part(e, p) == (IF e.payer = proj.people[p] THEN e.amount ELSE 0) - e.shares[p]
        Net(p) == IF Has(p) THEN FoldSeq(LAMBDA e, sum : sum + Part(e, p), 0, proj.expenses) ELSE 0
    IN  SortSeq([p \in Participants |-> Net(p)], LAMBDA x, y : x > y)

AllInputs == ZeroSum \union {SeededBalance(SeedProjects[j]) : j \in DOMAIN SeedProjects}

\* The comments of the seed say of three projects how many payments the algorithm
\* makes for them: "Greedy -> 2 transactions" for Milan, 3 for the seminar and 3
\* for Brittany ("Greedy complexe").  No other seeded project needs more.
SeedCountsHold ==
    Done => /\ given = SeededBalance(Milan) => Len(payments) = 2
            /\ given \in {SeededBalance(Seminaire), SeededBalance(Bretagne)} => Len(payments) = 3
            /\ \A j \in DOMAIN SeedProjects :
                  given = SeededBalance(SeedProjects[j]) => Len(payments) <= 3
=============================================================================
