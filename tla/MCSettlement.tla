---------------------------- MODULE MCSettlement ----------------------------
(* Model checking of Settlement: three people, of whom two are the user, and *)
(* a stranger; two projects, two expenses at a time.                         *)
EXTENDS Settlement, TLC

CONSTANTS p1, p2, p3, p4, o1, o2, j1, j2

Split(a, b, c, d) == (p1 :> a) @@ (p2 :> b) @@ (p3 :> c) @@ (p4 :> d)

\* Expenses of the first project, split in several ways, one of them mostly for a stranger:
\* beside the first split, paid by p2, the loop ends up with 2 and 1.  And one expense of
\* the second project.
FewExpenses ==
    [project : {j1}, payer : {p1, p2},
     shares : {Split(1, 1, 1, 0), Split(0, 0, 1, 0), Split(1, 0, 2, 0)}]
      \union {[project |-> j1, payer |-> p1, shares |-> Split(0, 1, 0, 3)],
              [project |-> j2, payer |-> p2, shares |-> Split(2, 1, 0, 0)]}

Pays(p, q, n) == [project |-> j1, payer |-> p,
                  shares |-> [r \in People |-> IF r = q THEN n ELSE 0]]

\* What each of two people has paid for the other.
CrossedExpenses == {Pays(p1, p2, 3), Pays(p2, p1, 1)}
=============================================================================
