---------------------------- MODULE MCDeployment ----------------------------
(* Model checking of Deployment, with the beginning of the real script:    *)
(* some people, the first projects and some of their expenses.             *)
EXTENDS Deployment, SeedData, TLC

CONSTANTS r1, r2, NumPeople, NumProjects, NumExpenses

RequestSymmetry == Permutations(Requests)

FirstPeople == SubSeq(SeedPeople, 1, NumPeople)

FirstProjects ==
    [j \in 1..NumProjects |->
        [SeedProjects[j] EXCEPT !.expenses = SubSeq(@, 1, NumExpenses)]]
=============================================================================
