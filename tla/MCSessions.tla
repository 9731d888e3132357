----------------------------- MODULE MCSessions -----------------------------
(* Model checking of Sessions: tokens, tabs and browsers are interchangeable. *)
EXTENDS Sessions, TLC

CONSTANTS c1,           \* browser
          a, b, c,      \* tabs
          t1, t2, t3    \* tokens

Perms == Permutations(Tokens) \union Permutations(Tabs)
=============================================================================
