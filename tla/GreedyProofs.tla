---------------------------- MODULE GreedyProofs ----------------------------
(***************************************************************************)
(* What the loop of Greedy does, for every number of people and every      *)
(* balances that sum to zero: it overpays nobody, makes at most one        *)
(* payment less than there are people, and ends with everybody settled.    *)
(* Balances that do not sum to zero are not covered: on them the loop may  *)
(* go on for ever (MCSettlementHang).                                      *)
(***************************************************************************)
EXTENDS Greedy, SumTheorems

\* The shares of every expense add up to its amount, and were read with it.
InputsSumToZero == \A b \in Inputs : Total(b, People) = 0

\* `state' holds those whose copy is not at zero, and the copies sum to zero.
LoopInv == /\ given \in Inputs
           /\ balance \in [People -> Int]
           /\ open = Unsettled(balance)
           /\ Total(balance, People) = 0
           /\ NeverOverpaid

-----------------------------------------------------------------------------
(* One iteration. *)

\* Payment of k by d to c, which brings one of them to zero.
Pays(c, d, k) ==
    /\ c \in open /\ d \in open /\ c # d
    /\ \A p \in open : balance[d] <= balance[p] /\ balance[p] <= balance[c]
    /\ balance[c] > 0 /\ balance[d] < 0
    /\ k \in Int /\ 0 < k /\ k <= balance[c] /\ k <= -balance[d]
    /\ k = balance[c] \/ k = -balance[d]
    /\ balance' = [balance EXCEPT ![c] = @ - k, ![d] = @ + k]
    /\ open' = open \ {p \in {c, d} : balance'[p] = 0}
    /\ payments' = Record(d, c, k)
    /\ given' = given

\* The largest balance is above zero and the smallest below: somebody is due
\* something because the balances sum to zero.
LEMMA LoopPays ==
    ASSUME LoopInv, NEW c \in People, NEW d \in People, Reimburse(c, d)
    PROVE  Pays(c, d, Amount(c, d))
<1> USE DEF LoopInv
<1>1. /\ c \in open /\ d \in open /\ c # d
      /\ \A p \in open : balance[d] <= balance[p] /\ balance[p] <= balance[c]
  BY DEF Reimburse, Creditor, Debtor
<1>2. /\ balance[c] \in Int /\ balance[c] # 0 /\ balance[d] \in Int
      /\ \A p \in People : balance[p] \in Int
  BY <1>1 DEF Unsettled
<1>3. (\E p \in People : balance[p] > 0) /\ (\E p \in People : balance[p] < 0)
  BY <1>2, SumBothSigns, InputsAssumption DEF Total, Sum
<1>4. (\E p \in open : balance[p] > 0) /\ (\E p \in open : balance[p] < 0)
  BY <1>2, <1>3 DEF Unsettled
<1>5. balance[c] > 0 /\ balance[d] < 0
  BY <1>1, <1>2, <1>4 DEF Unsettled
<1>6. /\ Amount(c, d) \in Int /\ 0 < Amount(c, d)
      /\ Amount(c, d) <= balance[c] /\ Amount(c, d) <= -balance[d]
      /\ Amount(c, d) = balance[c] \/ Amount(c, d) = -balance[d]
  BY <1>2, <1>5 DEF Amount, Abs
<1> QED
  BY <1>1, <1>5, <1>6 DEF Pays, Reimburse

\* Everybody else keeps their balance, and those at zero leave.
LEMMA PaymentMoves ==
    ASSUME LoopInv, NEW c \in People, NEW d \in People, NEW k, Pays(c, d, k)
    PROVE  /\ balance' \in [People -> Int]
           /\ balance'[c] = balance[c] - k /\ balance'[d] = balance[d] + k
           /\ \A p \in People : p # c /\ p # d => balance'[p] = balance[p]
           /\ open' = Unsettled(balance')
BY DEF LoopInv, Pays, Unsettled

LEMMA LoopStep ==
    ASSUME LoopInv, [Next]_vars
    PROVE  LoopInv'
<1>1. CASE UNCHANGED vars
  BY <1>1 DEF LoopInv, vars, NeverOverpaid
<1>2. ASSUME NEW c \in People, NEW d \in People, Reimburse(c, d)
      PROVE  LoopInv'
  <2> DEFINE k == Amount(c, d)
  <2>1. Pays(c, d, k)
    BY <1>2, LoopPays
  <2> HIDE DEF k
  <2>2. /\ balance' \in [People -> Int]
        /\ balance'[c] = balance[c] - k /\ balance'[d] = balance[d] + k
        /\ \A p \in People : p # c /\ p # d => balance'[p] = balance[p]
        /\ open' = Unsettled(balance')
    BY <2>1, PaymentMoves
  <2>3. given' = given /\ k \in Int /\ c # d
    BY <2>1 DEF Pays
  <2>4. /\ balance[c] \in Int /\ balance[d] \in Int
        /\ \A p \in People : balance[p] \in Int /\ balance'[p] \in Int
    BY <2>2 DEF LoopInv
  <2>5. Total(balance', People) = 0
    <3>1. c # d /\ k \in Int /\ balance \in [People -> Int]
      BY <2>3 DEF LoopInv
    <3>2. Sum(balance', People) = Sum(balance, People)
      BY <2>2, <3>1, InputsAssumption, SumTransfer
    <3> QED
      BY <3>2 DEF LoopInv, Total, Sum
  <2>6. NeverOverpaid'
    <3> SUFFICES ASSUME NEW p \in People
                 PROVE  \/ 0 <= balance'[p] /\ balance'[p] <= given[p]
                        \/ given[p] <= balance'[p] /\ balance'[p] <= 0
      BY <2>3 DEF NeverOverpaid
    <3>1. /\ \/ 0 <= balance[p] /\ balance[p] <= given[p]
             \/ given[p] <= balance[p] /\ balance[p] <= 0
          /\ given[p] \in Int
      BY InputsAssumption DEF LoopInv, NeverOverpaid
    <3> QED
      BY <2>1, <2>2, <2>4, <3>1 DEF Pays
  <2> QED
    BY <2>2, <2>3, <2>5, <2>6 DEF LoopInv
<1> QED
  BY <1>1, <1>2 DEF Next

LEMMA LoopInit == ASSUME InputsSumToZero, Init PROVE LoopInv
BY InputsAssumption DEF InputsSumToZero, Init, LoopInv, NeverOverpaid

\* "This ensures we never overpay either side", whatever the balances and however
\* many people there are.
THEOREM NobodyIsOverpaid ==
    ASSUME InputsSumToZero
    PROVE  Spec => []NeverOverpaid
<1>1. Init => LoopInv
  BY LoopInit
<1>2. LoopInv /\ [Next]_vars => LoopInv'
  BY LoopStep
<1>3. LoopInv => NeverOverpaid
  BY DEF LoopInv
<1> QED
  BY <1>1, <1>2, <1>3, PTL DEF Spec

-----------------------------------------------------------------------------
(* How many iterations there are. *)

Payment == [from : People, to : People, amount : Int]

Unsettled0 == Cardinality(Unsettled(given))

\* Every payment settles somebody, and the last one settles two.
CountInv == /\ payments \in Seq(Payment)
            /\ Len(payments) + Cardinality(open) <= Unsettled0
            /\ open = {} /\ payments # <<>> => Len(payments) < Unsettled0

\* Those who leave `state' are one or both of the two.
LEMMA PaymentSettles ==
    ASSUME LoopInv, NEW c \in People, NEW d \in People, NEW k, Pays(c, d, k)
    PROVE  /\ \/ open' = open \ {c} \/ open' = open \ {d} \/ open' = (open \ {c}) \ {d}
           /\ open' = {} => open' = (open \ {c}) \ {d}
           /\ IsFiniteSet(open) /\ IsFiniteSet(open')
           /\ Cardinality(open') < Cardinality(open)
           /\ open' = (open \ {c}) \ {d} => Cardinality(open') = Cardinality(open) - 2
           /\ Cardinality(open) \in Nat /\ Cardinality(open') \in Nat
<1>1. /\ balance'[c] = balance[c] - k /\ balance'[d] = balance[d] + k
      /\ balance[c] \in Int /\ balance[d] \in Int
  BY PaymentMoves DEF LoopInv
<1>2. balance'[c] = 0 \/ balance'[d] = 0
  BY <1>1 DEF Pays
<1>3. /\ \/ open' = open \ {c} \/ open' = open \ {d} \/ open' = (open \ {c}) \ {d}
      /\ c \in open /\ d \in open /\ c # d
  BY <1>2 DEF Pays
<1>4. IsFiniteSet(open)
  BY InputsAssumption, FS_Subset DEF LoopInv, Unsettled
<1>5. /\ IsFiniteSet(open \ {c}) /\ Cardinality(open \ {c}) = Cardinality(open) - 1
      /\ IsFiniteSet(open \ {d}) /\ Cardinality(open \ {d}) = Cardinality(open) - 1
  BY <1>3, <1>4, FS_RemoveElement
<1>6. /\ IsFiniteSet((open \ {c}) \ {d})
      /\ Cardinality((open \ {c}) \ {d}) = Cardinality(open \ {c}) - 1
  <2>1. d \in open \ {c}
    BY <1>3
  <2> QED
    BY <1>5, <2>1, FS_RemoveElement
<1>7. Cardinality(open) \in Nat /\ IsFiniteSet(open') /\ Cardinality(open') \in Nat
  BY <1>3, <1>4, <1>5, <1>6, FS_CardinalityType
<1>8. open' = {} => open' = (open \ {c}) \ {d}
  BY <1>3
<1>9. CASE open' = open \ {c}
  BY <1>3, <1>4, <1>5, <1>6, <1>7, <1>8, <1>9
<1>10. CASE open' = open \ {d}
  BY <1>3, <1>4, <1>5, <1>6, <1>7, <1>8, <1>10
<1>11. CASE open' = (open \ {c}) \ {d}
  BY <1>3, <1>4, <1>5, <1>6, <1>7, <1>11
<1> QED
  BY <1>3, <1>9, <1>10, <1>11

LEMMA PaymentRecorded ==
    ASSUME CountInv, NEW c \in People, NEW d \in People, NEW k \in Int,
           payments' = Record(d, c, k)
    PROVE  /\ payments' \in Seq(Payment)
           /\ Len(payments') \in Nat /\ Len(payments) \in Nat
           /\ Len(payments) <= Len(payments') /\ Len(payments') <= Len(payments) + 1
<1>1. [from |-> d, to |-> c, amount |-> k] \in Payment
  BY DEF Payment
<1> QED
  BY <1>1 DEF CountInv, Record

LEMMA CountStep ==
    ASSUME LoopInv, CountInv, [Next]_vars
    PROVE  CountInv'
<1>1. CASE UNCHANGED vars
  BY <1>1 DEF vars, CountInv, Unsettled0
<1>2. ASSUME NEW c \in People, NEW d \in People, Reimburse(c, d)
      PROVE  CountInv'
  <2> DEFINE k == Amount(c, d)
  <2>1. Pays(c, d, k)
    BY <1>2, LoopPays
  <2> HIDE DEF k
  <2>2. /\ open' = {} => open' = (open \ {c}) \ {d}
        /\ Cardinality(open') < Cardinality(open)
        /\ open' = (open \ {c}) \ {d} => Cardinality(open') = Cardinality(open) - 2
        /\ Cardinality(open) \in Nat /\ Cardinality(open') \in Nat
    BY <2>1, PaymentSettles
  <2>3. /\ payments' \in Seq(Payment)
        /\ Len(payments') \in Nat /\ Len(payments) \in Nat
        /\ Len(payments') <= Len(payments) + 1
    BY <2>1, PaymentRecorded DEF Pays
  <2>4. Unsettled0' = Unsettled0 /\ Unsettled0 \in Nat
    BY <2>1, InputsAssumption, FS_Subset, FS_CardinalityType DEF Pays, Unsettled0, Unsettled
  <2>5. Len(payments) + Cardinality(open) <= Unsettled0
    BY DEF CountInv
  <2>6. Len(payments') + Cardinality(open') <= Unsettled0'
    BY <2>2, <2>3, <2>4, <2>5
  <2>7. open' = {} => Len(payments') < Unsettled0'
    BY <2>2, <2>3, <2>4, <2>5
  <2> QED
    BY <2>3, <2>6, <2>7 DEF CountInv
<1> QED
  BY <1>1, <1>2 DEF Next

LEMMA CountInit == ASSUME Init PROVE CountInv
<1>1. open = Unsettled(given) /\ payments = <<>> /\ IsFiniteSet(open)
  BY InputsAssumption, FS_Subset DEF Init, Unsettled
<1>2. Cardinality(open) \in Nat
  BY <1>1, FS_CardinalityType
<1> QED
  BY <1>1, <1>2 DEF CountInv, Unsettled0

LEMMA CountFew == ASSUME LoopInv, CountInv PROVE AtMostNMinusOne
<1>1. IsFiniteSet(open) /\ IsFiniteSet(Unsettled(given))
  BY InputsAssumption, FS_Subset DEF LoopInv, Unsettled
<1>2. /\ Cardinality(open) \in Nat /\ Unsettled0 \in Nat
      /\ open # {} => Cardinality(open) # 0
  BY <1>1, FS_CardinalityType, FS_EmptySet DEF Unsettled0
<1>3. Len(payments) \in Nat
  BY DEF CountInv
<1> QED
  BY <1>2, <1>3 DEF CountInv, AtMostNMinusOne, Unsettled0

\* "Guaranteed max n-1 transactions", n counting the participants not at zero.
THEOREM FewerPaymentsThanPeople ==
    ASSUME InputsSumToZero
    PROVE  Spec => []AtMostNMinusOne
<1>1. Init => LoopInv /\ CountInv
  BY LoopInit, CountInit
<1>2. LoopInv /\ CountInv /\ [Next]_vars => LoopInv' /\ CountInv'
  BY LoopStep, CountStep
<1>3. LoopInv /\ CountInv => AtMostNMinusOne
  BY CountFew
<1> QED
  BY <1>1, <1>2, <1>3, PTL DEF Spec

\* When the loop stops, nobody is owed or owes anything; until then there are a
\* debtor and a creditor for another iteration.
StopsWhenSettled ==
    IF Done THEN Unsettled(balance) = {}
    ELSE \E c, d \in open : c # d /\ balance[c] > 0 /\ balance[d] < 0

\* Why the loop ends (under fairness this is SettlesEverything): it stops only
\* when all debts are settled, and each iteration settles somebody for good.
THEOREM LoopClosesIn ==
    ASSUME InputsSumToZero
    PROVE  Spec => /\ []StopsWhenSettled
                   /\ [][open' \subseteq open /\ Cardinality(open') < Cardinality(open)]_vars
<1>1. Init => LoopInv
  BY LoopInit
<1>2. LoopInv /\ [Next]_vars => LoopInv'
  BY LoopStep
<1>3. LoopInv => StopsWhenSettled
  <2> SUFFICES ASSUME LoopInv
               PROVE  StopsWhenSettled
    OBVIOUS
  <2>1. IsFiniteSet(open) /\ Cardinality(open) \in Nat
    BY InputsAssumption, FS_Subset, FS_CardinalityType DEF LoopInv, Unsettled
  <2>2. CASE open = {}
    BY <2>2, FS_EmptySet DEF LoopInv, StopsWhenSettled, Done
  <2>3. CASE open # {}
    <3>1. PICK x \in People : balance[x] # 0
      BY <2>3 DEF LoopInv, Unsettled
    <3>2. (\E p \in People : balance[p] > 0) /\ (\E p \in People : balance[p] < 0)
      BY <3>1, SumBothSigns, InputsAssumption DEF LoopInv, Total, Sum
    <3>3. PICK c \in People, d \in People : balance[c] > 0 /\ balance[d] < 0
      BY <3>2
    <3>4. c \in open /\ d \in open /\ c # d
      BY <3>3 DEF LoopInv, Unsettled
    <3>5. ~Done
      <4> SUFFICES ASSUME Cardinality(open) < 2
                   PROVE  FALSE
        BY DEF Done
      <4>1. Cardinality(open) = 1
        BY <2>1, <2>3, FS_EmptySet
      <4> QED
        BY <2>1, <3>4, <4>1, FS_Singleton
    <3> QED
      BY <3>3, <3>4, <3>5 DEF StopsWhenSettled
  <2> QED
    BY <2>2, <2>3
<1>4. LoopInv /\ [Next]_vars =>
         [open' \subseteq open /\ Cardinality(open') < Cardinality(open)]_vars
  <2> SUFFICES ASSUME LoopInv, NEW c \in People, NEW d \in People, Reimburse(c, d)
               PROVE  open' \subseteq open /\ Cardinality(open') < Cardinality(open)
    BY DEF Next
  <2>1. Pays(c, d, Amount(c, d))
    BY LoopPays
  <2> QED
    BY <2>1, PaymentSettles
<1> QED
  BY <1>1, <1>2, <1>3, <1>4, PTL DEF Spec

-----------------------------------------------------------------------------
(* Few people: the number of payments is the least possible. *)

\* Everybody in S can be given a partner with the opposite balance.
Mirrored(S, b) == \E f \in [S -> S] : \A p \in S : f[f[p]] = p /\ b[f[p]] = -b[p]

\* On such balances every payment settles two people.
MirrorInv ==
    Mirrored(Unsettled(given), given) =>
       Mirrored(open, balance) /\ 2 * Len(payments) + Cardinality(open) <= Unsettled0

\* The largest and the smallest balance are opposite; their partners, if others,
\* become partners of each other.
LEMMA MirrorPays ==
    ASSUME LoopInv, Mirrored(open, balance),
           NEW c \in People, NEW d \in People, NEW k, Pays(c, d, k)
    PROVE  open' = (open \ {c}) \ {d} /\ Mirrored(open', balance')
<1>1. PICK f \in [open -> open] : \A p \in open : f[f[p]] = p /\ balance[f[p]] = -balance[p]
  BY DEF Mirrored
<1>2. /\ c \in open /\ d \in open /\ c # d
      /\ \A p \in open : balance[d] <= balance[p] /\ balance[p] <= balance[c]
      /\ balance[c] > 0 /\ balance[d] < 0 /\ k \in Int
      /\ k = balance[c] \/ k = -balance[d]
  BY DEF Pays
<1>3. \A p \in open : balance[p] \in Int /\ balance[p] # 0
  BY DEF LoopInv, Unsettled
<1>4. balance[d] = -balance[c]
  <2>1. f[c] \in open /\ f[d] \in open
    BY <1>1, <1>2
  <2>2. balance[d] <= -balance[c] /\ -balance[d] <= balance[c]
    BY <1>1, <1>2, <1>3, <2>1
  <2>3. balance[d] <= balance[f[c]] /\ balance[f[c]] = -balance[c]
    BY <1>1, <1>2, <2>1
  <2>4. balance[f[d]] <= balance[c] /\ balance[f[d]] = -balance[d]
    BY <1>1, <1>2, <2>1
  <2> QED
    BY <1>2, <1>3, <2>3, <2>4
<1>5. /\ balance'[c] = balance[c] - k /\ balance'[d] = balance[d] + k
      /\ \A p \in People : p # c /\ p # d => balance'[p] = balance[p]
  BY PaymentMoves
<1>6. balance'[c] = 0 /\ balance'[d] = 0
  BY <1>2, <1>3, <1>4, <1>5
<1>7. open' = (open \ {c}) \ {d}
  BY <1>6 DEF Pays
<1>8. Mirrored(open', balance')
  <2> DEFINE g == [p \in open' |-> IF f[p] = c THEN f[d] ELSE IF f[p] = d THEN f[c] ELSE f[p]]
  <2>1. f[c] # c /\ f[d] # d /\ f[c] \in open /\ f[d] \in open
    BY <1>1, <1>2, <1>3
  <2>2. ASSUME NEW p \in open'
        PROVE  g[p] \in open' /\ g[g[p]] = p /\ balance[g[p]] = -balance[p]
    <3>1. p \in open /\ p # c /\ p # d /\ f[p] \in open /\ f[f[p]] = p
      BY <1>1, <1>7, <2>2
    <3>2. CASE f[p] = c
      <4>1. g[p] = f[d] /\ p = f[c]
        BY <2>2, <3>1, <3>2
      <4>2. f[d] \in open' /\ f[f[d]] = d /\ f[f[c]] = c
        BY <1>1, <1>2, <1>7, <2>1, <3>1, <4>1
      <4>3. g[f[d]] = f[c]
        BY <1>2, <4>2
      <4>4. balance[f[d]] = -balance[d] /\ balance[f[c]] = -balance[c]
        BY <1>1, <1>2
      <4> QED
        BY <1>2, <1>3, <1>4, <4>1, <4>2, <4>3, <4>4
    <3>3. CASE f[p] = d
      <4>1. g[p] = f[c] /\ p = f[d]
        BY <1>2, <2>2, <3>1, <3>3
      <4>2. f[c] \in open' /\ f[f[d]] = d /\ f[f[c]] = c
        BY <1>1, <1>2, <1>7, <2>1, <3>1, <4>1
      <4>3. g[f[c]] = f[d]
        BY <1>2, <4>2
      <4>4. balance[f[d]] = -balance[d] /\ balance[f[c]] = -balance[c]
        BY <1>1, <1>2
      <4> QED
        BY <1>2, <1>3, <1>4, <4>1, <4>2, <4>3, <4>4
    <3>4. CASE f[p] # c /\ f[p] # d
      <4>1. g[p] = f[p] /\ f[p] \in open'
        BY <1>7, <2>2, <3>1, <3>4
      <4>2. g[f[p]] = p
        BY <3>1, <4>1
      <4> QED
        BY <1>1, <3>1, <4>1, <4>2
    <3> QED
      BY <3>2, <3>3, <3>4
  <2>3. g \in [open' -> open']
    BY <2>2
  <2>4. \A p \in open' : balance'[g[p]] = -balance'[p]
    <3>1. \A p \in open' : p \in People /\ p # c /\ p # d
      BY <1>7 DEF LoopInv, Unsettled
    <3> QED
      BY <1>5, <2>2, <3>1
  <2> HIDE DEF g
  <2> QED
    BY <2>2, <2>3, <2>4 DEF Mirrored
<1> QED
  BY <1>7, <1>8

LEMMA MirrorStep ==
    ASSUME LoopInv, CountInv, MirrorInv, [Next]_vars
    PROVE  MirrorInv'
<1>1. CASE UNCHANGED vars
  BY <1>1 DEF vars, MirrorInv, Unsettled0
<1>2. ASSUME NEW c \in People, NEW d \in People, Reimburse(c, d),
             Mirrored(Unsettled(given), given)
      PROVE  Mirrored(open', balance') /\ 2 * Len(payments') + Cardinality(open') <= Unsettled0
  <2> DEFINE k == Amount(c, d)
  <2>1. Pays(c, d, k)
    BY <1>2, LoopPays
  <2> HIDE DEF k
  <2>2. Mirrored(open, balance) /\ 2 * Len(payments) + Cardinality(open) <= Unsettled0
    BY <1>2 DEF MirrorInv
  <2>3. open' = (open \ {c}) \ {d} /\ Mirrored(open', balance')
    BY <2>1, <2>2, MirrorPays
  <2>4. /\ Cardinality(open') = Cardinality(open) - 2
        /\ Cardinality(open) \in Nat
    BY <2>1, <2>3, PaymentSettles
  <2>5. Len(payments') \in Nat /\ Len(payments) \in Nat /\ Len(payments') <= Len(payments) + 1
    BY <2>1, PaymentRecorded DEF Pays
  <2>6. Unsettled0 \in Nat
    BY InputsAssumption, FS_Subset, FS_CardinalityType DEF Unsettled0, Unsettled
  <2> QED
    BY <2>2, <2>3, <2>4, <2>5, <2>6
<1>3. ASSUME NEW c \in People, NEW d \in People, Reimburse(c, d)
      PROVE  MirrorInv'
  BY <1>2, <1>3 DEF MirrorInv, Reimburse, Unsettled0
<1> QED
  BY <1>1, <1>3 DEF Next

LEMMA MirrorInit == ASSUME Init PROVE MirrorInv
<1>1. open = Unsettled(given) /\ balance = given /\ payments = <<>>
  BY DEF Init
<1>2. Cardinality(open) \in Nat
  BY <1>1, InputsAssumption, FS_Subset, FS_CardinalityType DEF Unsettled
<1> QED
  BY <1>1, <1>2 DEF MirrorInv, Unsettled0

-----------------------------------------------------------------------------
(* The reference: how many groups of balances can sum to zero. *)

LEMMA TwoPeople ==
    ASSUME NEW S, IsFiniteSet(S), Cardinality(S) = 2
    PROVE  \E p, q : p # q /\ S = {p, q}
<1>1. PICK p \in S : TRUE
  BY FS_EmptySet
<1>2. IsFiniteSet(S \ {p}) /\ Cardinality(S \ {p}) = 1
  BY <1>1, FS_RemoveElement
<1>3. PICK q : S \ {p} = {q}
  BY <1>2, FS_Singleton
<1>4. S = {p, q} /\ p # q
  BY <1>1, <1>3
<1> QED
  BY <1>4

\* Nobody unsettled is a group alone.
LEMMA GroupOfTwo ==
    ASSUME NEW b \in [People -> Int], NEW S \in ZeroSumGroups(b)
    PROVE  IsFiniteSet(S) /\ Cardinality(S) \in Nat /\ Cardinality(S) >= 2
<1>1. S \subseteq Unsettled(b) /\ S # {} /\ Sum(b, S) = 0
  BY DEF ZeroSumGroups, Total, Sum
<1>2. S \subseteq People /\ \A p \in S : b[p] \in Int /\ b[p] # 0
  BY <1>1 DEF Unsettled
<1>3. IsFiniteSet(S) /\ Cardinality(S) \in Nat /\ Cardinality(S) # 0
  BY <1>1, <1>2, InputsAssumption, FS_Subset, FS_CardinalityType, FS_EmptySet
<1>4. ASSUME Cardinality(S) = 1
      PROVE  FALSE
  <2>1. PICK x : S = {x}
    BY <1>3, <1>4, FS_Singleton
  <2>2. Sum(b, {x}) = b[x]
    BY <1>2, <2>1, SumSingle
  <2> QED
    BY <1>1, <1>2, <2>1, <2>2
<1> QED
  BY <1>3, <1>4

\* Two people who form a group have opposite balances.
LEMMA GroupOfOpposites ==
    ASSUME NEW b \in [People -> Int], NEW S \in ZeroSumGroups(b), Cardinality(S) = 2
    PROVE  \E p, q \in S : p # q /\ S = {p, q} /\ b[p] = -b[q] /\ b[q] = -b[p]
<1>1. S \subseteq Unsettled(b) /\ Sum(b, S) = 0 /\ IsFiniteSet(S)
  BY GroupOfTwo DEF ZeroSumGroups, Total, Sum
<1>2. PICK p, q : p # q /\ S = {p, q}
  BY <1>1, TwoPeople
<1>3. \A x \in S : b[x] \in Int
  BY <1>1 DEF Unsettled
<1>4. Sum(b, S) = b[p] + Sum(b, S \ {p})
  BY <1>1, <1>2, <1>3, SumRemove
<1>5. S \ {p} = {q}
  BY <1>2
<1>6. Sum(b, {q}) = b[q]
  BY <1>2, <1>3, SumSingle
<1> QED
  BY <1>1, <1>2, <1>3, <1>4, <1>5, <1>6

\* Two disjoint groups of at most four people are two pairs, and nobody is left.
LEMMA TwoGroups ==
    ASSUME NEW b \in [People -> Int], Cardinality(Unsettled(b)) <= 4,
           NEW S \in ZeroSumGroups(b), NEW T \in ZeroSumGroups(b), S \intersect T = {}
    PROVE  /\ S \union T = Unsettled(b)
           /\ Cardinality(Unsettled(b)) = 4
           /\ Mirrored(Unsettled(b), b)
<1> DEFINE U == Unsettled(b)
<1>1. S \subseteq U /\ T \subseteq U /\ IsFiniteSet(U) /\ Cardinality(U) \in Nat
  BY InputsAssumption, FS_Subset, FS_CardinalityType DEF ZeroSumGroups, Unsettled
<1>2. /\ IsFiniteSet(S) /\ Cardinality(S) \in Nat /\ Cardinality(S) >= 2
      /\ IsFiniteSet(T) /\ Cardinality(T) \in Nat /\ Cardinality(T) >= 2
  BY GroupOfTwo
<1>3. Cardinality(S \union T) = Cardinality(S) + Cardinality(T)
  <2>1. Cardinality(S \union T) = Cardinality(S) + Cardinality(T) - Cardinality({})
    BY <1>2, FS_Union
  <2> QED
    BY <1>2, <2>1, FS_EmptySet
<1>4. /\ S \union T \subseteq U /\ Cardinality(S \union T) <= Cardinality(U)
      /\ Cardinality(U) = Cardinality(S \union T) => U = S \union T
  BY <1>1, FS_Subset
<1>5. Cardinality(U) <= 4
  OBVIOUS
<1>6. Cardinality(U) = 4 /\ Cardinality(S) = 2 /\ Cardinality(T) = 2 /\ U = S \union T
  <2> HIDE DEF U
  <2> QED
    BY <1>1, <1>2, <1>3, <1>4, <1>5
<1>7. PICK p \in S, q \in S : p # q /\ S = {p, q} /\ b[p] = -b[q] /\ b[q] = -b[p]
  BY <1>6, GroupOfOpposites
<1>8. PICK r \in T, s \in T : r # s /\ T = {r, s} /\ b[r] = -b[s] /\ b[s] = -b[r]
  BY <1>6, GroupOfOpposites
<1>9. Mirrored(U, b)
  <2> DEFINE f == [x \in U |-> IF x = p THEN q ELSE IF x = q THEN p ELSE IF x = r THEN s ELSE r]
  <2>1. U = {p, q, r, s} /\ p # r /\ p # s /\ q # r /\ q # s
    BY <1>6, <1>7, <1>8
  <2> HIDE DEF U
  <2>2. f[p] = q /\ f[q] = p /\ f[r] = s /\ f[s] = r
    BY <1>7, <1>8, <2>1
  <2>3. f \in [U -> U]
    BY <2>1
  <2>4. \A x \in U : f[f[x]] = x /\ b[f[x]] = -b[x]
    <3> HIDE DEF f
    <3> QED
      BY <1>7, <1>8, <2>1, <2>2
  <2> HIDE DEF f
  <2> QED
    BY <2>3, <2>4 DEF Mirrored
<1> QED
  BY <1>6, <1>9

\* No more than two groups then.
LEMMA FewGroups ==
    ASSUME NEW b \in [People -> Int], Cardinality(Unsettled(b)) <= 4, NEW P \in GroupingsOf(b)
    PROVE  \/ Cardinality(P) = 0
           \/ Cardinality(P) = 1 /\ Unsettled(b) # {}
           \/ /\ Cardinality(P) = 2
              /\ Cardinality(Unsettled(b)) = 4 /\ Mirrored(Unsettled(b), b)
<1>1. P \subseteq ZeroSumGroups(b) /\ \A S, T \in P : S # T => S \intersect T = {}
  BY DEF GroupingsOf
<1>2. \A S \in P : S # {} /\ S \subseteq Unsettled(b)
  BY <1>1 DEF ZeroSumGroups
<1>3. CASE P = {}
  BY <1>3, FS_EmptySet
<1>4. ASSUME NEW S \in P, P = {S}
      PROVE  Cardinality(P) = 1 /\ Unsettled(b) # {}
  BY <1>2, <1>4, FS_Singleton
<1>5. ASSUME NEW S \in P, NEW T \in P, S # T
      PROVE  /\ Cardinality(P) = 2
             /\ Cardinality(Unsettled(b)) = 4 /\ Mirrored(Unsettled(b), b)
  <2>1. S \intersect T = {}
    BY <1>1, <1>5
  <2>2. /\ S \union T = Unsettled(b)
        /\ Cardinality(Unsettled(b)) = 4 /\ Mirrored(Unsettled(b), b)
    BY <1>1, <2>1, TwoGroups
  <2>3. P = {S} \union {T}
    <3>1. ASSUME NEW R \in P, R # S, R # T
          PROVE  FALSE
      <4>1. R \intersect S = {} /\ R \intersect T = {}
        BY <1>1, <3>1
      <4> QED
        BY <1>2, <2>2, <4>1
    <3> QED
      BY <3>1
  <2>4. IsFiniteSet({S}) /\ Cardinality({S}) = 1
    BY FS_Singleton
  <2>5. Cardinality({S} \union {T}) = Cardinality({S}) + 1
    BY <1>5, <2>4, FS_AddElement
  <2> QED
    BY <2>2, <2>3, <2>4, <2>5
<1> QED
  BY <1>3, <1>4, <1>5

LEMMA CountMinimal ==
    ASSUME LoopInv, CountInv, MirrorInv PROVE MinimalUpToFour
<1> DEFINE U == Unsettled(given)
           K == {Cardinality(P) : P \in GroupingsOf(given)}
<1> SUFFICES ASSUME Done, Cardinality(U) <= 4
             PROVE  Len(payments) <= FewestPayments(given)
  BY DEF MinimalUpToFour
<1>0. given \in [People -> Int]
  BY InputsAssumption DEF LoopInv
<1>1. /\ IsFiniteSet(U) /\ Cardinality(U) \in Nat /\ (U # {} => Cardinality(U) # 0)
      /\ Len(payments) \in Nat
  <2>1. IsFiniteSet(U) /\ Len(payments) \in Nat
    BY InputsAssumption, FS_Subset DEF Unsettled, CountInv
  <2> QED
    BY <2>1, FS_CardinalityType, FS_EmptySet
<1>2. payments # <<>> => Len(payments) <= Cardinality(U) - 1
  BY CountFew DEF AtMostNMinusOne
<1>3. payments = <<>> => Len(payments) = 0
  OBVIOUS
<1>4. ASSUME NEW n \in K
      PROVE  n \in {0, 1, 2} /\ Len(payments) <= Cardinality(U) - n
  <2>1. PICK P \in GroupingsOf(given) : n = Cardinality(P)
    BY <1>4
  <2>2. \/ n = 0
        \/ n = 1 /\ U # {}
        \/ n = 2 /\ Cardinality(U) = 4 /\ Mirrored(U, given)
    BY <1>0, <2>1, FewGroups
  <2>3. CASE n = 0
    BY <1>1, <1>2, <1>3, <2>3
  <2>4. CASE n = 1 /\ U # {}
    BY <1>1, <1>2, <1>3, <2>4
  <2>5. CASE n = 2 /\ Cardinality(U) = 4 /\ Mirrored(U, given)
    <3>1. 2 * Len(payments) + Cardinality(open) <= 4
      BY <2>5 DEF MirrorInv, Unsettled0
    <3>2. Cardinality(open) \in Nat
      BY InputsAssumption, FS_Subset, FS_CardinalityType DEF LoopInv, Unsettled
    <3> QED
      BY <1>1, <2>5, <3>1, <3>2
  <2> QED
    BY <2>2, <2>3, <2>4, <2>5
<1>5. K # {}
  <2>1. {} \in GroupingsOf(given)
    BY DEF GroupingsOf
  <2> QED
    BY <2>1
<1>6. Max(K) \in K
  <2>1. \E x \in K : \A y \in K : x >= y
    <3> HIDE DEF K
    <3>1. \A n \in K : n \in {0, 1, 2}
      BY <1>4
    <3>2. CASE 2 \in K
      BY <3>1, <3>2
    <3>3. CASE 2 \notin K /\ 1 \in K
      BY <3>1, <3>3
    <3>4. CASE 2 \notin K /\ 1 \notin K
      BY <1>5, <3>1, <3>4
    <3> QED
      BY <3>2, <3>3, <3>4
  <2> HIDE DEF K
  <2> QED
    BY <2>1 DEF Max
<1>7. Len(payments) <= Cardinality(U) - Max(K)
  <2> HIDE DEF K, U
  <2> QED
    BY <1>4, <1>6
<1> QED
  BY <1>7 DEF FewestPayments

\* "The minimum number of transactions to settle all debts" holds whenever at most
\* four participants are unsettled, whatever their balances.
THEOREM MinimalForFour ==
    ASSUME InputsSumToZero
    PROVE  Spec => []MinimalUpToFour
<1>1. Init => LoopInv /\ CountInv /\ MirrorInv
  BY LoopInit, CountInit, MirrorInit
<1>2. LoopInv /\ CountInv /\ MirrorInv /\ [Next]_vars => LoopInv' /\ CountInv' /\ MirrorInv'
  BY LoopStep, CountStep, MirrorStep
<1>3. LoopInv /\ CountInv /\ MirrorInv => MinimalUpToFour
  BY CountMinimal
<1> QED
  BY <1>1, <1>2, <1>3, PTL DEF Spec
=============================================================================
