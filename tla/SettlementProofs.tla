-------------------------- MODULE SettlementProofs --------------------------
(***************************************************************************)
(* What reading balances comes to for any number of people, projects and   *)
(* expenses: as long as nothing changes between its SELECTs, the payments, *)
(* the totals and the dashboard are what the ledger says.  The invariants  *)
(* speak of reads that are not torn; torn ones keep their types, no more.  *)
(* What the loop comes to also needs expenses that refer to participants   *)
(* of their project only: createOperation does not see to that.            *)
(***************************************************************************)
EXTENDS Settlement, SumTheorems

-----------------------------------------------------------------------------
(* Types. *)

\* Nobody is given the row of a stranger.
LedgerInv == /\ linked \in [Projects -> SUBSET People]
             /\ created \in SUBSET People /\ Strangers \subseteq created
             /\ \A j \in Projects : linked[j] \subseteq created \ Strangers
             /\ expense \in [Ops -> Expenses \union {None}]
             /\ commits \in 0..MaxCommits

\* What a read asks for goes with the point it is at.
Kinds == /\ read.pc \in {"people", "paid", "owed"} => read.kind \in {"project", "totals"}
         /\ read.pc = "projects" => read.kind = "totals"
         /\ read.pc = "loop" => read.kind = "project"
         /\ read.pc \in {"links", "my-paid", "my-shares", "my-ops"} => read.kind = "dashboard"
         /\ read.pc = "answer" => read.kind \in {"totals", "dashboard"}
         /\ read.pc \in {"people", "paid", "owed", "loop"} => read.j \in Projects

ReadInv == /\ read = [pc |-> read.pc, kind |-> read.kind, j |-> read.j, left |-> read.left,
                      people |-> read.people, paid |-> read.paid, shares |-> read.shares,
                      toDo |-> read.toDo, toReceive |-> read.toReceive, mine |-> read.mine]
           /\ read.pc \in {"idle", "projects", "people", "paid", "owed", "loop", "links", "my-paid",
                           "my-shares", "my-ops", "answer"}
           /\ read.left \subseteq Projects
           /\ read.people \in [Projects -> SUBSET People]
           /\ read.paid \in [Projects -> [People -> Int]]
           /\ read.toDo \in Nat /\ read.toReceive \in Nat
           /\ Kinds

LoopInv == /\ given \in [People -> Int]
           /\ balance \in [People -> Int]
           /\ open \subseteq People
           /\ read.pc # "loop" => open = {}

TypeInv == LedgerInv /\ ReadInv /\ LoopInv /\ torn \in BOOLEAN

(* Sums of the model are sums of integers. *)

LEMMA AmountType == ASSUME NEW e \in Expenses PROVE AmountOf(e) \in Nat
<1>1. e.shares \in [People -> Nat] /\ DOMAIN e.shares = People /\ IsFiniteSet(People)
  BY LedgerAssumption
<1>2. Sum(e.shares, People) \in Nat
  BY <1>1, SumNat
<1> QED
  BY <1>1, <1>2 DEF AmountOf, SumFunction, Sum

LEMMA PaidType == ASSUME LedgerInv, NEW j, NEW p PROVE Paid(j, p) \in Int
<1> DEFINE S == PaidFor(j, p)
           w == [o \in S |-> AmountOf(expense[o])]
<1>1. IsFiniteSet(S)
  BY LedgerAssumption, FS_Subset DEF PaidFor, Recorded
<1>2. \A o \in S : w[o] \in Int
  BY AmountType DEF LedgerInv, PaidFor, Recorded
<1>3. DOMAIN w = S /\ Paid(j, p) = SumFunctionOnSet(w, DOMAIN w)
  BY DEF Paid, SumFunction
<1> HIDE DEF S, w
<1> QED
  BY <1>1, <1>2, <1>3, SumType DEF Sum

LEMMA OwedType == ASSUME LedgerInv, NEW j, NEW p \in People PROVE Owed(j, p) \in Int
<1> DEFINE S == Recorded(j)
           w == [o \in S |-> expense[o].shares[p]]
<1>1. IsFiniteSet(S)
  BY LedgerAssumption, FS_Subset DEF Recorded
<1>2. \A o \in S : w[o] \in Int
  BY LedgerAssumption DEF LedgerInv, Recorded
<1>3. DOMAIN w = S /\ Owed(j, p) = SumFunctionOnSet(w, DOMAIN w)
  BY DEF Owed, SumFunction
<1> HIDE DEF S, w
<1> QED
  BY <1>1, <1>2, <1>3, SumType DEF Sum

LEMMA NetType ==
    ASSUME TypeInv, NEW j \in Projects, NEW p \in People
    PROVE  Net(j, p) \in Int
BY OwedType DEF TypeInv, ReadInv, Net

LEMMA PaidByFoundType ==
    ASSUME TypeInv, NEW j
    PROVE  PaidByFound(j) \in [People -> Int]
BY PaidType DEF TypeInv, PaidByFound

LEMMA NatSum ==
    ASSUME NEW w, IsFiniteSet(DOMAIN w), \A x \in DOMAIN w : w[x] \in Nat
    PROVE  SumFunction(w) \in Nat
BY SumNat DEF SumFunction, Sum

LEMMA MyTypes ==
    ASSUME TypeInv, read.j \in Projects
    PROVE  MyDebts \in Nat /\ MyDues \in Nat
<1> DEFINE v == [p \in Mine |-> Minus(Net(read.j, p))]
           w == [p \in Mine |-> Plus(Net(read.j, p))]
<1>1. IsFiniteSet(Mine) /\ \A p \in Mine : p \in People
  BY LedgerAssumption, FS_Subset
<1>2. \A p \in Mine : v[p] \in Nat /\ w[p] \in Nat
  BY <1>1, NetType DEF Minus, Plus
<1>3. DOMAIN v = Mine /\ DOMAIN w = Mine
  OBVIOUS
<1>4. MyDebts = SumFunction(v) /\ MyDues = SumFunction(w)
  BY DEF MyDebts, MyDues
<1> HIDE DEF v, w
<1> QED
  BY <1>1, <1>2, <1>3, <1>4, NatSum

-----------------------------------------------------------------------------
(* Steps keep the types. *)

LEMMA TypeChange == ASSUME TypeInv, Change PROVE TypeInv'
<1> USE DEF TypeInv, LedgerInv
<1>0. UNCHANGED <<read, loopVars>> /\ commits' \in 0..MaxCommits /\ torn' \in BOOLEAN
  <2>1. \E js : Committed(js)
    BY DEF Change, RecordExpense, ChangeExpense, DeleteExpense, Join, Leave
  <2> QED
    BY <2>1, LedgerAssumption DEF Committed
<1>1. ReadInv' /\ LoopInv'
  BY <1>0 DEF ReadInv, Kinds, LoopInv, loopVars
<1>2. ASSUME NEW o \in Ops, NEW e \in Expenses, RecordExpense(o, e) \/ ChangeExpense(o, e)
      PROVE  LedgerInv'
  BY <1>0, <1>2 DEF RecordExpense, ChangeExpense
<1>3. ASSUME NEW o \in Ops, DeleteExpense(o)
      PROVE  LedgerInv'
  BY <1>0, <1>3 DEF DeleteExpense
<1>4. ASSUME NEW j \in Projects, NEW p \in People, Join(j, p)
      PROVE  LedgerInv'
  <2>1. /\ linked' \in [Projects -> SUBSET People]
        /\ \A k \in Projects : linked'[k] \subseteq linked[k] \union {p}
    BY <1>4 DEF Join
  <2>2. created' = created \union {p} /\ p \notin Strangers /\ expense' = expense
    BY <1>4 DEF Join
  <2> QED
    BY <1>0, <2>1, <2>2
<1>5. ASSUME NEW p \in People, Leave(p)
      PROVE  LedgerInv'
  BY <1>0, <1>5 DEF Leave
<1> QED
  BY <1>0, <1>1, <1>2, <1>3, <1>4, <1>5 DEF Change

LEMMA TypeGoOn ==
    ASSUME TypeInv, NEW left \in SUBSET Projects, NEW a \in Nat, NEW b \in Nat,
           read.kind = "totals", UNCHANGED <<ledgerVars, torn, loopVars>>, read.pc # "loop",
           read' \in GoOn([read EXCEPT !.left = left, !.toDo = a, !.toReceive = b])
    PROVE  TypeInv'
<1>1. LedgerInv' /\ LoopInv' /\ torn' \in BOOLEAN
  BY DEF TypeInv, LedgerInv, LoopInv, ledgerVars, loopVars, GoOn, ReadInv
<1>2. ReadInv'
  <2> DEFINE r == [read EXCEPT !.left = left, !.toDo = a, !.toReceive = b]
  <2>1. CASE read' = [r EXCEPT !.pc = "answer"]
    BY <2>1 DEF TypeInv, ReadInv, Kinds
  <2>2. ASSUME NEW j \in left, read' = [r EXCEPT !.pc = "people", !.j = j, !.left = @ \ {j}]
        PROVE  ReadInv'
    BY <2>2 DEF TypeInv, ReadInv, Kinds
  <2>3. r.left = left
    BY DEF TypeInv, ReadInv
  <2> HIDE DEF r
  <2>4. read' \in GoOn(r)
    BY DEF r
  <2> QED
    BY <2>1, <2>2, <2>3, <2>4 DEF GoOn
<1> QED
  BY <1>1, <1>2 DEF TypeInv

LEMMA TypeRead == ASSUME TypeInv, ReadStep PROVE TypeInv'
<1> USE DEF TypeInv
<1>a. ASSUME UNCHANGED ledgerVars
      PROVE  LedgerInv'
  BY <1>a DEF LedgerInv, ledgerVars
<1>b. ASSUME UNCHANGED loopVars, read.pc # "loop", read'.pc # "loop"
      PROVE  LoopInv'
  BY <1>b DEF LoopInv, loopVars
<1>1. CASE FindProjects
  <2> DEFINE left == {j \in Projects : linked[j] \intersect Mine # {}}
  <2>1. [read EXCEPT !.left = left] =
          [read EXCEPT !.left = left, !.toDo = read.toDo, !.toReceive = read.toReceive]
    BY DEF ReadInv
  <2>2. left \in SUBSET Projects
    OBVIOUS
  <2>3. /\ read' \in GoOn([read EXCEPT !.left = left]) /\ read.pc = "projects"
        /\ UNCHANGED <<ledgerVars, torn, loopVars>>
    BY <1>1 DEF FindProjects
  <2>4. read.toDo \in Nat /\ read.toReceive \in Nat /\ read.kind = "totals"
    BY <2>3 DEF ReadInv, Kinds
  <2> HIDE DEF left
  <2>5. read' \in GoOn([read EXCEPT !.left = left, !.toDo = read.toDo,
                                    !.toReceive = read.toReceive])
    BY <2>1, <2>3, Zenon
  <2>6. read.pc # "loop"
    BY <2>3
  <2> QED
    BY <2>2, <2>3, <2>4, <2>5, <2>6, TypeGoOn
<1>2. CASE FindPeople
  BY <1>2, <1>a, <1>b DEF FindPeople, ReadInv, Kinds, LedgerInv
<1>3. CASE FindPaid
  BY <1>3, <1>a, <1>b, PaidByFoundType DEF FindPaid, ReadInv, Kinds
<1>4. CASE FindOwedAndSettle
  <2>1. given' \in [People -> Int] /\ balance' = given' /\ open' \subseteq People
    BY <1>4, NetType DEF FindOwedAndSettle, ReadInv, Kinds, Loop!Unsettled
  <2>2. LoopInv'
    BY <1>4, <2>1 DEF FindOwedAndSettle, LoopInv, ReadInv
  <2> QED
    BY <1>4, <1>a, <2>2 DEF FindOwedAndSettle, ReadInv, Kinds
<1>5. CASE FindOwedAndAdd
  <2> DEFINE a == read.toDo + MyDebts
             b == read.toReceive + MyDues
  <2>1. a \in Nat /\ b \in Nat
    BY <1>5, MyTypes DEF FindOwedAndAdd, ReadInv, Kinds
  <2>2. [read EXCEPT !.toDo = @ + MyDebts, !.toReceive = @ + MyDues] =
          [read EXCEPT !.left = read.left, !.toDo = a, !.toReceive = b]
    BY DEF ReadInv
  <2>3. /\ read' \in GoOn([read EXCEPT !.toDo = @ + MyDebts, !.toReceive = @ + MyDues])
        /\ read.pc = "owed" /\ read.kind = "totals" /\ UNCHANGED <<ledgerVars, torn, loopVars>>
    BY <1>5 DEF FindOwedAndAdd
  <2>4. read.left \in SUBSET Projects
    BY DEF ReadInv
  <2> HIDE DEF a, b
  <2> QED
    BY <2>1, <2>2, <2>3, <2>4, TypeGoOn
<1>6. CASE FindLinks
  BY <1>6, <1>a, <1>b DEF FindLinks, ReadInv, Kinds, LedgerInv
<1>7. CASE FindMyPaid
  BY <1>7, <1>a, <1>b, PaidByFoundType DEF FindMyPaid, ReadInv, Kinds
<1>8. CASE FindMyShares
  BY <1>8, <1>a, <1>b DEF FindMyShares, ReadInv, Kinds
<1>9. CASE FindMyOps
  BY <1>9, <1>a, <1>b DEF FindMyOps, ReadInv, Kinds
<1>10. CASE MissMyOps
  BY <1>10, <1>a, <1>b DEF MissMyOps, ReadInv, Kinds, NoRead, Settled
<1>11. CASE Iterate
  <2>1. PICK c \in People, d \in People : Loop!Reimburse(c, d)
    BY <1>11 DEF Iterate, Loop!Next
  <2>2. /\ balance[c] \in Int /\ balance[d] \in Int
        /\ Loop!Amount(c, d) \in Int
    BY DEF LoopInv, Loop!Amount, Loop!Abs
  <2>3. LoopInv'
    BY <1>11, <2>1, <2>2 DEF Iterate, LoopInv, Loop!Reimburse
  <2> QED
    BY <1>11, <1>a, <2>3 DEF Iterate, ReadInv, Kinds
<1>12. CASE AnswerProject
  <2>1. LoopInv' /\ UNCHANGED <<ledgerVars, torn>> /\ read' = NoRead
    BY <1>12 DEF AnswerProject, LoopInv, Settled
  <2> QED
    BY <2>1, <1>a DEF ReadInv, Kinds, NoRead, Settled
<1>13. CASE Answer
  BY <1>13, <1>a, <1>b DEF Answer, ReadInv, Kinds, NoRead, Settled
<1> QED
  BY <1>1, <1>2, <1>3, <1>4, <1>5, <1>6, <1>7, <1>8, <1>11, <1>12, <1>13, <1>9, <1>10 DEF ReadStep

LEMMA TypeAsk ==
    ASSUME TypeInv, AskAll \/ AskDashboard \/ \E j \in Projects : AskProject(j)
    PROVE  TypeInv'
<1>1. UNCHANGED <<ledgerVars, loopVars>> /\ read.pc = "idle" /\ torn' = FALSE
  BY DEF AskAll, AskDashboard, AskProject
<1>2. LedgerInv' /\ LoopInv'
  <2>1. read'.pc # "loop"
    BY DEF AskAll, AskDashboard, AskProject, NoRead
  <2> QED
    BY <1>1, <2>1 DEF TypeInv, LedgerInv, LoopInv, ledgerVars, loopVars
<1>3. ASSUME NEW pc \in {"people", "projects", "links"},
             NEW kind \in {"project", "totals", "dashboard"}, NEW j,
             read' = [pc |-> pc, kind |-> kind, j |-> j, left |-> {},
                      people |-> [k \in Projects |-> {}], paid |-> [k \in Projects |-> Settled],
                      shares |-> [o \in Ops |-> Settled],
                      toDo |-> 0, toReceive |-> 0, mine |-> [k \in Projects |-> 0]],
             \/ pc = "people" /\ kind = "project" /\ j \in Projects
             \/ pc = "projects" /\ kind = "totals"
             \/ pc = "links" /\ kind = "dashboard"
      PROVE  ReadInv'
  BY <1>3 DEF ReadInv, Kinds, Settled
<1>4. CASE AskAll
  <2>1. ReadInv'
    BY <1>3, <1>4 DEF AskAll, NoRead
  <2> QED
    BY <1>1, <1>2, <2>1 DEF TypeInv
<1>5. CASE AskDashboard
  <2>1. ReadInv'
    BY <1>3, <1>5 DEF AskDashboard, NoRead
  <2> QED
    BY <1>1, <1>2, <2>1 DEF TypeInv
<1>6. CASE \E j \in Projects : AskProject(j)
  <2>1. ReadInv'
    BY <1>3, <1>6 DEF AskProject, NoRead
  <2> QED
    BY <1>1, <1>2, <2>1 DEF TypeInv
<1> QED
  BY <1>4, <1>5, <1>6

LEMMA TypeInvariant == Spec => []TypeInv
<1>1. Init => TypeInv
  <2> SUFFICES ASSUME Init
               PROVE  TypeInv
    OBVIOUS
  <2>1. LedgerInv
    BY LedgerAssumption DEF Init, LedgerInv
  <2>2. ReadInv
    BY DEF Init, ReadInv, Kinds, NoRead, Settled
  <2> QED
    <3>1. LoopInv
      BY DEF Init, LoopInv, Settled
    <3>2. torn \in BOOLEAN
      BY DEF Init
    <3> QED
      BY <2>1, <2>2, <3>1, <3>2 DEF TypeInv
<1>2. TypeInv /\ [Next]_vars => TypeInv'
  <2>1. ASSUME TypeInv, UNCHANGED vars
        PROVE  TypeInv'
    BY <2>1 DEF vars, ledgerVars, loopVars, TypeInv, LedgerInv, ReadInv, Kinds, LoopInv
  <2> QED
    BY <2>1, TypeChange, TypeRead, TypeAsk DEF Next
<1> QED
  BY <1>1, <1>2, PTL DEF Spec

\* Balances, totals and the answers keep their types, torn or not.
THEOREM TypeCorrect == Spec => []TypeOK
<1>1. TypeInv => TypeOK
  BY DEF TypeInv, LedgerInv, ReadInv, LoopInv, TypeOK
<1> QED
  BY <1>1, TypeInvariant, PTL

-----------------------------------------------------------------------------
(* What a read that is not torn has found is what the ledger says. *)

PaidNow(j) == [p \in People |-> IF p \in linked[j] THEN Paid(j, p) ELSE 0]

\* A project that is being read.
ProjectInv ==
    ~torn => \A j \in Projects : read.j = j =>
       /\ read.pc \in {"paid", "owed"} => read.people[j] = linked[j]
       /\ read.pc = "owed" => read.paid[j] = PaidNow(j)
       /\ read.pc = "loop" => given = [p \in People |-> Due(j, p)]

\* The user's own participants, in all projects.
DashboardInv ==
    (~torn /\ read.kind = "dashboard") => \A j \in Projects :
       /\ read.pc \in {"my-paid", "my-shares", "my-ops"} =>
             read.people[j] = linked[j] \intersect Mine
       /\ read.pc \in {"my-shares", "my-ops"} =>
             \A p \in Mine : p \in linked[j] => read.paid[j][p] = Paid(j, p)
       /\ read.pc = "my-ops" =>
             \A p \in Mine, o \in Recorded(j) : read.shares[o][p] = expense[o].shares[p]
       /\ read.pc = "answer" =>
             \E p \in Mine : /\ linked[j] \intersect Mine # {} => p \in linked[j]
                            /\ read.mine[j] = Due(j, p)

\* Expenses of other projects do not matter.
LEMMA Elsewhere ==
    ASSUME NEW j,
           linked'[j] = linked[j],
           \A o \in Ops : \/ expense'[o] = expense[o]
                          \/ /\ expense[o] # None => expense[o].project # j
                             /\ expense'[o] # None => expense'[o].project # j
    PROVE  /\ Recorded(j)' = Recorded(j)
           /\ \A p : /\ Paid(j, p)' = Paid(j, p) /\ Owed(j, p)' = Owed(j, p)
                     /\ Due(j, p)' = Due(j, p)
           /\ PaidNow(j)' = PaidNow(j)
<1>1. /\ Recorded(j)' = Recorded(j)
      /\ \A o \in Recorded(j) : expense'[o] = expense[o]
  BY DEF Recorded
<1>2. ASSUME NEW p
      PROVE  Paid(j, p)' = Paid(j, p) /\ Owed(j, p)' = Owed(j, p)
  <2>1. PaidFor(j, p)' = PaidFor(j, p)
    BY <1>1 DEF PaidFor
  <2>2. [o \in PaidFor(j, p)' |-> AmountOf(expense'[o])]
          = [o \in PaidFor(j, p) |-> AmountOf(expense[o])]
    BY <1>1, <2>1 DEF PaidFor, AmountOf
  <2>3. [o \in Recorded(j)' |-> expense'[o].shares[p]]
          = [o \in Recorded(j) |-> expense[o].shares[p]]
    BY <1>1
  <2> QED
    BY <2>2, <2>3 DEF Paid, Owed
<1>3. \A p : Due(j, p)' = Due(j, p)
  BY <1>2 DEF Due
<1>4. PaidNow(j)' = PaidNow(j)
  BY <1>2 DEF PaidNow
<1> QED
  BY <1>1, <1>2, <1>3, <1>4

\* What misleads the loop does not come or go while nothing changes.
LEMMA StillMisled ==
    ASSUME UNCHANGED <<ledgerVars, torn>>, read'.j = read.j
    PROVE  Misled' <=> Misled
BY DEF Misled, OwnPeople, Recorded, Refs, ledgerVars

LEMMA Untouched ==
    ASSUME UNCHANGED ledgerVars, NEW j
    PROVE  /\ linked'[j] = linked[j] /\ Recorded(j)' = Recorded(j)
           /\ \A p : /\ Paid(j, p)' = Paid(j, p) /\ Owed(j, p)' = Owed(j, p)
                     /\ Due(j, p)' = Due(j, p)
           /\ PaidNow(j)' = PaidNow(j)
<1>1. linked' = linked /\ expense' = expense
  BY DEF ledgerVars
<1> QED
  BY <1>1, Elsewhere

\* A change tears the reads it could mislead.
LEMMA ChangeTears ==
    ASSUME TypeInv, Change, ~torn'
    PROVE  /\ ~torn /\ UNCHANGED <<read, loopVars>> /\ read.pc # "loop"
           /\ \/ read.pc = "idle"
              \/ /\ read.kind = "project"
                 /\ \A j \in Projects : read.j = j =>
                       linked'[j] = linked[j] /\ PaidNow(j)' = PaidNow(j)
<1>1. PICK js : /\ Committed(js) /\ js # {}
                /\ \A j \in Projects : j \notin js =>
                      /\ linked'[j] = linked[j]
                      /\ \A o \in Ops : \/ expense'[o] = expense[o]
                                        \/ /\ expense[o] # None => expense[o].project # j
                                           /\ expense'[o] # None => expense'[o].project # j
  <2>1. ASSUME NEW o \in Ops, NEW e \in Expenses, RecordExpense(o, e) \/ ChangeExpense(o, e)
        PROVE  /\ Committed({e.project}) /\ linked' = linked
               /\ \A i \in Ops : i # o => expense'[i] = expense[i]
               /\ expense'[o] = e
               /\ expense[o] # None => expense[o].project = e.project
    BY <2>1 DEF RecordExpense, ChangeExpense, TypeInv, LedgerInv
  <2>2. ASSUME NEW o \in Ops, DeleteExpense(o)
        PROVE  /\ Committed({expense[o].project}) /\ linked' = linked
               /\ \A i \in Ops : i # o => expense'[i] = expense[i]
               /\ expense'[o] = None
    BY <2>2 DEF DeleteExpense, TypeInv, LedgerInv
  <2>3. ASSUME NEW j \in Projects, NEW p \in People, Join(j, p)
        PROVE  /\ Committed({j}) /\ \A i \in Projects : i # j => linked'[i] = linked[i]
               /\ expense' = expense
    BY <2>3 DEF Join, TypeInv, LedgerInv
  <2>4. ASSUME NEW p \in People, Leave(p)
        PROVE  /\ Committed({j \in Projects : p \in linked[j]}) /\ expense' = expense
               /\ {j \in Projects : p \in linked[j]} # {}
               /\ \A i \in Projects : p \notin linked[i] => linked'[i] = linked[i]
    BY <2>4 DEF Leave, TypeInv, LedgerInv
  <2>5. CASE \E o \in Ops, e \in Expenses : RecordExpense(o, e) \/ ChangeExpense(o, e)
    <3> PICK o \in Ops, e \in Expenses : RecordExpense(o, e) \/ ChangeExpense(o, e)
      BY <2>5
    <3>1. \A j \in Projects : j \notin {e.project} =>
             \A i \in Ops : \/ expense'[i] = expense[i]
                           \/ /\ expense[i] # None => expense[i].project # j
                              /\ expense'[i] # None => expense'[i].project # j
      BY <2>1
    <3> QED
      BY <2>1, <3>1
  <2>6. CASE \E o \in Ops : DeleteExpense(o)
    <3> PICK o \in Ops : DeleteExpense(o)
      BY <2>6
    <3>1. \A j \in Projects : j \notin {expense[o].project} =>
             \A i \in Ops : \/ expense'[i] = expense[i]
                           \/ /\ expense[i] # None => expense[i].project # j
                              /\ expense'[i] # None => expense'[i].project # j
      BY <2>2
    <3> QED
      BY <2>2, <3>1
  <2>7. CASE \E j \in Projects, p \in People : Join(j, p)
    <3> PICK k \in Projects, p \in People : Join(k, p)
      BY <2>7
    <3>1. \A j \in Projects : j \notin {k} => linked'[j] = linked[j]
      BY <2>3
    <3> QED
      BY <2>3, <3>1
  <2>8. CASE \E p \in People : Leave(p)
    <3> PICK p \in People : Leave(p)
      BY <2>8
    <3>1. \A j \in Projects : j \notin {k \in Projects : p \in linked[k]} => linked'[j] = linked[j]
      BY <2>4
    <3> QED
      BY <2>4, <3>1
  <2> QED
    BY <2>5, <2>6, <2>7, <2>8 DEF Change
<1>2. /\ ~torn /\ UNCHANGED <<read, loopVars>> /\ read.pc # "loop"
      /\ read.pc = "idle" \/ (read.kind = "project" /\ read.j \notin js)
  <2>1. ~torn /\ UNCHANGED <<read, loopVars>> /\ read.pc # "loop" /\ \A j \in js : ~Reads(j)
    BY <1>1 DEF Committed
  <2> QED
    BY <1>1, <2>1 DEF Reads
<1>3. ASSUME NEW j \in Projects, j \notin js
      PROVE  linked'[j] = linked[j] /\ PaidNow(j)' = PaidNow(j)
  BY <1>1, <1>3, Elsewhere
<1> QED
  BY <1>2, <1>3

LEMMA ProjectStep == ASSUME TypeInv, ProjectInv, [Next]_vars PROVE ProjectInv'
<1> SUFFICES ASSUME ~torn', NEW j \in Projects, read'.j = j
             PROVE  /\ read'.pc \in {"paid", "owed"} => read'.people[j] = linked'[j]
                    /\ read'.pc = "owed" => read'.paid[j] = PaidNow(j)'
                    /\ read'.pc = "loop" => given' = [p \in People |-> Due(j, p)']
  BY DEF ProjectInv
<1> USE DEF TypeInv
<1>1. CASE Change
  BY <1>1, ChangeTears DEF ProjectInv
<1>2. CASE ~Change
  <2>1. UNCHANGED ledgerVars
    BY <1>2 DEF Next, vars, ReadStep, AskAll, AskDashboard, AskProject, FindProjects, FindPeople,
       FindPaid, FindOwedAndSettle, FindOwedAndAdd, FindLinks, FindMyPaid, FindMyShares, FindMyOps,
       MissMyOps, Iterate, AnswerProject, Answer
  <2>2. /\ linked'[j] = linked[j] /\ PaidNow(j)' = PaidNow(j)
        /\ \A p : Due(j, p)' = Due(j, p)
    BY <2>1, Untouched
  <2>3. CASE UNCHANGED vars
    BY <2>2, <2>3 DEF vars, loopVars, ProjectInv
  <2>4. CASE AskAll \/ AskDashboard \/ \E k \in Projects : AskProject(k)
    BY <2>4 DEF AskAll, AskDashboard, AskProject, NoRead
  <2>5. CASE FindProjects \/ FindOwedAndAdd
    BY <2>5 DEF FindProjects, FindOwedAndAdd, GoOn, ReadInv
  <2>6. CASE FindPeople
    BY <2>2, <2>6 DEF FindPeople, ReadInv
  <2>7. CASE FindPaid
    <3>1. /\ read.pc = "paid" /\ read.j = j /\ read.people[j] = linked[j]
          /\ read' = [read EXCEPT !.paid[j] = PaidByFound(j), !.pc = "owed"]
      BY <2>7 DEF FindPaid, ProjectInv, ReadInv
    <3>2. PaidByFound(j) = PaidNow(j)
      BY <3>1 DEF PaidByFound, PaidNow
    <3> QED
      BY <2>2, <3>1, <3>2 DEF ReadInv
  <2>8. CASE FindOwedAndSettle
    <3>1. /\ read.j = j /\ read.people[j] = linked[j] /\ read.paid[j] = PaidNow(j)
          /\ read'.pc = "loop" /\ given' = [p \in People |-> Net(j, p)]
      BY <2>8 DEF FindOwedAndSettle, ProjectInv, ReadInv
    <3>2. \A p \in People : Net(j, p) = Due(j, p)
      BY <3>1 DEF Net, Due, PaidNow
    <3> QED
      BY <2>2, <3>1, <3>2
  <2>9. CASE FindLinks \/ FindMyPaid \/ FindMyShares \/ FindMyOps \/ MissMyOps \/ AnswerProject
            \/ Answer
    <3>1. read'.pc \in {"my-paid", "my-shares", "my-ops", "answer", "idle"}
      <4>1. CASE FindMyShares \/ FindMyOps
        BY <4>1 DEF FindMyShares, FindMyOps, ReadInv
      <4>2. CASE FindLinks
        BY <4>2 DEF FindLinks, ReadInv
      <4>3. CASE FindMyPaid
        BY <4>3 DEF FindMyPaid, ReadInv
      <4>4. CASE MissMyOps \/ AnswerProject \/ Answer
        BY <4>4 DEF MissMyOps, AnswerProject, Answer, NoRead
      <4> QED
        BY <2>9, <4>1, <4>2, <4>3, <4>4
    <3> QED
      BY <3>1
  <2>10. CASE Iterate
    BY <2>2, <2>10 DEF Iterate, Loop!Next, Loop!Reimburse, ProjectInv
  <2> QED
    BY <1>2, <2>3, <2>4, <2>5, <2>6, <2>7, <2>8, <2>9, <2>10 DEF Next, ReadStep
<1> QED
  BY <1>1, <1>2

LEMMA DashboardStep == ASSUME TypeInv, DashboardInv, [Next]_vars PROVE DashboardInv'
<1> SUFFICES ASSUME ~torn', read'.kind = "dashboard", NEW j \in Projects
             PROVE  /\ read'.pc \in {"my-paid", "my-shares", "my-ops"} =>
                          read'.people[j] = linked'[j] \intersect Mine
                    /\ read'.pc \in {"my-shares", "my-ops"} =>
                          \A p \in Mine : p \in linked'[j] => read'.paid[j][p] = Paid(j, p)'
                    /\ read'.pc = "my-ops" =>
                          \A p \in Mine, o \in Recorded(j)' :
                             read'.shares[o][p] = expense'[o].shares[p]
                    /\ read'.pc = "answer" =>
                          \E p \in Mine : /\ linked'[j] \intersect Mine # {} => p \in linked'[j]
                                         /\ read'.mine[j] = Due(j, p)'
  BY DEF DashboardInv
<1> USE DEF TypeInv
<1>1. CASE Change
  BY <1>1, ChangeTears DEF ReadInv
<1>2. CASE ~Change
  <2>1. UNCHANGED ledgerVars
    BY <1>2 DEF Next, vars, ReadStep, AskAll, AskDashboard, AskProject, FindProjects, FindPeople,
       FindPaid, FindOwedAndSettle, FindOwedAndAdd, FindLinks, FindMyPaid, FindMyShares, FindMyOps,
       MissMyOps, Iterate, AnswerProject, Answer
  <2>2. /\ linked'[j] = linked[j] /\ Recorded(j)' = Recorded(j) /\ expense' = expense
        /\ \A p : Due(j, p)' = Due(j, p) /\ Paid(j, p)' = Paid(j, p)
    BY <2>1, Untouched DEF ledgerVars
  <2>3. CASE UNCHANGED vars
    BY <2>2, <2>3 DEF vars, DashboardInv
  <2>4. CASE AskAll \/ AskDashboard \/ \E k \in Projects : AskProject(k)
    BY <2>4 DEF AskAll, AskDashboard, AskProject, NoRead
  <2>5. CASE FindProjects
    BY <2>5 DEF FindProjects, GoOn, ReadInv, Kinds
  <2>6. CASE FindPeople \/ FindPaid
    BY <2>6 DEF FindPeople, FindPaid, ReadInv, Kinds
  <2>7. CASE FindOwedAndSettle \/ Iterate
    BY <2>7 DEF FindOwedAndSettle, Iterate, ReadInv, Kinds
  <2>8. CASE FindOwedAndAdd
    BY <2>8 DEF FindOwedAndAdd, GoOn, ReadInv
  <2>9. CASE FindLinks
    BY <2>2, <2>9 DEF FindLinks, ReadInv, Kinds
  <2>10. CASE FindMyPaid
    <3>1. /\ read.pc = "my-paid" /\ read.people[j] = linked[j] \intersect Mine
          /\ read' = [read EXCEPT !.paid = [k \in Projects |-> PaidByFound(k)], !.pc = "my-shares"]
      BY <2>10 DEF FindMyPaid, DashboardInv, ReadInv, Kinds
    <3>2. \A p \in Mine : p \in linked[j] => PaidByFound(j)[p] = Paid(j, p)
      BY <3>1, LedgerAssumption DEF PaidByFound
    <3> QED
      BY <2>2, <3>1, <3>2 DEF ReadInv
  <2>11. CASE FindMyShares
    <3>1. /\ read.pc = "my-shares" /\ read.people[j] = linked[j] \intersect Mine
          /\ \A p \in Mine : p \in linked[j] => read.paid[j][p] = Paid(j, p)
          /\ read' = [read EXCEPT !.shares = [o \in Ops |-> MySharesIn(o)], !.pc = "my-ops"]
      BY <2>11 DEF FindMyShares, DashboardInv, ReadInv, Kinds
    <3>2. \A p \in Mine, o \in Recorded(j) : MySharesIn(o)[p] = expense[o].shares[p] /\ o \in Ops
      BY LedgerAssumption DEF MySharesIn, Recorded
    <3> QED
      BY <2>2, <3>1, <3>2 DEF ReadInv
  <2>12. CASE FindMyOps
    <3>1. PICK last \in [Projects -> Mine] :
             /\ \A k \in Projects : read.people[k] # {} => last[k] \in read.people[k]
             /\ read' = [read EXCEPT !.mine = [k \in Projects |-> BalanceShown(k, last[k])],
                                     !.pc = "answer"]
      BY <2>12 DEF FindMyOps
    <3>2. /\ read.people[j] = linked[j] \intersect Mine /\ last[j] \in Mine
          /\ \A p \in Mine : p \in linked[j] => read.paid[j][p] = Paid(j, p)
          /\ \A p \in Mine, o \in Recorded(j) : read.shares[o][p] = expense[o].shares[p]
      BY <2>12, <3>1 DEF FindMyOps, DashboardInv, ReadInv, Kinds
    <3>3. MyOwed(j, last[j]) = Owed(j, last[j])
      <4>1. [o \in Recorded(j) |-> read.shares[o][last[j]]]
              = [o \in Recorded(j) |-> expense[o].shares[last[j]]]
        BY <3>2
      <4> QED
        BY <4>1 DEF MyOwed, Owed
    <3>4. MyNet(j, last[j]) = Due(j, last[j])
      BY <3>2, <3>3 DEF MyNet, Due
    <3>5. read'.pc = "answer" /\ read'.mine[j] = Due(j, last[j])
      BY <3>1, <3>4 DEF ReadInv, BalanceShown
    <3> QED
      BY <2>2, <3>1, <3>2, <3>5
  <2>13. CASE MissMyOps \/ AnswerProject \/ Answer
    BY <2>13 DEF MissMyOps, AnswerProject, Answer, NoRead
  <2> QED
    BY <1>2, <2>3, <2>4, <2>5, <2>6, <2>7, <2>8, <2>9, <2>10, <2>12, <2>13, <2>11 DEF Next, ReadStep
<1> QED
  BY <1>1, <1>2

\* The dashboard comes to the same balances as the ledger on its own way, for a user
\* who is one participant of each project, unless something changed meanwhile.
THEOREM DashboardIsTheLedger == Spec => []DashboardAgrees
<1>1. Init => DashboardInv
  BY DEF Init, NoRead, DashboardInv
<1>2. TypeInv /\ DashboardInv /\ [Next]_vars => DashboardInv'
  BY DashboardStep
<1>3. TypeInv /\ DashboardInv => DashboardAgrees
  <2> SUFFICES ASSUME TypeInv, DashboardInv, ~torn, read.pc = "answer", read.kind = "dashboard",
                      NEW j \in Projects, NEW me, me = linked[j] \intersect Mine,
                      Cardinality(me) <= 1
               PROVE  read.mine[j] = SumFunction([p \in me |-> Due(j, p)])
    BY DEF DashboardAgrees
  <2> DEFINE w == [p \in me |-> Due(j, p)]
  <2>0. DOMAIN w = me /\ SumFunction(w) = SumFunctionOnSet(w, DOMAIN w)
    BY DEF SumFunction
  <2>1. PICK p \in Mine : (me # {} => p \in linked[j]) /\ read.mine[j] = Due(j, p)
    BY DEF DashboardInv
  <2>2. IsFiniteSet(me) /\ p \in People /\ Due(j, p) \in Int
    BY LedgerAssumption, FS_Subset, PaidType, OwedType DEF TypeInv, Due
  <2>3. CASE me = {}
    <3>1. Due(j, p) = 0
      BY <2>3 DEF Due
    <3>2. SumFunction(w) = 0
      <4> HIDE DEF w
      <4> QED
        BY <2>0, <2>3, SumEmpty DEF Sum
    <3> QED
      BY <2>1, <3>1, <3>2
  <2>4. CASE me # {}
    <3>1. p \in me /\ me = {p}
      <4>1. p \in me
        BY <2>1, <2>4
      <4>2. ASSUME NEW q \in me, q # p
            PROVE  FALSE
        <5>1. /\ IsFiniteSet(me \ {p}) /\ Cardinality(me \ {p}) = Cardinality(me) - 1
              /\ Cardinality(me) \in Nat
          BY <2>2, <4>1, FS_RemoveElement, FS_CardinalityType
        <5>2. Cardinality(me \ {p}) \in Nat /\ Cardinality(me \ {p}) # 0
          BY <4>2, <5>1, FS_CardinalityType, FS_EmptySet
        <5> QED
          BY <5>1, <5>2
      <4> QED
        BY <4>1, <4>2
    <3>2. w[p] = Due(j, p)
      BY <3>1
    <3>3. SumFunction(w) = w[p]
      <4> HIDE DEF w
      <4> QED
        BY <2>0, <2>2, <3>1, <3>2, SumSingle DEF Sum
    <3> QED
      BY <2>1, <3>2, <3>3
  <2> QED
    BY <2>3, <2>4
<1> QED
  BY <1>1, <1>2, <1>3, TypeInvariant, PTL DEF Spec

-----------------------------------------------------------------------------
(* The totals: what is counted so far is what the user's own participants owe *)
(* and are due in the projects that have been read.                           *)

MyProjects == {j \in Projects : linked[j] \intersect Mine # {}}

DebtsIn == [j \in Projects |-> SumFunction([p \in Mine |-> Minus(Due(j, p))])]
DuesIn  == [j \in Projects |-> SumFunction([p \in Mine |-> Plus(Due(j, p))])]

Counted(S) == read.toDo = Sum(DebtsIn, S) /\ read.toReceive = Sum(DuesIn, S)

TotalsInv ==
    (~torn /\ read.kind = "totals") =>
       /\ read.pc = "projects" => read.toDo = 0 /\ read.toReceive = 0
       /\ read.pc \in {"people", "paid", "owed"} =>
             /\ read.left \subseteq MyProjects
             /\ read.j \in MyProjects \ read.left
             /\ Counted(MyProjects \ (read.left \union {read.j}))
       /\ read.pc = "answer" => Counted(MyProjects)

LEMMA ShareTypes ==
    ASSUME TypeInv, NEW j \in Projects
    PROVE  /\ DebtsIn[j] \in Nat /\ DuesIn[j] \in Nat
           /\ linked[j] \intersect Mine = {} => DebtsIn[j] = 0 /\ DuesIn[j] = 0
<1> DEFINE v == [p \in Mine |-> Minus(Due(j, p))]
           w == [p \in Mine |-> Plus(Due(j, p))]
<1>1. IsFiniteSet(Mine) /\ \A p \in Mine : p \in People
  BY LedgerAssumption, FS_Subset
<1>2. \A p \in Mine : Due(j, p) \in Int
  BY <1>1, PaidType, OwedType DEF TypeInv, Due
<1>3. \A p \in Mine : v[p] \in Nat /\ w[p] \in Nat
  BY <1>2 DEF Minus, Plus
<1>4. linked[j] \intersect Mine = {} => \A p \in Mine : v[p] = 0 /\ w[p] = 0
  BY DEF Due, Minus, Plus
<1>5. DOMAIN v = Mine /\ DOMAIN w = Mine
  OBVIOUS
<1>6. DebtsIn[j] = SumFunction(v) /\ DuesIn[j] = SumFunction(w)
  BY DEF DebtsIn, DuesIn
<1> HIDE DEF v, w
<1>7. SumFunction(v) \in Nat /\ SumFunction(w) \in Nat
  BY <1>1, <1>3, <1>5, NatSum
<1>8. linked[j] \intersect Mine = {} => SumFunction(v) = 0 /\ SumFunction(w) = 0
  BY <1>1, <1>4, <1>5, SumZero DEF SumFunction, Sum
<1> QED
  BY <1>6, <1>7, <1>8

LEMMA SharesSteady ==
    ASSUME UNCHANGED ledgerVars
    PROVE  MyProjects' = MyProjects /\ DebtsIn' = DebtsIn /\ DuesIn' = DuesIn
<1>1. \A j, p : Due(j, p)' = Due(j, p)
  BY Untouched
<1>2. MyProjects' = MyProjects
  BY DEF MyProjects, ledgerVars
<1>3. ASSUME NEW j
      PROVE  /\ [p \in Mine |-> Minus(Due(j, p))]' = [p \in Mine |-> Minus(Due(j, p))]
             /\ [p \in Mine |-> Plus(Due(j, p))]' = [p \in Mine |-> Plus(Due(j, p))]
  BY <1>1 DEF Minus, Plus
<1> QED
  BY <1>2, <1>3 DEF DebtsIn, DuesIn

\* Having added up the projects S, a read goes on to the next or to its answer.
LEMMA TotalsGoOn ==
    ASSUME NEW r, NEW S, r.left \subseteq MyProjects, S = MyProjects \ r.left,
           r = [pc |-> r.pc, kind |-> r.kind, j |-> r.j, left |-> r.left, people |-> r.people,
                paid |-> r.paid, shares |-> r.shares, toDo |-> r.toDo,
                toReceive |-> r.toReceive, mine |-> r.mine],
           r.toDo = Sum(DebtsIn, S), r.toReceive = Sum(DuesIn, S),
           read' \in GoOn(r), UNCHANGED ledgerVars
    PROVE  TotalsInv'
<1>0. MyProjects' = MyProjects /\ DebtsIn' = DebtsIn /\ DuesIn' = DuesIn
  BY SharesSteady
<1>1. CASE r.left = {}
  <2>1. S = MyProjects
    BY <1>1
  <2>2. read' = [r EXCEPT !.pc = "answer"]
    BY <1>1 DEF GoOn
  <2>3. read'.pc = "answer" /\ read'.toDo = r.toDo /\ read'.toReceive = r.toReceive
    BY <2>2
  <2> QED
    BY <1>0, <2>1, <2>3 DEF TotalsInv, Counted
<1>2. CASE r.left # {}
  <2>1. PICK j \in r.left : read' = [r EXCEPT !.pc = "people", !.j = j, !.left = @ \ {j}]
    BY <1>2 DEF GoOn
  <2>2. /\ read'.pc = "people" /\ read'.toDo = r.toDo /\ read'.toReceive = r.toReceive
        /\ read'.j = j /\ read'.left = r.left \ {j}
    BY <2>1
  <2>3. MyProjects \ (read'.left \union {read'.j}) = S
    BY <2>2
  <2> QED
    BY <1>0, <2>2, <2>3 DEF TotalsInv, Counted
<1> QED
  BY <1>1, <1>2

LEMMA TotalsStep == ASSUME TypeInv, ProjectInv, TotalsInv, [Next]_vars PROVE TotalsInv'
<1> SUFFICES ASSUME ~torn', read'.kind = "totals"
             PROVE  TotalsInv'
  BY DEF TotalsInv
<1> USE DEF TypeInv
<1>1. CASE Change
  <2>1. read'.pc = "idle"
    BY <1>1, ChangeTears
  <2> QED
    BY <2>1 DEF TotalsInv
<1>2. CASE ~Change
  <2>1. UNCHANGED ledgerVars
    BY <1>2 DEF Next, vars, ReadStep, AskAll, AskDashboard, AskProject, FindProjects, FindPeople,
       FindPaid, FindOwedAndSettle, FindOwedAndAdd, FindLinks, FindMyPaid, FindMyShares, FindMyOps,
       MissMyOps, Iterate, AnswerProject, Answer
  <2>2. MyProjects' = MyProjects /\ DebtsIn' = DebtsIn /\ DuesIn' = DuesIn
    BY <2>1, SharesSteady
  <2>3. CASE UNCHANGED vars
    BY <2>2, <2>3 DEF vars, TotalsInv, Counted
  <2>4. CASE AskAll \/ AskDashboard \/ \E k \in Projects : AskProject(k)
    BY <2>4 DEF AskAll, AskDashboard, AskProject, NoRead, TotalsInv
  <2>5. CASE FindProjects
    <3> DEFINE r == [read EXCEPT !.left = MyProjects]
    <3>1. /\ read.pc = "projects" /\ read.kind = "totals" /\ ~torn /\ read' \in GoOn(r)
      BY <2>5 DEF FindProjects, MyProjects, ReadInv, Kinds
    <3>2. read.toDo = 0 /\ read.toReceive = 0
      BY <3>1 DEF TotalsInv
    <3>3. /\ r.left = MyProjects /\ r.toDo = 0 /\ r.toReceive = 0
          /\ r = [pc |-> r.pc, kind |-> r.kind, j |-> r.j, left |-> r.left, people |-> r.people,
                  paid |-> r.paid, shares |-> r.shares, toDo |-> r.toDo,
                  toReceive |-> r.toReceive, mine |-> r.mine]
      BY <3>2 DEF ReadInv
    <3> HIDE DEF r
    <3>4. /\ MyProjects \ r.left = {} /\ r.toDo = Sum(DebtsIn, {})
          /\ r.toReceive = Sum(DuesIn, {}) /\ r.left \subseteq MyProjects
      BY <3>3, SumEmpty
    <3> QED
      BY <2>1, <3>1, <3>3, <3>4, TotalsGoOn
  <2>6. CASE FindPeople \/ FindPaid
    <3>1. CASE FindPeople
      BY <2>2, <3>1 DEF FindPeople, TotalsInv, Counted, ReadInv
    <3>2. CASE FindPaid
      BY <2>2, <3>2 DEF FindPaid, TotalsInv, Counted, ReadInv
    <3> QED
      BY <2>6, <3>1, <3>2
  <2>7. CASE FindOwedAndSettle \/ Iterate \/ AnswerProject \/ MissMyOps \/ Answer
    BY <2>7 DEF FindOwedAndSettle, Iterate, AnswerProject, MissMyOps, Answer, NoRead, ReadInv,
       Kinds, TotalsInv
  <2>8. CASE FindOwedAndAdd
    <3> DEFINE r == [read EXCEPT !.toDo = @ + MyDebts, !.toReceive = @ + MyDues]
               S == MyProjects \ read.left
    <3>1. /\ read.pc = "owed" /\ read.kind = "totals" /\ ~torn /\ read.j \in Projects
          /\ read' \in GoOn(r)
      BY <2>8 DEF FindOwedAndAdd, ReadInv, Kinds
    <3>2. MyDebts = DebtsIn[read.j] /\ MyDues = DuesIn[read.j]
      <4>1. PICK j \in Projects : read.j = j
        BY <3>1
      <4>2. read.people[j] = linked[j] /\ read.paid[j] = PaidNow(j)
        BY <3>1, <4>1 DEF ProjectInv
      <4>3. \A p \in Mine : Net(j, p) = Due(j, p)
        BY <4>2, LedgerAssumption DEF Net, Due, PaidNow
      <4>4. /\ [p \in Mine |-> Minus(Net(j, p))] = [p \in Mine |-> Minus(Due(j, p))]
            /\ [p \in Mine |-> Plus(Net(j, p))] = [p \in Mine |-> Plus(Due(j, p))]
        BY <4>3
      <4> QED
        BY <4>1, <4>4 DEF MyDebts, MyDues, DebtsIn, DuesIn
    <3>3. /\ read.left \subseteq MyProjects /\ read.j \in S
          /\ Counted(S \ {read.j})
      <4>1. S \ {read.j} = MyProjects \ (read.left \union {read.j})
        OBVIOUS
      <4> QED
        BY <3>1, <4>1 DEF TotalsInv
    <3>4. IsFiniteSet(S) /\ \A k \in S : DebtsIn[k] \in Int /\ DuesIn[k] \in Int
      BY LedgerAssumption, FS_Subset, ShareTypes DEF MyProjects
    <3>5. /\ Sum(DebtsIn, S) = MyDebts + Sum(DebtsIn, S \ {read.j})
          /\ Sum(DuesIn, S) = MyDues + Sum(DuesIn, S \ {read.j})
      <4> HIDE DEF S
      <4> QED
        BY <3>2, <3>3, <3>4, SumRemove
    <3>6. /\ r.left = read.left /\ r.toDo = Sum(DebtsIn, S) /\ r.toReceive = Sum(DuesIn, S)
          /\ r = [pc |-> r.pc, kind |-> r.kind, j |-> r.j, left |-> r.left, people |-> r.people,
                  paid |-> r.paid, shares |-> r.shares, toDo |-> r.toDo,
                  toReceive |-> r.toReceive, mine |-> r.mine]
      <4>1. /\ r.left = read.left /\ r.toDo = read.toDo + MyDebts
            /\ r.toReceive = read.toReceive + MyDues
            /\ r = [pc |-> r.pc, kind |-> r.kind, j |-> r.j, left |-> r.left, people |-> r.people,
                    paid |-> r.paid, shares |-> r.shares, toDo |-> r.toDo,
                    toReceive |-> r.toReceive, mine |-> r.mine]
        <5>1. r = [pc |-> read.pc, kind |-> read.kind, j |-> read.j, left |-> read.left,
                   people |-> read.people, paid |-> read.paid, shares |-> read.shares,
                   toDo |-> read.toDo + MyDebts, toReceive |-> read.toReceive + MyDues,
                   mine |-> read.mine]
          <6> DEFINE a == read.toDo + MyDebts
                     b == read.toReceive + MyDues
          <6>1. r = [read EXCEPT !.toDo = a, !.toReceive = b]
            OBVIOUS
          <6>2. read = [pc |-> read.pc, kind |-> read.kind, j |-> read.j, left |-> read.left,
                        people |-> read.people, paid |-> read.paid, shares |-> read.shares,
                        toDo |-> read.toDo, toReceive |-> read.toReceive, mine |-> read.mine]
            BY DEF ReadInv
          <6> HIDE DEF a, b, r
          <6>3. r = [pc |-> read.pc, kind |-> read.kind, j |-> read.j, left |-> read.left,
                     people |-> read.people, paid |-> read.paid, shares |-> read.shares,
                     toDo |-> a, toReceive |-> b, mine |-> read.mine]
            BY <6>1, <6>2
          <6> QED
            BY <6>3 DEF a, b
        <5> HIDE DEF r
        <5> QED
          BY <5>1
      <4>2. /\ read.toDo \in Nat /\ read.toReceive \in Nat /\ MyDebts \in Nat /\ MyDues \in Nat
        BY <3>1, MyTypes DEF ReadInv
      <4> HIDE DEF r, S
      <4> QED
        BY <3>3, <3>5, <4>1, <4>2 DEF Counted
    <3> HIDE DEF r
    <3> QED
      BY <2>1, <3>1, <3>3, <3>6, TotalsGoOn
  <2>9. CASE FindLinks \/ FindMyPaid \/ FindMyShares \/ FindMyOps
    <3>1. read'.kind = read.kind /\ read.kind = "dashboard"
      BY <2>9 DEF FindLinks, FindMyPaid, FindMyShares, FindMyOps, ReadInv, Kinds
    <3> QED
      BY <3>1
  <2> QED
    BY <1>2, <2>3, <2>4, <2>5, <2>6, <2>7, <2>8, <2>9 DEF Next, ReadStep
<1> QED
  BY <1>1, <1>2

\* The totals over all projects are what the ledger says, project by project, unless
\* something changed meanwhile.
THEOREM TotalsAreRight == Spec => []TotalsAreTheLedger
<1>1. Init => ProjectInv /\ TotalsInv
  BY DEF Init, NoRead, ProjectInv, TotalsInv
<1>2. TypeInv /\ ProjectInv /\ TotalsInv /\ [Next]_vars => ProjectInv' /\ TotalsInv'
  BY ProjectStep, TotalsStep
<1>3. TypeInv /\ TotalsInv => TotalsAreTheLedger
  <2> SUFFICES ASSUME TypeInv, Counted(MyProjects)
               PROVE  read.toDo = MyShare(Minus) /\ read.toReceive = MyShare(Plus)
    BY DEF TotalsInv, TotalsAreTheLedger
  <2>1. IsFiniteSet(Projects) /\ MyProjects \in SUBSET Projects
    BY LedgerAssumption DEF MyProjects
  <2>2. ASSUME NEW j \in Projects
        PROVE  /\ DebtsIn[j] \in Int /\ DuesIn[j] \in Int
               /\ j \notin MyProjects => DebtsIn[j] = 0 /\ DuesIn[j] = 0
    <3>1. j \notin MyProjects => linked[j] \intersect Mine = {}
      BY DEF MyProjects
    <3>2. DebtsIn[j] \in Nat /\ DuesIn[j] \in Nat
      BY ShareTypes
    <3>3. linked[j] \intersect Mine = {} => DebtsIn[j] = 0 /\ DuesIn[j] = 0
      BY ShareTypes
    <3> QED
      BY <3>1, <3>2, <3>3
  <2>3. Sum(DebtsIn, Projects) = Sum(DebtsIn, MyProjects)
    <3>1. \A j \in Projects : /\ DebtsIn[j] \in Int
                             /\ DebtsIn[j] = IF j \in MyProjects THEN DebtsIn[j] ELSE 0
      BY <2>2
    <3> QED
      BY <2>1, <3>1, SumPart
  <2>4. Sum(DuesIn, Projects) = Sum(DuesIn, MyProjects)
    <3>1. \A j \in Projects : /\ DuesIn[j] \in Int
                             /\ DuesIn[j] = IF j \in MyProjects THEN DuesIn[j] ELSE 0
      BY <2>2
    <3> QED
      BY <2>1, <3>1, SumPart
  <2>5. MyShare(Minus) = SumFunction(DebtsIn) /\ MyShare(Plus) = SumFunction(DuesIn)
    BY DEF MyShare, DebtsIn, DuesIn
  <2>6. DOMAIN DebtsIn = Projects /\ DOMAIN DuesIn = Projects
    BY DEF DebtsIn, DuesIn
  <2> QED
    BY <2>3, <2>4, <2>5, <2>6 DEF Counted, SumFunction, Sum
<1> QED
  BY <1>1, <1>2, <1>3, TypeInvariant, PTL DEF Spec

-----------------------------------------------------------------------------
(* The balances of a project sum to zero, expense by expense, if its expenses *)
(* refer to its participants only.                                            *)

PaidIn(p, o)   == IF expense[o].payer = p THEN AmountOf(expense[o]) ELSE 0
OwedIn(p, o)   == expense[o].shares[p]
MovedIn(p, o)  == PaidIn(p, o) - OwedIn(p, o)

LEMMA ExpenseTypes ==
    ASSUME TypeInv, NEW j, NEW o \in Recorded(j)
    PROVE  /\ expense[o] \in Expenses /\ expense[o].project = j
           /\ expense[o].payer \in People /\ expense[o].shares \in [People -> Nat]
           /\ AmountOf(expense[o]) \in Nat
           /\ \A p \in People : /\ PaidIn(p, o) \in Int /\ OwedIn(p, o) \in Int
                               /\ MovedIn(p, o) \in Int
<1>1. expense[o] \in Expenses /\ expense[o].project = j
  BY DEF TypeInv, LedgerInv, Recorded
<1>2. /\ expense[o].payer \in People /\ expense[o].shares \in [People -> Nat]
      /\ AmountOf(expense[o]) \in Nat
  BY <1>1, LedgerAssumption, AmountType
<1> QED
  BY <1>1, <1>2 DEF PaidIn, OwedIn, MovedIn

LEMMA RecordedFinite == ASSUME NEW j PROVE IsFiniteSet(Recorded(j))
BY LedgerAssumption, FS_Subset DEF Recorded

\* What one is due is what the expenses moved.
LEMMA DueByExpense ==
    ASSUME TypeInv, NEW j \in Projects, OwnPeople(j), NEW p \in People
    PROVE  Due(j, p) = Sum([o \in Recorded(j) |-> MovedIn(p, o)], Recorded(j))
<1> DEFINE R == Recorded(j)
           S == PaidFor(j, p)
           u == [o \in R |-> MovedIn(p, o)]
           v == [o \in R |-> PaidIn(p, o)]
           w == [o \in R |-> OwedIn(p, o)]
           a == [o \in S |-> AmountOf(expense[o])]
<1>0. IsFiniteSet(R) /\ S \in SUBSET R
  BY RecordedFinite DEF PaidFor
<1>1. Paid(j, p) = Sum(v, R)
  <2>1. \A o \in R : v[o] \in Int /\ v[o] = IF o \in S THEN a[o] ELSE 0
    BY ExpenseTypes DEF PaidIn, PaidFor
  <2>2. Sum(v, R) = Sum(a, S)
    <3> HIDE DEF R, S, v, a
    <3> QED
      BY <1>0, <2>1, SumPart
  <2>3. DOMAIN a = S /\ Paid(j, p) = SumFunctionOnSet(a, DOMAIN a)
    BY DEF Paid, SumFunction
  <2> HIDE DEF R, S, v, a
  <2> QED
    BY <2>2, <2>3 DEF Sum
<1>2. Owed(j, p) = Sum(w, R)
  <2>1. DOMAIN w = R /\ Owed(j, p) = SumFunctionOnSet(w, DOMAIN w)
    BY DEF Owed, OwedIn, SumFunction
  <2> HIDE DEF R, w
  <2> QED
    BY <2>1 DEF Sum
<1>3. \A o \in R : v[o] \in Int /\ u[o] \in Int /\ w[o] \in Int /\ v[o] = u[o] + w[o]
  BY ExpenseTypes DEF MovedIn
<1>4. Sum(v, R) = Sum(u, R) + Sum(w, R) /\ Sum(u, R) \in Int /\ Sum(w, R) \in Int
  <2> HIDE DEF R, u, v, w
  <2>1. Sum(v, R) = Sum(u, R) + Sum(w, R)
    BY <1>0, <1>3, SumPlus
  <2>2. Sum(u, R) \in Int
    BY <1>0, <1>3, SumType
  <2>3. Sum(w, R) \in Int
    BY <1>0, <1>3, SumType
  <2> QED
    BY <2>1, <2>2, <2>3
<1>5. CASE p \in linked[j]
  <2>1. Due(j, p) = Paid(j, p) - Owed(j, p)
    BY <1>5 DEF Due
  <2>2. ASSUME NEW x \in Int, NEW y \in Int, NEW z, z = x + y
        PROVE  z - y = x
    BY <2>2
  <2>3. Due(j, p) = Sum(u, R)
    <3> HIDE DEF R, u, v, w
    <3> QED
      BY <1>1, <1>2, <1>4, <2>1, <2>2
  <2> QED
    BY <2>3
\* No expense mentions anyone else.
<1>6. CASE p \notin linked[j]
  <2>1. \A o \in R : u[o] = 0
    <3> SUFFICES ASSUME NEW o \in R
                 PROVE  MovedIn(p, o) = 0
      OBVIOUS
    <3>1. Refs(expense[o]) \subseteq linked[j] /\ expense[o].shares \in [People -> Nat]
      BY ExpenseTypes DEF OwnPeople
    <3>2. expense[o].payer # p /\ expense[o].shares[p] = 0
      BY <1>6, <3>1 DEF Refs
    <3> QED
      BY <3>2 DEF MovedIn, PaidIn, OwedIn
  <2>2. Sum(u, R) = 0
    <3> HIDE DEF R, u
    <3> QED
      BY <1>0, <2>1, SumZero
  <2> QED
    BY <1>6, <2>2 DEF Due
<1> QED
  BY <1>5, <1>6

\* What the shares of an expense take is what its payer gave.
LEMMA ExpenseEvensOut ==
    ASSUME TypeInv, NEW j, NEW o \in Recorded(j)
    PROVE  Sum([p \in People |-> MovedIn(p, o)], People) = 0
<1> DEFINE u == [p \in People |-> MovedIn(p, o)]
           v == [p \in People |-> PaidIn(p, o)]
           e == expense[o]
           a == [p \in People |-> AmountOf(e)]
           T == {e.payer}
<1>0. IsFiniteSet(People)
  BY LedgerAssumption
<1>1. e.payer \in People /\ e.shares \in [People -> Nat] /\ AmountOf(e) \in Int
  BY ExpenseTypes
<1>2. Sum(v, People) = AmountOf(e)
  <2>1. T \in SUBSET People /\ \A p \in People : v[p] \in Int /\ v[p] = IF p \in T THEN a[p] ELSE 0
    BY <1>1, ExpenseTypes DEF PaidIn
  <2>2. Sum(v, People) = Sum(a, T)
    <3> HIDE DEF v, a, T
    <3> QED
      BY <1>0, <2>1, SumPart
  <2>3. a[e.payer] = AmountOf(e)
    BY <1>1
  <2>4. Sum(a, T) = a[e.payer]
    <3> HIDE DEF a
    <3> QED
      BY <1>1, <2>3, SumSingle
  <2> QED
    BY <2>2, <2>3, <2>4
<1>3. Sum(e.shares, People) = AmountOf(e)
  <2>1. DOMAIN e.shares = People
    BY <1>1
  <2> QED
    BY <2>1 DEF AmountOf, SumFunction, Sum
<1>4. \A p \in People : /\ v[p] \in Int /\ u[p] \in Int /\ e.shares[p] \in Int
                       /\ v[p] = u[p] + e.shares[p]
  BY ExpenseTypes DEF MovedIn, OwedIn
<1>5. Sum(v, People) = Sum(u, People) + Sum(e.shares, People) /\ Sum(u, People) \in Int
  <2> HIDE DEF u, v, e
  <2> QED
    BY <1>0, <1>4, SumPlus, SumType
<1>6. Sum(u, People) = 0
  <2> HIDE DEF u, v, e
  <2> QED
    BY <1>1, <1>2, <1>3, <1>5
<1> QED
  BY <1>6

LEMMA BalancesEvenOut ==
    ASSUME TypeInv, NEW j \in Projects, OwnPeople(j)
    PROVE  Sum([p \in People |-> Due(j, p)], People) = 0
<1> DEFINE R == Recorded(j)
           m == [p \in People |-> [o \in R |-> MovedIn(p, o)]]
           b == [p \in People |-> Sum([o \in R |-> m[p][o]], R)]
           e == [o \in R |-> Sum([p \in People |-> m[p][o]], People)]
<1>0. IsFiniteSet(People) /\ IsFiniteSet(R)
  BY LedgerAssumption, RecordedFinite
<1>1. \A p \in People, o \in R : m[p][o] = MovedIn(p, o) /\ m[p][o] \in Int
  BY ExpenseTypes
<1>2. Sum(b, People) = Sum(e, R)
  <2> HIDE DEF m, R
  <2> QED
    BY <1>0, <1>1, SumExchange
<1>3. Sum(e, R) = 0
  <2>1. ASSUME NEW o \in R
        PROVE  e[o] = 0
    <3>1. [p \in People |-> m[p][o]] = [p \in People |-> MovedIn(p, o)]
      OBVIOUS
    <3> HIDE DEF m
    <3> QED
      BY <3>1, ExpenseEvensOut
  <2> HIDE DEF e, R
  <2> QED
    BY <1>0, <2>1, SumZero
<1>4. b = [p \in People |-> Due(j, p)]
  <2>1. ASSUME NEW p \in People
        PROVE  Sum([o \in R |-> m[p][o]], R) = Due(j, p)
    <3>1. [o \in R |-> m[p][o]] = [o \in R |-> MovedIn(p, o)]
      OBVIOUS
    <3> HIDE DEF m
    <3> QED
      BY <3>1, DueByExpense
  <2> HIDE DEF m, R
  <2> QED
    BY <2>1
<1> HIDE DEF b, e, m, R
<1> QED
  BY <1>2, <1>3, <1>4

-----------------------------------------------------------------------------
(* The loop, on balances that sum to zero. *)

\* No payment is left unrecorded: the loop makes fewer than there are people.
RoomForPayments == Cardinality(People) <= MaxPayments

Payment == [from : People, to : People, amount : Int]

PaymentsInv ==
    (~Misled /\ read.pc = "loop") =>
       /\ Sum(balance, People) = 0
       /\ open = Loop!Unsettled(balance)
       /\ payments \in Seq(Payment)
       /\ Len(payments) + Cardinality(open) <= Cardinality(People)
       /\ \A p \in People : /\ PaidTo(p) = Plus(given[p]) - Plus(balance[p])
                           /\ PaidBy(p) = Minus(given[p]) - Minus(balance[p])

\* A payment of k by d to c settles one of them.
Pays(c, d, k) ==
    /\ c \in open /\ d \in open /\ c # d
    /\ k \in Int /\ 0 < k /\ k <= balance[c] /\ k <= -balance[d]
    /\ k = balance[c] \/ k = -balance[d]
    /\ balance' = [balance EXCEPT ![c] = @ - k, ![d] = @ + k]
    /\ open' = open \ {p \in {c, d} : balance'[p] = 0}
    /\ payments' = Loop!Record(d, c, k)

LEMMA IterationPays ==
    ASSUME LoopInv, Sum(balance, People) = 0, open = Loop!Unsettled(balance),
           NEW c \in People, NEW d \in People, Loop!Reimburse(c, d)
    PROVE  Pays(c, d, Loop!Amount(c, d))
<1>1. /\ c \in open /\ d \in open /\ c # d
      /\ \A p \in open : balance[d] <= balance[p] /\ balance[p] <= balance[c]
  BY DEF Loop!Reimburse, Loop!Creditor, Loop!Debtor
<1>2. balance[c] # 0 /\ \A p \in People : balance[p] \in Int
  BY <1>1 DEF Loop!Unsettled, LoopInv
<1>3. (\E p \in People : balance[p] > 0) /\ (\E p \in People : balance[p] < 0)
  BY <1>2, SumBothSigns, LedgerAssumption
<1>4. (\E p \in open : balance[p] > 0) /\ (\E p \in open : balance[p] < 0)
  BY <1>2, <1>3 DEF Loop!Unsettled
<1>5. balance[c] > 0 /\ balance[d] < 0
  BY <1>1, <1>2, <1>4 DEF Loop!Unsettled
<1>6. /\ Loop!Amount(c, d) \in Int /\ 0 < Loop!Amount(c, d)
      /\ Loop!Amount(c, d) <= balance[c] /\ Loop!Amount(c, d) <= -balance[d]
      /\ Loop!Amount(c, d) = balance[c] \/ Loop!Amount(c, d) = -balance[d]
  BY <1>2, <1>5 DEF Loop!Amount, Loop!Abs
<1> QED
  BY <1>1, <1>6 DEF Pays, Loop!Reimburse

\* What is recorded counts for the two, and for nobody else.
LEMMA RecordAdds ==
    ASSUME NEW from \in People, NEW to \in People, NEW k \in Int, payments \in Seq(Payment),
           payments' = Append(payments, [from |-> from, to |-> to, amount |-> k]), NEW p
    PROVE  /\ PaidTo(p)' = PaidTo(p) + (IF p = to THEN k ELSE 0) /\ PaidTo(p) \in Int
           /\ PaidBy(p)' = PaidBy(p) + (IF p = from THEN k ELSE 0) /\ PaidBy(p) \in Int
<1> DEFINE D  == DOMAIN payments
           n  == Len(payments) + 1
           to0   == [i \in D |-> IF payments[i].to = p THEN payments[i].amount ELSE 0]
           to1   == [i \in D \union {n} |-> IF payments'[i].to = p THEN payments'[i].amount ELSE 0]
           from0 == [i \in D |-> IF payments[i].from = p THEN payments[i].amount ELSE 0]
           from1 == [i \in D \union {n} |-> IF payments'[i].from = p THEN payments'[i].amount ELSE 0]
<1>1. /\ n \in Nat /\ D = 1 .. Len(payments) /\ Len(payments) \in Nat
      /\ n \notin D /\ DOMAIN payments' = D \union {n}
      /\ payments'[n] = [from |-> from, to |-> to, amount |-> k]
      /\ \A i \in D : payments'[i] = payments[i] /\ payments[i] \in Payment
  OBVIOUS
<1>2. IsFiniteSet(D)
  BY <1>1, FS_Interval
<1>3. /\ \A i \in D : /\ to0[i] \in Int /\ to0[i] = to1[i]
                     /\ from0[i] \in Int /\ from0[i] = from1[i]
      /\ to1[n] = IF p = to THEN k ELSE 0
      /\ from1[n] = IF p = from THEN k ELSE 0
  BY <1>1 DEF Payment
<1>4. /\ DOMAIN to0 = D /\ DOMAIN to1 = D \union {n}
      /\ DOMAIN from0 = D /\ DOMAIN from1 = D \union {n}
  OBVIOUS
<1>5. /\ PaidTo(p) = SumFunction(to0) /\ PaidTo(p)' = SumFunction(to1)
      /\ PaidBy(p) = SumFunction(from0) /\ PaidBy(p)' = SumFunction(from1)
  BY <1>1 DEF PaidTo, PaidBy
<1> HIDE DEF D, n, to0, to1, from0, from1
<1>6. to1[n] \in Int /\ from1[n] \in Int
  BY <1>3
<1>7. Sum(to1, D \union {n}) = Sum(to0, D) + to1[n] /\ Sum(to0, D) \in Int
  <2>1. \A i \in D : to0[i] \in Int /\ to0[i] = to1[i]
    BY <1>3
  <2>2. n \notin D
    BY <1>1
  <2> QED
    BY <1>2, <1>6, <2>1, <2>2, SumAdd
<1>8. Sum(from1, D \union {n}) = Sum(from0, D) + from1[n] /\ Sum(from0, D) \in Int
  <2>1. \A i \in D : from0[i] \in Int /\ from0[i] = from1[i]
    BY <1>3
  <2>2. n \notin D
    BY <1>1
  <2> QED
    BY <1>2, <1>6, <2>1, <2>2, SumAdd
<1> QED
  BY <1>3, <1>4, <1>5, <1>7, <1>8 DEF SumFunction, Sum

\* Those who are settled leave, and with each payment at least one does.
LEMMA PaymentSettles ==
    ASSUME LoopInv, open = Loop!Unsettled(balance),
           NEW c \in People, NEW d \in People, NEW k, Pays(c, d, k)
    PROVE  /\ balance' \in [People -> Int]
           /\ balance'[c] = balance[c] - k /\ balance'[d] = balance[d] + k
           /\ \A p \in People : p # c /\ p # d => balance'[p] = balance[p]
           /\ open' = Loop!Unsettled(balance')
           /\ Cardinality(open) \in Nat /\ Cardinality(open') \in Nat
           /\ Cardinality(open') < Cardinality(open)
<1>1. /\ balance' \in [People -> Int]
      /\ balance'[c] = balance[c] - k /\ balance'[d] = balance[d] + k
      /\ \A p \in People : p # c /\ p # d => balance'[p] = balance[p]
  BY DEF LoopInv, Pays
<1>2. open' = Loop!Unsettled(balance')
  BY <1>1 DEF Pays, Loop!Unsettled
<1>3. PICK p \in {c, d} : p \in open /\ p \notin open'
  <2>1. balance[c] \in Int /\ balance[d] \in Int /\ c \in open /\ d \in open
    BY DEF LoopInv, Pays
  <2>2. balance'[c] = 0 \/ balance'[d] = 0
    BY <1>1, <2>1 DEF Pays
  <2> QED
    BY <1>2, <2>1, <2>2 DEF Loop!Unsettled
<1>4. open' \subseteq open \ {p} /\ IsFiniteSet(open)
  BY <1>3, LedgerAssumption, FS_Subset DEF Pays, LoopInv
<1>5. /\ IsFiniteSet(open \ {p}) /\ Cardinality(open \ {p}) = Cardinality(open) - 1
      /\ Cardinality(open) \in Nat
  BY <1>3, <1>4, FS_RemoveElement, FS_CardinalityType
<1>6. IsFiniteSet(open') /\ Cardinality(open') <= Cardinality(open \ {p})
  BY <1>4, <1>5, FS_Subset
<1>7. Cardinality(open') \in Nat
  BY <1>6, FS_CardinalityType
<1> QED
  BY <1>1, <1>2, <1>5, <1>6, <1>7

LEMMA IterationStep ==
    ASSUME RoomForPayments, TypeInv, PaymentsInv, ~Misled, Iterate
    PROVE  PaymentsInv'
<1> USE DEF TypeInv
<1>1. /\ read.pc = "loop" /\ read' = read /\ torn' = torn /\ Loop!Next
  BY DEF Iterate
<1>2. PICK c \in People, d \in People : Loop!Reimburse(c, d)
  BY <1>1 DEF Loop!Next
<1> DEFINE k == Loop!Amount(c, d)
<1>3. /\ Sum(balance, People) = 0 /\ open = Loop!Unsettled(balance)
      /\ payments \in Seq(Payment)
      /\ Len(payments) + Cardinality(open) <= Cardinality(People)
      /\ \A p \in People : /\ PaidTo(p) = Plus(given[p]) - Plus(balance[p])
                          /\ PaidBy(p) = Minus(given[p]) - Minus(balance[p])
  BY <1>1 DEF PaymentsInv
<1>4. Pays(c, d, k) /\ given' = given
  BY <1>2, <1>3, IterationPays DEF Loop!Reimburse
<1> HIDE DEF k
<1>5. /\ balance' \in [People -> Int] /\ balance \in [People -> Int] /\ given \in [People -> Int]
      /\ balance'[c] = balance[c] - k /\ balance'[d] = balance[d] + k
      /\ \A p \in People : p # c /\ p # d => balance'[p] = balance[p]
      /\ open' = Loop!Unsettled(balance')
      /\ Cardinality(open) \in Nat /\ Cardinality(open') \in Nat
      /\ Cardinality(open') < Cardinality(open)
  BY <1>3, <1>4, PaymentSettles DEF LoopInv
<1>6. c # d /\ k \in Int /\ 0 < k /\ k <= balance[c] /\ k <= -balance[d]
  BY <1>4 DEF Pays
<1>7. Sum(balance', People) = 0
  <2>1. IsFiniteSet(People) /\ c \in People /\ d \in People
    BY LedgerAssumption
  <2>2. Sum(balance', People) = Sum(balance, People)
    BY <1>5, <1>6, <2>1, SumTransfer
  <2> QED
    BY <1>3, <2>2
<1>8. /\ payments' = Append(payments, [from |-> d, to |-> c, amount |-> k])
      /\ payments' \in Seq(Payment) /\ Len(payments') = Len(payments) + 1 /\ Len(payments) \in Nat
  <2>1. Len(payments) # MaxPayments
    <3>1. Cardinality(People) \in Nat /\ Len(payments) \in Nat
      BY <1>3, LedgerAssumption, FS_CardinalityType
    <3> QED
      BY <1>3, <1>5, <3>1, LedgerAssumption DEF RoomForPayments
  <2>2. payments' = Append(payments, [from |-> d, to |-> c, amount |-> k])
    BY <1>4, <2>1 DEF Pays, Loop!Record
  <2>3. [from |-> d, to |-> c, amount |-> k] \in Payment
    BY <1>6 DEF Payment
  <2> QED
    BY <1>3, <2>2, <2>3
<1>9. Len(payments') + Cardinality(open') <= Cardinality(People)
  <2>1. Cardinality(People) \in Nat
    BY LedgerAssumption, FS_CardinalityType
  <2> QED
    BY <1>3, <1>5, <1>8, <2>1
<1>10. ASSUME NEW p \in People
       PROVE  /\ PaidTo(p)' = Plus(given'[p]) - Plus(balance'[p])
              /\ PaidBy(p)' = Minus(given'[p]) - Minus(balance'[p])
  <2>1. /\ PaidTo(p)' = PaidTo(p) + (IF p = c THEN k ELSE 0)
        /\ PaidBy(p)' = PaidBy(p) + (IF p = d THEN k ELSE 0)
    BY <1>3, <1>6, <1>8, RecordAdds
  <2>2. /\ PaidTo(p) = Plus(given[p]) - Plus(balance[p])
        /\ PaidBy(p) = Minus(given[p]) - Minus(balance[p])
        /\ given[p] \in Int /\ balance[p] \in Int /\ balance'[p] \in Int /\ given'[p] = given[p]
    BY <1>3, <1>4, <1>5
  <2> QED
    BY <1>5, <1>6, <2>1, <2>2 DEF Plus, Minus
<1> QED
  BY <1>5, <1>7, <1>8, <1>9, <1>10 DEF PaymentsInv

\* The loop starts from what everybody is due.
LEMMA LoopStarts ==
    ASSUME TypeInv, ProjectInv, ~Misled, FindOwedAndSettle
    PROVE  PaymentsInv'
<1> USE DEF TypeInv
<1>1. PICK j \in Projects : read.j = j
  BY DEF FindOwedAndSettle, ReadInv, Kinds
<1>2. /\ given' = [p \in People |-> Net(j, p)] /\ balance' = given' /\ payments' = <<>>
      /\ open' = Loop!Unsettled(given')
  BY <1>1 DEF FindOwedAndSettle
<1>3. read.people[j] = linked[j] /\ read.paid[j] = PaidNow(j) /\ OwnPeople(j)
  BY <1>1 DEF FindOwedAndSettle, ProjectInv, Misled
<1>4. \A p \in People : Net(j, p) = Due(j, p) /\ Net(j, p) \in Int
  BY <1>3, NetType DEF Net, Due, PaidNow
<1>5. Sum(balance', People) = 0
  <2>1. balance' = [p \in People |-> Due(j, p)]
    BY <1>2, <1>4
  <2> QED
    BY <1>3, <2>1, BalancesEvenOut
<1>6. Cardinality(open') <= Cardinality(People) /\ Cardinality(open') \in Nat
  <2>1. open' \subseteq People
    BY <1>2 DEF Loop!Unsettled
  <2> QED
    BY <2>1, LedgerAssumption, FS_Subset, FS_CardinalityType
<1>7. ASSUME NEW p \in People
      PROVE  PaidTo(p)' = 0 /\ PaidBy(p)' = 0
  <2> DEFINE to   == [i \in {} |-> IF payments'[i].to = p THEN payments'[i].amount ELSE 0]
             from == [i \in {} |-> IF payments'[i].from = p THEN payments'[i].amount ELSE 0]
  <2>1. DOMAIN to = {} /\ DOMAIN from = {} /\ DOMAIN payments' = {}
    BY <1>2
  <2>2. PaidTo(p)' = SumFunction(to) /\ PaidBy(p)' = SumFunction(from)
    BY <2>1 DEF PaidTo, PaidBy
  <2> HIDE DEF to, from
  <2> QED
    BY <2>1, <2>2, SumEmpty DEF SumFunction, Sum
<1>8. \A p \in People : /\ PaidTo(p)' = Plus(given'[p]) - Plus(balance'[p])
                       /\ PaidBy(p)' = Minus(given'[p]) - Minus(balance'[p])
  BY <1>2, <1>4, <1>7 DEF Plus, Minus
<1>9. payments' \in Seq(Payment) /\ Len(payments') = 0
  BY <1>2
<1> QED
  BY <1>2, <1>5, <1>6, <1>8, <1>9 DEF PaymentsInv

LEMMA PaymentsStep ==
    ASSUME RoomForPayments, TypeInv, ProjectInv, PaymentsInv, [Next]_vars
    PROVE  PaymentsInv'
<1> SUFFICES ASSUME ~Misled', read'.pc = "loop"
             PROVE  PaymentsInv'
  BY DEF PaymentsInv
<1> USE DEF TypeInv
<1>1. CASE UNCHANGED vars
  <2>1. ~Misled
    BY <1>1, StillMisled DEF vars
  <2> QED
    BY <1>1, <2>1 DEF vars, loopVars, PaymentsInv, PaidTo, PaidBy
<1>2. CASE Change
  BY <1>2, ChangeTears DEF Misled
<1>3. CASE AskAll \/ AskDashboard \/ \E k \in Projects : AskProject(k)
  BY <1>3 DEF AskAll, AskDashboard, AskProject, NoRead
<1>4. CASE FindProjects \/ FindOwedAndAdd
  BY <1>4 DEF FindProjects, FindOwedAndAdd, GoOn, ReadInv
<1>5. CASE FindPeople \/ FindPaid
  BY <1>5 DEF FindPeople, FindPaid, ReadInv
<1>6. CASE FindOwedAndSettle
  <2>1. ~Misled
    BY <1>6, StillMisled DEF FindOwedAndSettle, ReadInv
  <2> QED
    BY <1>6, <2>1, LoopStarts
<1>7. CASE FindLinks \/ FindMyPaid
  BY <1>7 DEF FindLinks, FindMyPaid, ReadInv
<1>8. CASE FindMyShares \/ FindMyOps
  BY <1>8 DEF FindMyShares, FindMyOps, ReadInv
<1>9. CASE Iterate
  <2>1. ~Misled
    BY <1>9, StillMisled DEF Iterate
  <2> QED
    BY <1>9, <2>1, IterationStep
<1>10. CASE MissMyOps \/ AnswerProject \/ Answer
  BY <1>10 DEF MissMyOps, AnswerProject, Answer, NoRead
<1> QED
  BY <1>1, <1>2, <1>3, <1>4, <1>5, <1>6, <1>7, <1>8, <1>9, <1>10 DEF Next, ReadStep

\* The payments the user is shown are what the ledger says, for any number of people:
\* debtors pay what they owe and receive nothing, creditors receive what they are due
\* and pay nothing, unless something changed while the balances were read or an expense
\* of the project refers to somebody who is not in it.
THEOREM ShownPaymentsAreRight ==
    ASSUME RoomForPayments
    PROVE  Spec => []ShownPaymentsSettle
<1>1. Init => ProjectInv /\ PaymentsInv
  BY DEF Init, NoRead, ProjectInv, PaymentsInv
<1>2. TypeInv /\ ProjectInv /\ PaymentsInv /\ [Next]_vars => ProjectInv' /\ PaymentsInv'
  BY ProjectStep, PaymentsStep
<1>3. TypeInv /\ ProjectInv /\ PaymentsInv => ShownPaymentsSettle
  <2> SUFFICES ASSUME TypeInv, ProjectInv, PaymentsInv, read.pc = "loop", Loop!Done,
                      ~Misled, NEW p \in People
               PROVE  PaidBy(p) = Minus(Due(read.j, p)) /\ PaidTo(p) = Plus(Due(read.j, p))
    BY DEF ShownPaymentsSettle
  <2>1. given[p] = Due(read.j, p) /\ given[p] \in Int
    <3>1. read.j \in Projects
      BY DEF TypeInv, ReadInv, Kinds
    <3> QED
      BY <3>1 DEF TypeInv, LoopInv, ProjectInv, Misled
  <2>2. /\ Sum(balance, People) = 0 /\ open = Loop!Unsettled(balance)
        /\ \A q \in People : balance[q] \in Int
    BY DEF TypeInv, LoopInv, PaymentsInv
  <2>3. balance[p] = 0
    <3> SUFFICES ASSUME balance[p] # 0
                 PROVE  FALSE
      OBVIOUS
    <3>1. (\E q \in People : balance[q] > 0) /\ (\E q \in People : balance[q] < 0)
      BY <2>2, SumBothSigns, LedgerAssumption
    <3>2. PICK q \in open, r \in open : q # r
      BY <2>2, <3>1 DEF Loop!Unsettled
    <3>3. IsFiniteSet(open)
      BY LedgerAssumption, FS_Subset DEF TypeInv, LoopInv
    <3>4. /\ IsFiniteSet(open \ {q}) /\ Cardinality(open \ {q}) = Cardinality(open) - 1
          /\ Cardinality(open) \in Nat
      BY <3>2, <3>3, FS_RemoveElement, FS_CardinalityType
    <3>5. Cardinality(open \ {q}) \in Nat /\ Cardinality(open \ {q}) # 0
      <4>1. open \ {q} # {}
        BY <3>2
      <4> QED
        BY <3>4, <4>1, FS_CardinalityType, FS_EmptySet
    <3>6. Loop!Cardinality(open) = Cardinality(open)
      BY Zenon DEF Loop!Cardinality, Cardinality
    <3> QED
      BY <3>4, <3>5, <3>6 DEF Loop!Done
  <2>4. /\ PaidTo(p) = Plus(given[p]) - Plus(balance[p])
        /\ PaidBy(p) = Minus(given[p]) - Minus(balance[p])
    BY DEF PaymentsInv
  <2> QED
    BY <2>1, <2>3, <2>4 DEF Plus, Minus
<1> QED
  BY <1>1, <1>2, <1>3, TypeInvariant, PTL DEF Spec

-----------------------------------------------------------------------------
(* A read comes to its answer in a number of steps known beforehand. *)

\* What is left to a read, by the point it is at, before and after a step.
LEMMA StagesOfReads ==
    LET n == Cardinality(People)
        At(pc, k)  == read.pc = pc => StepsLeft = k
        Then(pc, k) == read'.pc = pc => StepsLeft' = k
        left == 3 * Cardinality(read.left)
        then == 3 * Cardinality(read'.left)
    IN  /\ At("answer", 1)             /\ Then("answer", 1)
        /\ At("loop", 1 + Cardinality(open)) /\ Then("loop", 1 + Cardinality(open'))
        /\ At("owed", 2 + n + left)    /\ Then("owed", 2 + n + then)
        /\ At("paid", 3 + n + left)    /\ Then("paid", 3 + n + then)
        /\ At("people", 4 + n + left)  /\ Then("people", 4 + n + then)
        /\ At("projects", 5 + n + 3 * Cardinality(Projects))
        /\ At("links", 5) /\ At("my-paid", 4) /\ At("my-shares", 3) /\ At("my-ops", 2)
        /\ Then("my-paid", 4) /\ Then("my-shares", 3) /\ Then("my-ops", 2)
        /\ Then("idle", 0)
BY Zenon DEF StepsLeft

\* To go on with the next project takes fewer steps than were left before.
LEMMA GoingOnAdvances ==
    ASSUME NEW r, NEW n \in Nat, IsFiniteSet(r.left), r = [r EXCEPT !.pc = r.pc],
           {"pc", "j", "left"} \subseteq DOMAIN r,
           n = Cardinality(People), read' \in GoOn(r)
    PROVE  StepsLeft' < 2 + n + 3 * Cardinality(r.left) /\ StepsLeft' \in Int
<1>1. Cardinality(r.left) \in Nat
  BY FS_CardinalityType
<1>2. CASE read' = [r EXCEPT !.pc = "answer"]
  <2>1. read'.pc = "answer"
    BY <1>2
  <2> QED
    BY <1>1, <2>1, StagesOfReads
<1>3. ASSUME NEW j \in r.left, read' = [r EXCEPT !.pc = "people", !.j = j, !.left = @ \ {j}]
      PROVE  StepsLeft' < 2 + n + 3 * Cardinality(r.left) /\ StepsLeft' \in Int
  <2>1. read'.pc = "people" /\ read'.left = r.left \ {j}
    BY <1>3
  <2>2. Cardinality(r.left \ {j}) = Cardinality(r.left) - 1
    BY FS_RemoveElement
  <2> QED
    BY <1>1, <2>1, <2>2, StagesOfReads
<1> QED
  BY <1>2, <1>3 DEF GoOn

\* What the loop runs on, unless it is misled, is what it comes to an end with.
SumsInv == (read.pc = "loop" /\ ~Misled) =>
              Sum(balance, People) = 0 /\ open = Loop!Unsettled(balance)

\* An iteration settles somebody for good.
LEMMA IterationAdvances ==
    ASSUME TypeInv, SumsInv, ~Misled, Iterate
    PROVE  SumsInv' /\ StepsLeft' < StepsLeft
<1>1. /\ read.pc = "loop" /\ read' = read /\ Loop!Next
      /\ Sum(balance, People) = 0 /\ open = Loop!Unsettled(balance) /\ LoopInv
  BY DEF Iterate, SumsInv, TypeInv
<1>2. PICK c \in People, d \in People : Loop!Reimburse(c, d)
  BY <1>1 DEF Loop!Next
<1> DEFINE k == Loop!Amount(c, d)
<1>3. Pays(c, d, k)
  BY <1>1, <1>2, IterationPays
<1> HIDE DEF k
<1>4. /\ balance' \in [People -> Int] /\ balance \in [People -> Int]
      /\ balance'[c] = balance[c] - k /\ balance'[d] = balance[d] + k
      /\ \A p \in People : p # c /\ p # d => balance'[p] = balance[p]
      /\ open' = Loop!Unsettled(balance')
      /\ Cardinality(open) \in Nat /\ Cardinality(open') \in Nat
      /\ Cardinality(open') < Cardinality(open)
  BY <1>1, <1>3, PaymentSettles DEF LoopInv
<1>5. c # d /\ k \in Int
  BY <1>3 DEF Pays
<1>6. Sum(balance', People) = 0
  <2>1. IsFiniteSet(People)
    BY LedgerAssumption
  <2>2. Sum(balance', People) = Sum(balance, People)
    BY <1>4, <1>5, <2>1, SumTransfer
  <2> QED
    BY <1>1, <2>2
<1>7. StepsLeft = 1 + Cardinality(open) /\ StepsLeft' = 1 + Cardinality(open')
  BY <1>1, StagesOfReads
<1> QED
  BY <1>4, <1>6, <1>7 DEF SumsInv

\* The loop starts from sums that even out.
LEMMA SumsStart ==
    ASSUME TypeInv, ProjectInv, ~Misled, FindOwedAndSettle
    PROVE  Sum(balance', People) = 0 /\ open' = Loop!Unsettled(balance')
<1> USE DEF TypeInv
<1>1. PICK j \in Projects : read.j = j
  BY DEF FindOwedAndSettle, ReadInv, Kinds
<1>2. /\ given' = [p \in People |-> Net(j, p)] /\ balance' = given'
      /\ open' = Loop!Unsettled(given')
  BY <1>1 DEF FindOwedAndSettle
<1>3. read.people[j] = linked[j] /\ read.paid[j] = PaidNow(j) /\ OwnPeople(j)
  BY <1>1 DEF FindOwedAndSettle, ProjectInv, Misled
<1>4. balance' = [p \in People |-> Due(j, p)]
  BY <1>2, <1>3 DEF Net, Due, PaidNow
<1> QED
  BY <1>2, <1>3, <1>4, BalancesEvenOut

LEMMA SumsStep ==
    ASSUME TypeInv, ProjectInv, SumsInv, [Next]_vars
    PROVE  SumsInv'
<1> SUFFICES ASSUME ~Misled', read'.pc = "loop"
             PROVE  SumsInv'
  BY DEF SumsInv
<1> USE DEF TypeInv
<1>1. CASE UNCHANGED vars
  <2>1. ~Misled
    BY <1>1, StillMisled DEF vars
  <2> QED
    BY <1>1, <2>1 DEF vars, loopVars, SumsInv
<1>2. CASE Change
  BY <1>2, ChangeTears DEF Misled
<1>3. CASE AskAll \/ AskDashboard \/ \E k \in Projects : AskProject(k)
  BY <1>3 DEF AskAll, AskDashboard, AskProject, NoRead
<1>4. CASE FindProjects \/ FindOwedAndAdd
  BY <1>4 DEF FindProjects, FindOwedAndAdd, GoOn, ReadInv
<1>5. CASE FindPeople \/ FindPaid
  BY <1>5 DEF FindPeople, FindPaid, ReadInv
<1>6. CASE FindOwedAndSettle
  <2>1. ~Misled
    BY <1>6, StillMisled DEF FindOwedAndSettle, ReadInv
  <2> QED
    BY <1>6, <2>1, SumsStart DEF SumsInv
<1>7. CASE FindLinks \/ FindMyPaid
  BY <1>7 DEF FindLinks, FindMyPaid, ReadInv
<1>8. CASE FindMyShares \/ FindMyOps
  BY <1>8 DEF FindMyShares, FindMyOps, ReadInv
<1>9. CASE Iterate
  <2>1. ~Misled
    BY <1>9, StillMisled DEF Iterate
  <2> QED
    BY <1>9, <2>1, IterationAdvances
<1>10. CASE MissMyOps \/ AnswerProject \/ Answer
  BY <1>10 DEF MissMyOps, AnswerProject, Answer, NoRead
<1> QED
  BY <1>1, <1>2, <1>3, <1>4, <1>5, <1>6, <1>7, <1>8, <1>9, <1>10 DEF Next, ReadStep

\* Each query and each iteration takes a read nearer to its answer.
LEMMA ReadsAdvance ==
    ASSUME TypeInv, TypeInv', SumsInv, ReadStep, ~(read.pc = "loop" /\ Misled)
    PROVE  StepsLeft' < StepsLeft
<1> DEFINE n == Cardinality(People)
           k == Cardinality(read.left)
<1>0. /\ n \in Nat /\ k \in Nat /\ IsFiniteSet(read.left) /\ Cardinality(open) \in Nat
      /\ Cardinality(Projects) \in Nat
  <2>1. IsFiniteSet(read.left) /\ IsFiniteSet(open)
    BY LedgerAssumption, FS_Subset DEF TypeInv, ReadInv, LoopInv
  <2> QED
    BY <2>1, LedgerAssumption, FS_CardinalityType
<1> HIDE DEF n, k
<1>r. /\ read = [pc |-> read.pc, kind |-> read.kind, j |-> read.j, left |-> read.left,
                 people |-> read.people, paid |-> read.paid, shares |-> read.shares,
                 toDo |-> read.toDo, toReceive |-> read.toReceive, mine |-> read.mine]
  BY DEF TypeInv, ReadInv
<1>1. CASE FindProjects
  <2> DEFINE S == {j \in Projects : linked[j] \intersect Mine # {}}
             r == [read EXCEPT !.left = S]
  <2>1. read.pc = "projects" /\ read' \in GoOn(r)
    BY <1>1 DEF FindProjects
  <2>2. IsFiniteSet(S) /\ Cardinality(S) <= Cardinality(Projects) /\ Cardinality(S) \in Nat
    BY LedgerAssumption, FS_Subset, FS_CardinalityType
  <2>3. r.left = S /\ r = [r EXCEPT !.pc = r.pc] /\ {"pc", "j", "left"} \subseteq DOMAIN r
    BY <1>r
  <2> HIDE DEF r, S
  <2>4. StepsLeft' < 2 + n + 3 * Cardinality(S) /\ StepsLeft' \in Int
    BY <1>0, <2>1, <2>2, <2>3, GoingOnAdvances DEF n
  <2>5. StepsLeft = 5 + n + 3 * Cardinality(Projects)
    BY <2>1, StagesOfReads DEF n
  <2> QED
    BY <1>0, <2>2, <2>4, <2>5
<1>2. CASE FindPeople
  <2>1. read.pc = "people" /\ read'.pc = "paid" /\ read'.left = read.left
    BY <1>2, <1>r DEF FindPeople
  <2>2. StepsLeft = 4 + n + 3 * k /\ StepsLeft' = 3 + n + 3 * k
    BY <2>1, StagesOfReads DEF n, k
  <2> QED
    BY <1>0, <2>2
<1>3. CASE FindPaid
  <2>1. read.pc = "paid" /\ read'.pc = "owed" /\ read'.left = read.left
    BY <1>3, <1>r DEF FindPaid
  <2>2. StepsLeft = 3 + n + 3 * k /\ StepsLeft' = 2 + n + 3 * k
    BY <2>1, StagesOfReads DEF n, k
  <2> QED
    BY <1>0, <2>2
<1>4. CASE FindOwedAndSettle
  <2>1. read.pc = "owed" /\ read'.pc = "loop"
    BY <1>4, <1>r DEF FindOwedAndSettle
  <2>2. open' \subseteq People
    BY DEF TypeInv, LoopInv
  <2>3. Cardinality(open') <= n /\ Cardinality(open') \in Nat
    BY <2>2, LedgerAssumption, FS_Subset, FS_CardinalityType DEF n
  <2>4. StepsLeft = 2 + n + 3 * k /\ StepsLeft' = 1 + Cardinality(open')
    BY <2>1, StagesOfReads DEF n, k
  <2> QED
    BY <1>0, <2>3, <2>4
<1>5. CASE FindOwedAndAdd
  <2> DEFINE r == [read EXCEPT !.toDo = @ + MyDebts, !.toReceive = @ + MyDues]
  <2>1. read.pc = "owed" /\ read' \in GoOn(r)
    BY <1>5 DEF FindOwedAndAdd
  <2>2. r.left = read.left /\ r = [r EXCEPT !.pc = r.pc] /\ {"pc", "j", "left"} \subseteq DOMAIN r
    BY <1>r
  <2> HIDE DEF r
  <2>3. StepsLeft' < 2 + n + 3 * k
    BY <1>0, <2>1, <2>2, GoingOnAdvances DEF n, k
  <2>4. StepsLeft = 2 + n + 3 * k
    BY <2>1, StagesOfReads DEF n, k
  <2> QED
    BY <2>3, <2>4
<1>6. CASE FindLinks
  <2>1. read.pc = "links" /\ read'.pc = "my-paid"
    BY <1>6, <1>r DEF FindLinks
  <2> QED
    BY <2>1, StagesOfReads
<1>7. CASE FindMyPaid
  <2>1. read.pc = "my-paid" /\ read'.pc = "my-shares"
    BY <1>7, <1>r DEF FindMyPaid
  <2> QED
    BY <2>1, StagesOfReads
<1>8. CASE FindMyShares
  <2>1. read.pc = "my-shares" /\ read'.pc = "my-ops"
    BY <1>8, <1>r DEF FindMyShares
  <2> QED
    BY <2>1, StagesOfReads
<1>9. CASE FindMyOps
  <2>1. read.pc = "my-ops" /\ read'.pc = "answer"
    BY <1>9, <1>r DEF FindMyOps
  <2> QED
    BY <2>1, StagesOfReads
<1>10. CASE MissMyOps
  <2>1. read.pc = "my-ops" /\ read'.pc = "idle"
    BY <1>10 DEF MissMyOps, NoRead
  <2> QED
    BY <2>1, StagesOfReads
<1>11. CASE Iterate
  <2>1. ~Misled
    BY <1>11 DEF Iterate
  <2> QED
    BY <1>11, <2>1, IterationAdvances
<1>12. CASE AnswerProject
  <2>1. read.pc = "loop" /\ read'.pc = "idle"
    BY <1>12 DEF AnswerProject, NoRead
  <2>2. StepsLeft = 1 + Cardinality(open) /\ StepsLeft' = 0
    BY <2>1, StagesOfReads
  <2> QED
    BY <1>0, <2>2
<1>13. CASE Answer
  <2>1. read.pc = "answer" /\ read'.pc = "idle"
    BY <1>13 DEF Answer, NoRead
  <2> QED
    BY <2>1, StagesOfReads
<1> QED
  BY <1>1, <1>2, <1>3, <1>4, <1>5, <1>6, <1>7, <1>8, <1>11, <1>12, <1>13, <1>9, <1>10 DEF ReadStep

\* Whatever changes meanwhile, a read only goes forward, and it has a number of steps
\* to go that was known when it began: it cannot go in circles, except in a loop whose
\* balances were torn or belong to strangers, too.
THEOREM ReadsComeToAnEnd == Spec => ReadsRunOut
<1>1. Init => ProjectInv /\ SumsInv
  BY DEF Init, NoRead, ProjectInv, SumsInv
<1>2. TypeInv /\ ProjectInv /\ SumsInv /\ [Next]_vars => ProjectInv' /\ SumsInv'
  BY ProjectStep, SumsStep
<1>3. TypeInv /\ TypeInv' /\ SumsInv /\ [Next]_vars
        => (read.pc # "idle" /\ ~(read.pc = "loop" /\ Misled)
              => UNCHANGED <<read, loopVars>> \/ StepsLeft' < StepsLeft)
  <2> SUFFICES ASSUME TypeInv, TypeInv', SumsInv, [Next]_vars, read.pc # "idle",
                      ~(read.pc = "loop" /\ Misled)
               PROVE  UNCHANGED <<read, loopVars>> \/ StepsLeft' < StepsLeft
    OBVIOUS
  <2>1. CASE UNCHANGED vars
    BY <2>1 DEF vars
  <2>2. CASE Change
    BY <2>2 DEF Change, RecordExpense, ChangeExpense, DeleteExpense, Join, Leave, Committed
  <2>3. CASE AskAll \/ AskDashboard \/ \E j \in Projects : AskProject(j)
    BY <2>3 DEF AskAll, AskDashboard, AskProject
  <2>4. CASE ReadStep
    BY <2>4, ReadsAdvance
  <2> QED
    BY <2>1, <2>2, <2>3, <2>4 DEF Next
<1> QED
  BY <1>1, <1>2, <1>3, TypeInvariant, PTL DEF Spec, ReadsRunOut
=============================================================================
