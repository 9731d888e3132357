----------------------------- MODULE Settlement -----------------------------
(***************************************************************************)
(* Who owes what: services/balance.service.ts reads the balances while     *)
(* expenses are recorded, changed and deleted, and hands them to the loop  *)
(* of Greedy; the dashboard of services/projects.service.ts computes the   *)
(* user's balances a second time, its own way.                             *)
(*                                                                         *)
(* Prisma loads a relation with a SELECT of its own, so the balances of a  *)
(* project are three SELECTs without a transaction: its participants, what *)
(* they paid, what they owe.  A change of an expense is one commit here,   *)
(* and so is the arrival or the removal of a participant: their statements *)
(* are in Ledger.  The loop is synchronous: as long as it runs, the        *)
(* process serves nobody.                                                  *)
(*                                                                         *)
(* Whoever pays or has a share has a row of participant, which need not be *)
(* linked to the project of the expense: `Strangers' have one and are in   *)
(* none of the projects.                                                   *)
(***************************************************************************)
EXTENDS Integers, Sequences, FiniteSets, Functions

CONSTANTS People,       \* participants; the same one may be in several projects
          Mine,         \* those linked to the account of the user
          Strangers,    \* those of projects that are not the user's
          Projects,     \* projects of the user
          Ops,          \* rows of operation
          Expenses,     \* contents of an expense: [project, payer, shares]
          MaxCommits,   \* bound: changes of expenses and participants
          MaxPayments   \* bound of Greedy: payments beyond this many are not recorded

None == [project |-> "none"]

AmountOf(e) == SumFunction(e.shares)

\* The shares are of cents that add up to the amount, and somebody has one.
ASSUME LedgerAssumption ==
    /\ IsFiniteSet(People) /\ IsFiniteSet(Ops) /\ IsFiniteSet(Projects)
    /\ Mine \subseteq People /\ Strangers \subseteq People \ Mine
    /\ \A e \in Expenses : /\ e.project \in Projects /\ e.payer \in People
                           /\ e.shares \in [People -> Nat] /\ AmountOf(e) > 0
    /\ MaxCommits \in Nat /\ MaxPayments \in Nat

VARIABLES linked,    \* project_participant: people by project
          created,   \* ids of participants given so far
          expense,   \* operation and its shares, by row
          commits,   \* how many changes were committed
          read,      \* the request that reads balances
          torn,      \* history: something it reads changed since its first SELECT
          given, balance, open, payments   \* the loop: variables of Greedy

ledgerVars == <<linked, created, expense, commits>>
loopVars   == <<given, balance, open, payments>>
vars       == <<ledgerVars, read, torn, loopVars>>

Loop == INSTANCE Greedy WITH Inputs <- {}

Recorded(j) == {o \in Ops : expense[o] # None /\ expense[o].project = j}

\* The three SELECTs: what `p' paid and owes in project `j'.
PaidFor(j, p) == {o \in Recorded(j) : expense[o].payer = p}

Paid(j, p) == SumFunction([o \in PaidFor(j, p) |-> AmountOf(expense[o])])
Owed(j, p) == SumFunction([o \in Recorded(j) |-> expense[o].shares[p]])

\* What the ledger says.
Due(j, p) == IF p \in linked[j] THEN Paid(j, p) - Owed(j, p) ELSE 0

Settled == [p \in People |-> 0]

\* kind: what was asked for; left: projects still to be read; people, paid and shares:
\* what the SELECTs came back with, by project and by operation; the rest is the answer.
NoRead == [pc |-> "idle", kind |-> "none", j |-> "none", left |-> {},
           people |-> [j \in Projects |-> {}], paid |-> [j \in Projects |-> Settled],
           shares |-> [o \in Ops |-> Settled],
           toDo |-> 0, toReceive |-> 0, mine |-> [j \in Projects |-> 0]]

TypeOK ==
    /\ linked \in [Projects -> SUBSET People]
    /\ created \subseteq People /\ \A j \in Projects : linked[j] \subseteq created \ Strangers
    /\ expense \in [Ops -> Expenses \union {None}]
    /\ commits \in 0..MaxCommits
    /\ read.pc \in {"idle", "projects", "people", "paid", "owed", "loop", "links", "my-paid",
                    "my-shares", "my-ops", "answer"}
    /\ read.left \subseteq Projects
    /\ read.people \in [Projects -> SUBSET People]
    /\ read.toDo >= 0 /\ read.toReceive >= 0
    /\ torn \in BOOLEAN
    /\ open \subseteq People
    /\ read.pc # "loop" => open = {}

\* The same people in every project, as in the seed.
Init == /\ \E S \in (SUBSET (People \ Strangers)) \ {{}} :
              linked = [j \in Projects |-> S] /\ created = S \union Strangers
        /\ expense = [o \in Ops |-> None]
        /\ commits = 0
        /\ read = NoRead
        /\ torn = FALSE
        /\ given = Settled /\ balance = Settled /\ open = {} /\ payments = <<>>

-----------------------------------------------------------------------------
(* Changes of the projects `js' *)

Reads(j) == read.pc # "idle" /\ (read.kind = "project" => read.j = j)

Committed(js) ==
    /\ read.pc # "loop"
    /\ commits < MaxCommits
    /\ commits' = commits + 1
    /\ torn' = (torn \/ \E j \in js : Reads(j))
    /\ UNCHANGED <<read, loopVars>>

\* The rows of participant.
Participants == Strangers \union UNION {linked[j] : j \in Projects}

\* Whom an expense refers to: its payer and those who have a share.
Refs(e) == {p \in People : p = e.payer \/ e.shares[p] > 0}

\* createOperation.  The foreign keys ask for participants, of whatever project.
RecordExpense(o, e) ==
    /\ expense[o] = None /\ Refs(e) \subseteq Participants
    /\ expense' = [expense EXCEPT ![o] = e]
    /\ Committed({e.project})
    /\ UNCHANGED <<linked, created>>

\* updateOperation, within the project of the expense.
ChangeExpense(o, e) ==
    /\ expense[o] # None /\ expense[o].project = e.project /\ Refs(e) \subseteq Participants
    /\ expense' = [expense EXCEPT ![o] = e]
    /\ Committed({e.project})
    /\ UNCHANGED <<linked, created>>

\* deleteOperationsByPojectId
DeleteExpense(o) ==
    /\ expense[o] # None
    /\ expense' = [expense EXCEPT ![o] = None]
    /\ Committed({expense[o].project})
    /\ UNCHANGED <<linked, created>>

\* updateProjectParticipants adds somebody new, who is linked to no account.
Join(j, p) ==
    /\ p \notin created \union Mine
    /\ linked' = [linked EXCEPT ![j] = @ \union {p}]
    /\ created' = created \union {p}
    /\ Committed({j})
    /\ UNCHANGED expense

\* updateProjectParticipants removes somebody who has neither paid nor a share, in any
\* project.  The row goes, and its links to all projects with it.
Leave(p) ==
    LET js == {j \in Projects : p \in linked[j]} IN
    /\ js # {}
    /\ \A o \in Ops : expense[o] # None => p \notin Refs(expense[o])
    /\ linked' = [j \in Projects |-> linked[j] \ {p}]
    /\ Committed(js)
    /\ UNCHANGED <<created, expense>>

Change == \/ \E o \in Ops, e \in Expenses : RecordExpense(o, e) \/ ChangeExpense(o, e)
          \/ \E o \in Ops : DeleteExpense(o)
          \/ \E j \in Projects, p \in People : Join(j, p)
          \/ \E p \in People : Leave(p)

-----------------------------------------------------------------------------
(* Reads *)

\* getProjectBalance; the owner check before it reads nothing else.
AskProject(j) ==
    /\ read.pc = "idle"
    /\ read' = [NoRead EXCEPT !.pc = "people", !.kind = "project", !.j = j]
    /\ torn' = FALSE
    /\ UNCHANGED <<ledgerVars, loopVars>>

\* getUserGlobalBalance
AskAll ==
    /\ read.pc = "idle"
    /\ read' = [NoRead EXCEPT !.pc = "projects", !.kind = "totals"]
    /\ torn' = FALSE
    /\ UNCHANGED <<ledgerVars, loopVars>>

\* getProjectsDashboard
AskDashboard ==
    /\ read.pc = "idle"
    /\ read' = [NoRead EXCEPT !.pc = "links", !.kind = "dashboard"]
    /\ torn' = FALSE
    /\ UNCHANGED <<ledgerVars, loopVars>>

\* The projects that are left to read, if any.
GoOn(r) == IF r.left = {} THEN {[r EXCEPT !.pc = "answer"]}
           ELSE {[r EXCEPT !.pc = "people", !.j = j, !.left = @ \ {j}] : j \in r.left}

FindProjects ==
    /\ read.pc = "projects"
    /\ read' \in GoOn([read EXCEPT !.left = {j \in Projects : linked[j] \intersect Mine # {}}])
    /\ UNCHANGED <<ledgerVars, torn, loopVars>>

FindPeople ==
    /\ read.pc = "people"
    /\ read' = [read EXCEPT !.people[read.j] = linked[read.j], !.pc = "paid"]
    /\ UNCHANGED <<ledgerVars, torn, loopVars>>

\* What those found in project `j' have paid.
PaidByFound(j) == [p \in People |-> IF p \in read.people[j] THEN Paid(j, p) ELSE 0]

FindPaid ==
    /\ read.pc = "paid"
    /\ read' = [read EXCEPT !.paid[read.j] = PaidByFound(read.j), !.pc = "owed"]
    /\ UNCHANGED <<ledgerVars, torn, loopVars>>

\* Faulty variant: those who paid nothing are passed over.
NetOfPayers(j, p) ==
    IF p \in read.people[j] /\ read.paid[j][p] > 0 THEN read.paid[j][p] - Owed(j, p) ELSE 0

\* totalPaid - totalOwed, once the last SELECT is back.
Net(j, p) == IF p \in read.people[j] THEN read.paid[j][p] - Owed(j, p) ELSE 0

\* The balances of the project are complete: the loop starts.
FindOwedAndSettle ==
    /\ read.pc = "owed" /\ read.kind = "project"
    /\ read' = [read EXCEPT !.pc = "loop"]
    /\ given' = [p \in People |-> Net(read.j, p)]
    /\ balance' = given'
    /\ open' = Loop!Unsettled(given')
    /\ payments' = <<>>
    /\ UNCHANGED <<ledgerVars, torn>>

\* Faulty variant: Math.abs is forgotten.
MinusSigned(x) == IF x < 0 THEN x ELSE 0

\* What is owed and what is due in a balance.
Minus(x) == IF x < 0 THEN -x ELSE 0
Plus(x)  == IF x > 0 THEN x ELSE 0

\* Faulty variant: the debts are those of the whole project.
DebtsOfAll == SumFunction([p \in People |-> Minus(Net(read.j, p))])

\* Only the balances of the user's own participants count.
MyDebts == SumFunction([p \in Mine |-> Minus(Net(read.j, p))])
MyDues  == SumFunction([p \in Mine |-> Plus(Net(read.j, p))])

FindOwedAndAdd ==
    /\ read.pc = "owed" /\ read.kind = "totals"
    /\ read' \in GoOn([read EXCEPT !.toDo = @ + MyDebts, !.toReceive = @ + MyDues])
    /\ UNCHANGED <<ledgerVars, torn, loopVars>>

\* The dashboard reads the user's own participants: the projects they are in, all
\* they paid, all they owe.
FindLinks ==
    /\ read.pc = "links"
    /\ read' = [read EXCEPT !.people = [j \in Projects |-> linked[j] \intersect Mine],
                            !.pc = "my-paid"]
    /\ UNCHANGED <<ledgerVars, torn, loopVars>>

FindMyPaid ==
    /\ read.pc = "my-paid"
    /\ read' = [read EXCEPT !.paid = [j \in Projects |-> PaidByFound(j)], !.pc = "my-shares"]
    /\ UNCHANGED <<ledgerVars, torn, loopVars>>

\* The shares of the user in an operation, if it is there.
MySharesIn(o) == [p \in People |->
                    IF expense[o] # None /\ p \in Mine THEN expense[o].shares[p] ELSE 0]

FindMyShares ==
    /\ read.pc = "my-shares"
    /\ read' = [read EXCEPT !.shares = [o \in Ops |-> MySharesIn(o)], !.pc = "my-ops"]
    /\ UNCHANGED <<ledgerVars, torn, loopVars>>

\* The project of each share is that of its operation, read last.
MyOwed(j, p) == SumFunction([o \in Recorded(j) |-> read.shares[o][p]])
MyNet(j, p)  == IF p \in read.people[j] THEN read.paid[j][p] - MyOwed(j, p) ELSE 0

\* Faulty variant: what is paid and owed in other projects is not filtered out.
BalanceOverAll(j, p) == SumFunction([k \in Projects |-> MyNet(k, p)])

BalanceShown(j, p) == MyNet(j, p)

\* userBalanceByProject: of several participants of the user in one project, the
\* last one counts.
FindMyOps ==
    /\ read.pc = "my-ops"
    /\ \A o \in Ops : expense[o] = None => read.shares[o] = Settled
    /\ \E last \in [Projects -> Mine] :
          /\ \A j \in Projects : read.people[j] # {} => last[j] \in read.people[j]
          /\ read' = [read EXCEPT !.mine = [j \in Projects |-> BalanceShown(j, last[j])],
                                  !.pc = "answer"]
    /\ UNCHANGED <<ledgerVars, torn, loopVars>>

\* The operation of a share was deleted since: a required relation is missing, 500.
MissMyOps ==
    /\ read.pc = "my-ops"
    /\ \E o \in Ops : expense[o] = None /\ read.shares[o] # Settled
    /\ read' = NoRead
    /\ UNCHANGED <<ledgerVars, torn, loopVars>>

\* One iteration of the loop.
Iterate == /\ read.pc = "loop"
           /\ Loop!Next
           /\ UNCHANGED <<ledgerVars, read, torn>>

AnswerProject ==
    /\ read.pc = "loop" /\ Loop!Done
    /\ read' = NoRead
    /\ given' = Settled /\ balance' = Settled /\ open' = {} /\ payments' = <<>>
    /\ UNCHANGED <<ledgerVars, torn>>

Answer ==
    /\ read.pc = "answer"
    /\ read' = NoRead
    /\ UNCHANGED <<ledgerVars, torn, loopVars>>

ReadStep == \/ FindProjects
            \/ FindPeople
            \/ FindPaid
            \/ FindOwedAndSettle
            \/ FindOwedAndAdd
            \/ FindLinks
            \/ FindMyPaid
            \/ FindMyShares
            \/ FindMyOps
            \/ MissMyOps
            \/ Iterate
            \/ AnswerProject
            \/ Answer

Next == Change \/ AskAll \/ AskDashboard \/ (\E j \in Projects : AskProject(j)) \/ ReadStep

\* Queries are executed and the loop is not interrupted.
Spec == Init /\ [][Next]_vars /\ WF_vars(ReadStep)

-----------------------------------------------------------------------------
(* Properties *)

\* "Guaranteed max n-1 transactions", whatever is read.
FewPayments == Loop!AtMostNMinusOne

PaidBy(p) == SumFunction([i \in DOMAIN payments |->
                             IF payments[i].from = p THEN payments[i].amount ELSE 0])
PaidTo(p) == SumFunction([i \in DOMAIN payments |->
                             IF payments[i].to = p THEN payments[i].amount ELSE 0])

\* The expenses of a project refer to its participants only.
OwnPeople(j) == \A o \in Recorded(j) : Refs(expense[o]) \subseteq linked[j]

\* What the loop cannot settle: balances that changed while they were read, and those of
\* a project whose expenses also refer to participants of another one.
Misled == torn \/ ~OwnPeople(read.j)

\* Otherwise what the user is shown is what the ledger says: debtors pay what they owe in
\* the project and receive nothing, creditors receive what they are due and pay nothing.
ShownPaymentsSettle ==
    (read.pc = "loop" /\ Loop!Done /\ ~Misled) =>
       \A p \in People : /\ PaidBy(p) = Minus(Due(read.j, p))
                         /\ PaidTo(p) = Plus(Due(read.j, p))

MyShare(Part(_)) ==
    SumFunction([j \in Projects |-> SumFunction([p \in Mine |-> Part(Due(j, p))])])

\* The same for the totals over all projects: as long as nothing changes during
\* the read, they are what the reimbursements of all projects would make the
\* user pay and receive, debts and claims of different projects not set off.
TotalsAreTheLedger ==
    (read.pc = "answer" /\ read.kind = "totals" /\ ~torn) =>
       read.toDo = MyShare(Minus) /\ read.toReceive = MyShare(Plus)

\* The dashboard comes to the same balances on another way, for a user who is one
\* participant of each project.
DashboardAgrees ==
    (read.pc = "answer" /\ read.kind = "dashboard" /\ ~torn) =>
       \A j \in Projects :
          LET me == linked[j] \intersect Mine IN
          Cardinality(me) <= 1 => read.mine[j] = SumFunction([p \in me |-> Due(j, p)])

\* A read is answered: the balances it hands to the loop are ones that the loop comes
\* to an end with, unless they changed between SELECTs or belong to strangers, too.
ReadsAreAnswered ==
    (read.pc # "idle") ~> (read.pc = "idle" \/ torn \/ (read.pc = "loop" /\ Misled))

\* Queries and iterations that are left to a read, at most.
StepsLeft ==
    LET n    == Cardinality(People)
        left == 3 * Cardinality(read.left)
    IN  CASE read.pc = "idle"      -> 0
          [] read.pc = "answer"    -> 1
          [] read.pc = "loop"      -> 1 + Cardinality(open)
          [] read.pc = "owed"      -> 2 + n + left
          [] read.pc = "paid"      -> 3 + n + left
          [] read.pc = "people"    -> 4 + n + left
          [] read.pc = "projects"  -> 5 + n + 3 * Cardinality(Projects)
          [] read.pc = "links"     -> 5
          [] read.pc = "my-paid"   -> 4
          [] read.pc = "my-shares" -> 3
          [] read.pc = "my-ops"    -> 2

\* Of that, what no fairness is needed for: each query and each iteration brings the
\* read nearer to its answer.  Only the loop depends on what was read: it does not when
\* it was misled.
ReadsRunOut ==
    [][read.pc # "idle" /\ ~(read.pc = "loop" /\ Misled) =>
          UNCHANGED <<read, loopVars>> \/ StepsLeft' < StepsLeft]_vars
=============================================================================
