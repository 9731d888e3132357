---------------------------- MODULE BudgetAlerts ----------------------------
(***************************************************************************)
(* The expenses of one project, its budget and the alerts of its owner:    *)
(* services/operations.service.ts, services/alert.service.ts and the       *)
(* budget half of services/projects.service.ts.                            *)
(*                                                                         *)
(* Every write runs in an interactive transaction of PostgreSQL at its     *)
(* default isolation, READ COMMITTED, one statement per await.  A          *)
(* statement sees what is committed when it runs and the transaction's own *)
(* writes; a row that a transaction wrote stays locked until it ends.  A   *)
(* transaction therefore keeps its writes in its request (op and amount,   *)
(* plan and budget, done) and the commit applies them.  A step that ends   *)
(* in the commit is one step with it.                                      *)
(*                                                                         *)
(* All requests come from the owner of the project: assertProjectOwner     *)
(* lets nothing else through, and reads rows no action here changes.       *)
(* Names, dates, categories, payers and shares are left out, as the alerts *)
(* do not depend on them.                                                  *)
(***************************************************************************)
EXTENDS Integers, FiniteSets, FiniteSetsExt

CONSTANTS Ops,            \* ids of the rows of operation
          Amounts,        \* amounts of the expenses
          BudgetInputs,   \* budgets a client submits: [amount, limitCriteria]
          Alerts,         \* ids of the rows of alert, bounds the alerts raised
          MaxBudgetId,    \* bounds the budget rows created one after the other
          StatusInputs,   \* what PATCH /alertes/:id sets, among Statuses
          Requests,       \* slots for the requests being served
          None            \* no operation, no alert

Active   == {"unread", "read"}
Statuses == Active \union {"resolved"}

ASSUME InputsAssumption ==
    /\ Amounts \subseteq Nat \ {0}
    /\ BudgetInputs \subseteq [amount : Nat \ {0}, limitCriteria : 1..100]
    /\ MaxBudgetId \in Nat
    /\ StatusInputs \subseteq Statuses
    /\ None \notin Ops \union Alerts
    /\ IsFiniteSet(Ops) /\ IsFiniteSet(Alerts) /\ IsFiniteSet(Requests)

VARIABLES ops,       \* ops[o]: the amount of the operation, 0 when it has no row
          budget,    \* the row of the project in budget, NoBudget when there is none
          lastId,    \* the last id given to a budget row
          alert,     \* alert[a]: a row of alert, with its link to the owner
          req,       \* the requests being served
          reopened,  \* history: alerts a client put back to an active status
          silenced,  \* history: the budget changed, or a client resolved an alert,
                     \* after the last operation was created or updated
          overlapped, \* history: two requests have been in flight at the same time
          company     \* history: requests that something else has run beside

history == <<reopened, silenced>>
vars    == <<ops, budget, lastId, alert, req, history, overlapped, company>>

BudgetRow == [id : Nat, amount : Nat, limitCriteria : 0..100]
NoBudget  == [id |-> 0, amount |-> 0, limitCriteria |-> 0]

\* budgetId and threshold (the percentage the message names) of an alert.
\* "free": the id is not used yet.  "gone": the row went with its budget.
AlertRow == [status : Statuses \union {"free", "gone"}, budgetId : Nat, threshold : 0..100]
NoAlert  == [status |-> "free", budgetId |-> 0, threshold |-> 0]

\* Where a request waits: for the write that opens its transaction ("write"),
\* for the statements of resolveAlertIfNeeded, for those of checkAndCreateAlert,
\* or for its COMMIT.
Points == {"idle", "write", "resolveBudget", "resolveSum", "resolveFind", "resolveUpdate",
           "checkBudget", "checkSum", "checkFind", "checkCreate", "commit"}

\* kind: the handler.  op, amount: the row of operation written, 0 for a DELETE.
\* plan, budget: what happens to the budget and the row that leaves.
\* seen: the budget row it read.  todo, next: the alerts it found and still has
\* to resolve, and the one at hand.  done: those it has resolved.
RequestState ==
    [kind   : {"none", "create", "update", "delete", "project"},
     pc     : Points,
     op     : Ops \union {None},
     amount : Nat,
     plan   : {"keep", "upsert", "delete"},
     budget : BudgetRow,
     seen   : BudgetRow,
     todo   : SUBSET Alerts,
     next   : Alerts \union {None},
     done   : SUBSET Alerts]

Idle == [kind |-> "none", pc |-> "idle", op |-> None, amount |-> 0, plan |-> "keep",
         budget |-> NoBudget, seen |-> NoBudget, todo |-> {}, next |-> None, done |-> {}]

\* The tables and the requests have their types; percentages stay within 100.
TypeOK == /\ ops \in [Ops -> Nat]
          /\ budget \in BudgetRow
          /\ lastId \in Nat
          /\ alert \in [Alerts -> AlertRow]
          /\ req \in [Requests -> RequestState]
          /\ reopened \subseteq Alerts
          /\ silenced \in BOOLEAN /\ overlapped \in BOOLEAN
          /\ company \subseteq Requests

\* Faulty variant: the percentage is scaled twice.
CreatedBudgetScaled(b, alertEnabled) ==
    [id |-> 1, amount |-> b.amount, limitCriteria |-> b.limitCriteria * 100]

\* createProject: limitCriteria is stored as 100 when alerts are not enabled.
CreatedBudget(b, alertEnabled) ==
    [id |-> 1, amount |-> b.amount,
     limitCriteria |-> IF alertEnabled THEN b.limitCriteria ELSE 100]

Init == /\ ops = [o \in Ops |-> 0]
        /\ \/ budget = NoBudget /\ lastId = 0
           \/ /\ \E b \in BudgetInputs, e \in BOOLEAN : budget = CreatedBudget(b, e)
              /\ lastId = 1
        /\ alert = [a \in Alerts |-> NoAlert]
        /\ req = [r \in Requests |-> Idle]
        /\ reopened = {}
        /\ silenced = FALSE
        /\ overlapped = FALSE
        /\ company = {}

-----------------------------------------------------------------------------
(* What a statement of a transaction sees. *)

Exists(b) == b.id # 0

\* The rows of operation, with the request's own write.
OpsSeenBy(r) == [o \in Ops |-> IF o = req[r].op THEN req[r].amount ELSE ops[o]]

BudgetSeenBy(r) ==
    IF req[r].kind = "project" /\ req[r].plan # "keep" THEN req[r].budget ELSE budget

Total(amounts) == SumFunctionOnSet(amounts, Ops)

\* !(totalSpent < (budgetAmount * threshold) / 100)
Reached(total, b) == total * 100 >= b.amount * b.limitCriteria

\* The alerts of budget row b that are linked to the owner and not resolved,
\* as request r sees them.
ActiveSeenBy(r, b) ==
    {a \in Alerts \ req[r].done : alert[a].status \in Active /\ alert[a].budgetId = b.id}

-----------------------------------------------------------------------------
(* Row locks.  Every update of a project writes its row; deleting the      *)
(* budget row deletes its alerts with it.                                  *)

ProjectLock   == <<"project", None>>
BudgetLock    == <<"budget", None>>
OpLock(o)     == <<"operation", o>>
AlertLocks(S) == {<<"alert", a>> : a \in S}

Present == {a \in Alerts : alert[a].status \in Statuses}

\* The rows a request locks by its first statement.
FirstLocks(r) ==
    CASE req[r].kind # "project" -> {OpLock(req[r].op)}
      [] req[r].kind = "project" /\ req[r].plan = "delete" ->
            {ProjectLock, BudgetLock} \union AlertLocks(Present)
      [] req[r].kind = "project" /\ req[r].plan # "delete" -> {ProjectLock}

Locked(r) == IF req[r].pc \in {"idle", "write"} THEN {}
             ELSE FirstLocks(r) \union AlertLocks(req[r].done)

\* The rows the next statement of r has to lock.
Wanted(r) == CASE req[r].pc = "write"         -> FirstLocks(r)
               [] req[r].pc = "resolveUpdate" -> AlertLocks({req[r].next})
               [] req[r].pc = "checkCreate"   -> {BudgetLock}
               [] OTHER                       -> {}

WaitsFor(r, q) == q # r /\ Wanted(r) \intersect Locked(q) # {}

Granted(r) == \A q \in Requests : ~WaitsFor(r, q)

-----------------------------------------------------------------------------
(* Arrival of the requests. *)

InFlight == {r \in Requests : req[r].pc # "idle"}

\* Bounds: ids of alert and of budget are left for every request in flight.
AlertRoom  == Cardinality({a \in Alerts : alert[a].status = "free"}) > Cardinality(InFlight)
BudgetRoom == MaxBudgetId - lastId > Cardinality(InFlight)

Arrive(r, s) ==
    /\ req[r].pc = "idle"
    /\ req' = [req EXCEPT ![r] = [s EXCEPT !.pc = "write"]]
    /\ overlapped' = (overlapped \/ InFlight # {})
    /\ company' = IF InFlight = {} THEN {} ELSE InFlight \union {r}
    /\ UNCHANGED <<ops, budget, lastId, alert, history>>

\* POST /operations; the id is a fresh one.
StartCreate(r) ==
    /\ AlertRoom
    /\ \E o \in Ops, n \in Amounts :
          /\ ops[o] = 0
          /\ \A q \in Requests : req[q].op # o
          /\ Arrive(r, [Idle EXCEPT !.kind = "create", !.op = o, !.amount = n])

\* PATCH /operations/:id
StartUpdate(r) ==
    /\ AlertRoom
    /\ \E o \in Ops, n \in Amounts :
          /\ ops[o] # 0
          /\ Arrive(r, [Idle EXCEPT !.kind = "update", !.op = o, !.amount = n])

\* DELETE /operations
StartDelete(r) ==
    \E o \in Ops :
       /\ ops[o] # 0
       /\ Arrive(r, [Idle EXCEPT !.kind = "delete", !.op = o])

\* PATCH /projects/:id with a budget, or with deleteBudget.  Whether there is a
\* budget to delete is read here, before the transaction opens; if there is, the
\* deletion replaces the budget that the same request may carry.
StartProject(r) ==
    /\ \/ /\ BudgetRoom
          /\ \E b \in BudgetInputs :
             Arrive(r, [Idle EXCEPT !.kind = "project", !.plan = "upsert",
                                    !.budget = [id |-> 0, amount |-> b.amount,
                                                limitCriteria |-> b.limitCriteria]])
       \/ /\ Exists(budget)
          /\ Arrive(r, [Idle EXCEPT !.kind = "project", !.plan = "delete"])
       \/ /\ ~Exists(budget)
          /\ Arrive(r, [Idle EXCEPT !.kind = "project"])

-----------------------------------------------------------------------------
(* The statements. *)

Goto(r, pc) == req' = [req EXCEPT ![r].pc = pc]

\* An exception: the transaction rolls back and the answer is an error.
RollBack(r) == req' = [req EXCEPT ![r] = Idle]

\* INSERT, UPDATE or DELETE of the operation.
WriteOperation(r) ==
    /\ req[r].pc = "write" /\ req[r].kind # "project"
    /\ Granted(r)
    /\ \/ req[r].kind = "create" /\ Goto(r, "checkBudget")
       \/ req[r].kind # "create" /\ ops[req[r].op] # 0 /\ Goto(r, "resolveBudget")
       \/ req[r].kind # "create" /\ ops[req[r].op] = 0 /\ RollBack(r)
    /\ UNCHANGED <<ops, budget, lastId, alert, history, overlapped, company>>

\* UPDATE of the project and the nested write of its budget.
WriteProject(r) ==
    /\ req[r].pc = "write" /\ req[r].kind = "project"
    /\ Granted(r)
    /\ \/ /\ req[r].plan = "keep"
          /\ Goto(r, "resolveBudget")
          /\ UNCHANGED lastId
       \/ /\ req[r].plan = "delete" /\ Exists(budget)
          /\ Goto(r, "resolveBudget")
          /\ UNCHANGED lastId
       \/ /\ req[r].plan = "delete" /\ ~Exists(budget)
          /\ RollBack(r)
          /\ UNCHANGED lastId
       \/ /\ req[r].plan = "upsert"
          /\ lastId' = IF Exists(budget) THEN lastId ELSE lastId + 1
          /\ req' = [req EXCEPT ![r].pc = "resolveBudget",
                                ![r].budget.id = IF Exists(budget) THEN budget.id
                                                 ELSE lastId + 1]
    /\ UNCHANGED <<ops, budget, alert, history, overlapped, company>>

\* Faulty variant: an update only resolves alerts, it never raises one.
CommitAfterResolve(r) == "commit"

\* Where a transaction goes after resolveAlertIfNeeded.
AfterResolve(r) == IF req[r].kind = "update" THEN "checkBudget" ELSE "commit"

\* resolveAlertIfNeeded
ResolveBudget(r) ==
    /\ req[r].pc = "resolveBudget"
    /\ req' = [req EXCEPT ![r].pc = IF Exists(BudgetSeenBy(r)) THEN "resolveSum"
                                    ELSE AfterResolve(r),
                          ![r].seen = BudgetSeenBy(r)]
    /\ UNCHANGED <<ops, budget, lastId, alert, history, overlapped, company>>

ResolveSum(r) ==
    /\ req[r].pc = "resolveSum"
    /\ Goto(r, IF Reached(Total(OpsSeenBy(r)), req[r].seen) THEN AfterResolve(r)
               ELSE "resolveFind")
    /\ UNCHANGED <<ops, budget, lastId, alert, history, overlapped, company>>

\* Faulty variant: the search returns one alert only.
ResolveFindFirst(r) ==
    /\ req[r].pc = "resolveFind"
    /\ LET found == ActiveSeenBy(r, req[r].seen) IN
       \/ found = {} /\ Goto(r, AfterResolve(r))
       \/ \E a \in found : req' = [req EXCEPT ![r].pc = "resolveUpdate", ![r].next = a]
    /\ UNCHANGED <<ops, budget, lastId, alert, history, overlapped, company>>

\* The order of the rows is not specified.
ResolveFind(r) ==
    /\ req[r].pc = "resolveFind"
    /\ LET found == ActiveSeenBy(r, req[r].seen) IN
       \/ found = {} /\ Goto(r, AfterResolve(r))
       \/ \E a \in found :
             req' = [req EXCEPT ![r].pc = "resolveUpdate", ![r].next = a, ![r].todo = found \ {a}]
    /\ UNCHANGED <<ops, budget, lastId, alert, history, overlapped, company>>

\* Faulty variant: an alert that is resolved stays on the list.
ResolveUpdateForever(r) ==
    /\ req[r].pc = "resolveUpdate"
    /\ Granted(r)
    /\ \/ req[r].next \notin Present /\ RollBack(r)
       \/ /\ req[r].next \in Present
          /\ req[r].todo = {}
          /\ req' = [req EXCEPT ![r].pc = AfterResolve(r), ![r].next = None,
                                ![r].done = @ \union {req[r].next}]
       \/ /\ req[r].next \in Present
          /\ \E a \in req[r].todo :
                req' = [req EXCEPT ![r].next = a, ![r].done = @ \union {req[r].next}]
    /\ UNCHANGED <<ops, budget, lastId, alert, history, overlapped, company>>

ResolveUpdate(r) ==
    /\ req[r].pc = "resolveUpdate"
    /\ Granted(r)
    /\ \/ req[r].next \notin Present /\ RollBack(r)
       \/ /\ req[r].next \in Present
          /\ req[r].todo = {}
          /\ req' = [req EXCEPT ![r].pc = AfterResolve(r), ![r].next = None,
                                ![r].done = @ \union {req[r].next}]
       \/ /\ req[r].next \in Present
          /\ \E a \in req[r].todo :
                req' = [req EXCEPT ![r].next = a, ![r].todo = @ \ {a},
                                   ![r].done = @ \union {req[r].next}]
    /\ UNCHANGED <<ops, budget, lastId, alert, history, overlapped, company>>

\* checkAndCreateAlert
CheckBudget(r) ==
    /\ req[r].pc = "checkBudget"
    /\ req' = [req EXCEPT ![r].pc = IF Exists(BudgetSeenBy(r)) THEN "checkSum" ELSE "commit",
                          ![r].seen = BudgetSeenBy(r)]
    /\ UNCHANGED <<ops, budget, lastId, alert, history, overlapped, company>>

CheckSum(r) ==
    /\ req[r].pc = "checkSum"
    /\ Goto(r, IF Reached(Total(OpsSeenBy(r)), req[r].seen) THEN "checkFind" ELSE "commit")
    /\ UNCHANGED <<ops, budget, lastId, alert, history, overlapped, company>>

\* Faulty variant: the search for an active alert is dropped.
CheckFindNothing(r) ==
    /\ req[r].pc = "checkFind"
    /\ Goto(r, "checkCreate")
    /\ UNCHANGED <<ops, budget, lastId, alert, history, overlapped, company>>

CheckFind(r) ==
    /\ req[r].pc = "checkFind"
    /\ Goto(r, IF ActiveSeenBy(r, req[r].seen) = {} THEN "checkCreate" ELSE "commit")
    /\ UNCHANGED <<ops, budget, lastId, alert, history, overlapped, company>>

\* Faulty variant: alerts do not go with their budget.
AlertOrphaned(r, a) ==
    IF a \in req[r].done THEN [alert[a] EXCEPT !.status = "resolved"] ELSE alert[a]

\* The alerts once r has committed what it resolved or deleted.
AlertAfter(r, a) ==
    CASE req[r].plan = "delete" /\ a \in Present       -> [alert[a] EXCEPT !.status = "gone"]
      [] req[r].plan # "delete" /\ a \in req[r].done -> [alert[a] EXCEPT !.status = "resolved"]
      [] OTHER                                       -> alert[a]

CommitWith(r, newAlert) ==
    /\ ops' = OpsSeenBy(r)
    /\ budget' = BudgetSeenBy(r)
    /\ alert' = newAlert
    /\ req' = [req EXCEPT ![r] = Idle]
    /\ reopened' = reopened \ req[r].done
    /\ silenced' = CASE req[r].kind \in {"create", "update"}                   -> FALSE
                     [] req[r].kind = "project" /\ req[r].plan # "keep"        -> TRUE
                     [] OTHER                                                  -> silenced
    /\ UNCHANGED <<lastId, overlapped, company>>

Commit(r) ==
    /\ req[r].pc = "commit"
    /\ CommitWith(r, [a \in Alerts |-> AlertAfter(r, a)])

\* INSERT of the alert and of its link, and the COMMIT that follows.  The foreign
\* key refuses the alert when the budget row that was read is gone.
CheckCreate(r) ==
    /\ req[r].pc = "checkCreate"
    /\ Granted(r)
    /\ \/ /\ budget.id # req[r].seen.id
          /\ RollBack(r)
          /\ UNCHANGED <<ops, budget, lastId, alert, history, overlapped, company>>
       \/ /\ budget.id = req[r].seen.id
          /\ \E new \in Alerts :
                /\ alert[new].status = "free"
                /\ CommitWith(r, [a \in Alerts |->
                      IF a = new THEN [status |-> "unread", budgetId |-> req[r].seen.id,
                                       threshold |-> req[r].seen.limitCriteria]
                      ELSE AlertAfter(r, a)])

\* PATCH /alertes/:id, markAlertAsRead: any status replaces any other.  It is
\* served by a free slot, in one step: what it reads first changes only to "gone".
MarkAlert(r, a, s) ==
    /\ req[r].pc = "idle"
    /\ a \in Present
    /\ \A q \in Requests : AlertLocks({a}) \intersect Locked(q) = {}
    /\ alert' = [alert EXCEPT ![a].status = s]
    /\ reopened' = CASE s = "resolved"                                   -> reopened \ {a}
                     [] s # "resolved" /\ alert[a].status = "resolved"   -> reopened \union {a}
                     [] OTHER                                            -> reopened
    /\ silenced' = (silenced \/ s = "resolved")
    /\ overlapped' = (overlapped \/ InFlight # {})
    /\ company' = InFlight
    /\ UNCHANGED <<ops, budget, lastId, req>>

\* A database error, an expired transaction or the death of the process.
Abort(r) ==
    /\ req[r].pc # "idle"
    /\ RollBack(r)
    /\ UNCHANGED <<ops, budget, lastId, alert, history, overlapped, company>>

\* PostgreSQL rolls back one of the transactions that wait for each other.
BreakDeadlock(r) ==
    /\ \E S \in SUBSET Requests :
          /\ r \in S
          /\ \A q \in S : \E p \in S : WaitsFor(q, p)
    /\ RollBack(r)
    /\ UNCHANGED <<ops, budget, lastId, alert, history, overlapped, company>>

-----------------------------------------------------------------------------
Start(r) == StartCreate(r) \/ StartUpdate(r) \/ StartDelete(r) \/ StartProject(r)

Statement(r) == \/ WriteOperation(r)
                \/ WriteProject(r)
                \/ ResolveBudget(r)
                \/ ResolveSum(r)
                \/ ResolveFind(r)
                \/ ResolveUpdate(r)
                \/ CheckBudget(r)
                \/ CheckSum(r)
                \/ CheckFind(r)
                \/ CheckCreate(r)
                \/ Commit(r)

Next == \/ \E r \in Requests : Start(r) \/ Statement(r) \/ Abort(r) \/ BreakDeadlock(r)
        \/ \E r \in Requests, a \in Alerts, s \in StatusInputs : MarkAlert(r, a, s)

Spec == Init /\ [][Next]_vars

\* The event loop runs every callback, a lock is granted in the order of its
\* queue, and the deadlock detector runs.
Fairness == \A r \in Requests : SF_vars(Statement(r)) /\ WF_vars(BreakDeadlock(r))

FairSpec == Spec /\ Fairness

-----------------------------------------------------------------------------
(* Properties *)

ActiveAlerts == {a \in Alerts : alert[a].status \in Active}

Over == Exists(budget) /\ Reached(Total(ops), budget)

\* "Après chaque mutation (créer, modifier, supprimer), le back vérifie automatiquement
\* le seuil d'alerte du budget et crée ou résout une alerte si nécessaire": expenses
\* at or over the threshold have an active alert, unless since the last creation or
\* update of an expense the budget changed or the owner resolved an alert by hand.
OverIsAnnounced == Over => ActiveAlerts # {} \/ silenced

\* The other half of it, "résout une alerte": an active alert that no client has
\* reopened means that the threshold is reached.
ActiveIsJustified == ActiveAlerts \ reopened # {} => Over

\* As long as requests come one after the other, whatever they are, both hold and
\* no two alerts are active that no client has reopened.
SerialAlertsFollowTotal ==
    ~overlapped => /\ OverIsAnnounced
                   /\ ActiveIsJustified
                   /\ Cardinality(ActiveAlerts \ reopened) <= 1

\* Duplicates come from transactions that overlap or from alerts reopened by a
\* client: without the latter there are never more active alerts than requests
\* that can run at the same time.
DuplicatesBounded == Cardinality(ActiveAlerts \ reopened) <= Cardinality(Requests)

\* Alerts always belong to the budget the project has now: one that is replaced
\* takes its alerts away, also those a transaction was about to raise for it.
AlertsOfCurrentBudget == \A a \in Present : Exists(budget) /\ alert[a].budgetId = budget.id

\* Every request is answered: no set of transactions waits for itself for ever.
RequestsFinish == \A r \in Requests : req[r].pc # "idle" ~> req[r].pc = "idle"

\* Statements that are left to a request in state s, at most.
StepsLeft(s) ==
    LET n == Cardinality(Alerts)
    IN  CASE s.pc = "idle"          -> 0
          [] s.pc = "commit"        -> 1
          [] s.pc = "checkCreate"   -> 2
          [] s.pc = "checkFind"     -> 3
          [] s.pc = "checkSum"      -> 4
          [] s.pc = "checkBudget"   -> 5
          [] s.pc = "resolveUpdate" -> 6 + Cardinality(s.todo)
          [] s.pc = "resolveFind"   -> 6 + n
          [] s.pc = "resolveSum"    -> 7 + n
          [] s.pc = "resolveBudget" -> 8 + n
          [] s.pc = "write"         -> 9 + n

\* Of that, what no fairness is needed for: whatever happens to a request in flight
\* brings it nearer to its end, also when others change the rows it goes through.
RequestsRunOut ==
    [][\A r \in InFlight : req'[r] # req[r] => StepsLeft(req'[r]) < StepsLeft(req[r])]_vars

\* The alerts keep what AlertLifecycle promises: each is raised once and for the
\* budget there is, goes with it in one step, and does not come back, neither by the
\* commit of a transaction that had resolved it nor with a later budget.
Lifecycle == INSTANCE AlertLifecycle WITH current <- budget.id,
                                          status <- [a \in Alerts |-> alert[a].status],
                                          owner <- [a \in Alerts |-> alert[a].budgetId]

ImplementsLifecycle == Lifecycle!Spec

\* Serializability where it can be had.  A request that nothing has run beside since
\* it arrived, however the tables got where they are, changes them by the one step
\* SerialAlerts gives its handler, taken when it commits: the budget, the sum and the
\* alerts it has read, statement by statement, are those that it leaves behind.
Serial == INSTANCE SerialAlerts

LoneRequestsAreAtomic ==
    /\ Serial!Init
    /\ [][InFlight \intersect company = {} => Serial!Next \/ UNCHANGED Serial!vars]_vars
=============================================================================
