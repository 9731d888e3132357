------------------------- MODULE BudgetAlertsProofs -------------------------
(***************************************************************************)
(* The alerts of a budget, for every set of expenses, budgets, alerts and  *)
(* requests.  First, whose an alert is: row locks keep the alerts a        *)
(* transaction has resolved from being deleted, and the budget it has      *)
(* written from being replaced.  On top of that, how the alerts come and   *)
(* go: how many can stand at once, which steps of their life there are,    *)
(* and what they are when requests come one after the other.               *)
(***************************************************************************)
EXTENDS BudgetAlerts, SumTheorems, FiniteSetTheorems, TLAPS

\* The transaction has written its first row, and holds its lock.
Past(s) == s.pc \notin {"idle", "write"}

\* A request is at a point of its own kind, with what it needs there.
Placed(s) ==
    /\ s.pc \in {"checkBudget", "checkSum", "checkFind", "checkCreate"} =>
          s.kind \in {"create", "update"}
    /\ s.pc \in {"checkSum", "checkFind", "checkCreate"} => Exists(s.seen)
    /\ s.plan # "keep" => s.kind = "project"
    /\ s.plan = "delete" => s.budget = NoBudget
    /\ s.plan = "upsert" /\ Past(s) => Exists(s.budget)
    /\ ~Past(s) => s.done = {}

Shape == TypeOK /\ \A r \in Requests : Placed(req[r])

\* The transaction has written the project.
Writing(r) == req[r].kind = "project" /\ Past(req[r])

OneWriter == \A q, r \in Requests : Writing(q) /\ Writing(r) => q = r

\* The budget it has changed is still the one there is.
SameRow == \A r \in Requests :
              Writing(r) /\ req[r].plan = "upsert" /\ Exists(budget) =>
                 req[r].budget.id = budget.id

\* What is resolved is not deleted, and while alerts are being deleted with their
\* budget nobody else has resolved any.
ResolvedStay == \A r \in Requests : req[r].done \subseteq Present

NoneResolved == \A q \in Requests : Writing(q) /\ req[q].plan = "delete" =>
                   \A r \in Requests : r # q => req[r].done = {}

AlertInv == Shape /\ OneWriter /\ SameRow /\ ResolvedStay /\ NoneResolved /\ AlertsOfCurrentBudget

\* The rest of the type invariant, but for company.
Rest == /\ ops \in [Ops -> Nat] /\ lastId \in Nat
        /\ reopened \subseteq Alerts /\ silenced \in BOOLEAN /\ overlapped \in BOOLEAN

-----------------------------------------------------------------------------
(* What a step does to the tables and to the request that makes it. *)

Moved(r) == /\ req' \in [Requests -> RequestState] /\ Placed(req'[r])
            /\ \A q \in Requests : q # r => req'[q] = req[q]

rows == <<budget, alert, lastId>>

\* It arrives or fails.
Rests(r) == Moved(r) /\ ~Past(req'[r]) /\ UNCHANGED rows

\* It goes on to its next statement.
GoesOn(r) == /\ Moved(r) /\ UNCHANGED rows
             /\ req'[r].kind = req[r].kind /\ req'[r].plan = req[r].plan
             /\ req'[r].budget = req[r].budget /\ req'[r].done = req[r].done
             /\ Past(req[r]) \/ req[r].kind # "project"

\* It has got the lock of the project, and those of the alerts it deletes.
Writes(r) == /\ Moved(r) /\ UNCHANGED <<budget, alert>>
             /\ req[r].kind = "project" /\ req[r].pc = "write" /\ Granted(r)
             /\ req'[r].plan = req[r].plan /\ req'[r].done = req[r].done
             /\ req[r].plan = "upsert" /\ Exists(budget) => req'[r].budget.id = budget.id
             /\ \/ lastId' = lastId /\ (req[r].plan = "upsert" => Exists(budget))
                \/ lastId' = lastId + 1 /\ req'[r].budget.id = lastId'

\* It has resolved one alert more.
Resolves(r) == /\ Moved(r) /\ UNCHANGED rows
               /\ Past(req[r]) /\ req[r].pc = "resolveUpdate" /\ Granted(r)
               /\ req'[r].kind = req[r].kind /\ req'[r].plan = req[r].plan
               /\ req'[r].budget = req[r].budget
               /\ req[r].next \in Present
               /\ req'[r].done = req[r].done \union {req[r].next}

Commits(r) == /\ Moved(r) /\ ~Past(req'[r]) /\ UNCHANGED lastId
              /\ Past(req[r])
              /\ budget' = BudgetSeenBy(r)
              /\ alert' = [a \in Alerts |-> AlertAfter(r, a)]

\* With a new alert, for the budget that is there.
Creates(r) == /\ Moved(r) /\ ~Past(req'[r])
              /\ req[r].kind \in {"create", "update"}
              /\ Exists(budget) /\ UNCHANGED <<budget, lastId>>
              /\ \E new \in Alerts, threshold \in 0..100 :
                    /\ alert[new].status = "free"
                    /\ alert' = [a \in Alerts |->
                          IF a = new THEN [status |-> "unread", budgetId |-> budget.id,
                                           threshold |-> threshold]
                          ELSE AlertAfter(r, a)]

Marks == /\ UNCHANGED <<req, budget, lastId>>
         /\ \E a \in Present, s \in Statuses : alert' = [alert EXCEPT ![a].status = s]

LEMMA IdlePlaced == Idle \in RequestState /\ Placed(Idle) /\ ~Past(Idle)
BY DEF Idle, RequestState, Points, BudgetRow, NoBudget, Placed, Past

LEMMA SeenBudget ==
    ASSUME Shape, NEW r \in Requests
    PROVE  BudgetSeenBy(r) \in BudgetRow
BY DEF Shape, TypeOK, RequestState, BudgetSeenBy

LEMMA AlertSteps ==
    ASSUME Shape, [Next]_vars
    PROVE  \/ UNCHANGED vars
           \/ Rest' /\ Marks
           \/ Rest' /\ \E r \in Requests : \/ Rests(r) \/ GoesOn(r) \/ Writes(r)
                                           \/ Resolves(r) \/ Commits(r) \/ Creates(r)
<1> USE DEF Shape
<1>0. Rest
  BY DEF TypeOK, Rest
<1>m. ASSUME NEW r \in Requests, NEW a \in Alerts, NEW s \in StatusInputs, MarkAlert(r, a, s)
      PROVE  Rest' /\ Marks
  <2>1. s \in Statuses
    BY InputsAssumption
  <2>2. reopened' \subseteq Alerts
    BY <1>m, <1>0 DEF MarkAlert, Rest
  <2>3. silenced' \in BOOLEAN /\ overlapped' \in BOOLEAN
    BY <1>m, <1>0 DEF MarkAlert, Rest
  <2> QED
    BY <1>m, <1>0, <2>1, <2>2, <2>3 DEF MarkAlert, Marks, Rest
<1>n. ASSUME NEW r \in Requests, Start(r) \/ Statement(r) \/ Abort(r) \/ BreakDeadlock(r)
      PROVE  Rest' /\ (\/ Rests(r) \/ GoesOn(r) \/ Writes(r)
                       \/ Resolves(r) \/ Commits(r) \/ Creates(r))
  <2>0. req[r] \in RequestState /\ Placed(req[r]) /\ req \in [Requests -> RequestState]
    BY DEF TypeOK
  <2>a. ASSUME NEW s \in RequestState, Placed(s), req' = [req EXCEPT ![r] = s]
        PROVE  Moved(r) /\ req'[r] = s
    BY <2>a, <2>0 DEF Moved
  <2>b. ASSUME RollBack(r)
        PROVE  Moved(r) /\ ~Past(req'[r])
    BY <2>a, <2>b, IdlePlaced DEF RollBack
  <2>c. ASSUME NEW s \in RequestState, Placed(s), req' = [req EXCEPT ![r] = s],
               s.kind = req[r].kind, s.plan = req[r].plan, s.budget = req[r].budget,
               s.done = req[r].done, Past(req[r]) \/ req[r].kind # "project",
               UNCHANGED <<ops, budget, lastId, alert, history, overlapped>>
        PROVE  Rest' /\ GoesOn(r)
    BY <1>0, <2>a, <2>c DEF GoesOn, rows, Rest, history
  \* To another statement, with what was read for it.
  <2>d. ASSUME NEW pc \in Points, NEW b \in BudgetRow, NEW n \in Alerts \union {None},
               NEW todo \in SUBSET Alerts,
               req' = [req EXCEPT ![r] = [req[r] EXCEPT !.pc = pc, !.seen = b,
                                                        !.next = n, !.todo = todo]],
               UNCHANGED <<ops, budget, lastId, alert, history, overlapped>>,
               Past(req[r]), pc \notin {"idle", "write"},
               pc \in {"checkBudget", "checkSum", "checkFind", "checkCreate"} =>
                  req[r].kind \in {"create", "update"},
               pc \in {"checkSum", "checkFind", "checkCreate"} => Exists(b)
        PROVE  Rest' /\ GoesOn(r)
    <3> DEFINE s == [req[r] EXCEPT !.pc = pc, !.seen = b, !.next = n, !.todo = todo]
    <3>1. s \in RequestState
      BY <2>0 DEF RequestState
    <3>2. Placed(s)
      BY <2>0, <2>d DEF RequestState, Placed, Past
    <3>3. /\ s.kind = req[r].kind /\ s.plan = req[r].plan /\ s.budget = req[r].budget
          /\ s.done = req[r].done
      BY <2>0 DEF RequestState
    <3> QED
      BY <2>c, <2>d, <3>1, <3>2, <3>3
  <2>e. ASSUME NEW pc \in Points, Goto(r, pc),
               UNCHANGED <<ops, budget, lastId, alert, history, overlapped>>,
               Past(req[r]), pc \notin {"idle", "write"},
               pc \in {"checkBudget", "checkSum", "checkFind", "checkCreate"} =>
                  req[r].kind \in {"create", "update"},
               pc \in {"checkSum", "checkFind", "checkCreate"} => Exists(req[r].seen)
        PROVE  Rest' /\ GoesOn(r)
    <3>1. /\ req[r].seen \in BudgetRow /\ req[r].next \in Alerts \union {None}
          /\ req[r].todo \in SUBSET Alerts
      BY <2>0 DEF RequestState
    <3>2. req' = [req EXCEPT ![r] = [req[r] EXCEPT !.pc = pc, !.seen = req[r].seen,
                                        !.next = req[r].next, !.todo = req[r].todo]]
      BY <2>0, <2>e DEF Goto, RequestState
    <3> QED
      BY <2>d, <2>e, <3>1, <3>2
  <2>f. ASSUME RollBack(r), UNCHANGED <<ops, budget, lastId, alert, history, overlapped>>
        PROVE  Rest' /\ Rests(r)
    BY <1>0, <2>b, <2>f DEF Rests, rows, Rest, history
  <2>g. AfterResolve(r) \in {"checkBudget", "commit"}
        /\ (AfterResolve(r) = "checkBudget" => req[r].kind = "update")
    BY DEF AfterResolve
  \* The rows written to the tables.
  <2>h. ASSUME NEW a, CommitWith(r, a)
        PROVE  Rest' /\ Moved(r) /\ ~Past(req'[r])
    <3>1. Moved(r) /\ ~Past(req'[r])
      BY <2>b, <2>h DEF CommitWith, RollBack
    <3>2. ops' \in [Ops -> Nat]
      BY <1>0, <2>0, <2>h DEF CommitWith, OpsSeenBy, RequestState, Rest
    <3>3. reopened' \subseteq Alerts /\ lastId' \in Nat /\ overlapped' \in BOOLEAN
      BY <1>0, <2>h DEF CommitWith, Rest
    <3>4. silenced' \in BOOLEAN
      BY <1>0, <2>h DEF CommitWith, Rest
    <3> QED
      BY <3>1, <3>2, <3>3, <3>4 DEF Rest
  \* The arrivals.
  <2>i. ASSUME NEW s \in RequestState, Arrive(r, s), Placed([s EXCEPT !.pc = "write"])
        PROVE  Rest' /\ Rests(r)
    <3> DEFINE t == [s EXCEPT !.pc = "write"]
    <3>1. t \in RequestState /\ t.pc = "write"
      BY DEF RequestState, Points
    <3>2. Moved(r) /\ req'[r] = t
      BY <2>a, <2>i, <3>1 DEF Arrive
    <3>3. Rest' /\ UNCHANGED rows
      BY <1>0, <2>i DEF Arrive, Rest, rows, history
    <3> QED
      BY <3>1, <3>2, <3>3 DEF Rests, Past
  <2>1. ASSUME NEW kind \in {"create", "update"}, NEW o \in Ops, NEW n \in Nat,
               Arrive(r, [Idle EXCEPT !.kind = kind, !.op = o, !.amount = n])
        PROVE  Rest' /\ Rests(r)
    <3> DEFINE s == [Idle EXCEPT !.kind = kind, !.op = o, !.amount = n]
    <3>1. s \in RequestState /\ Placed([s EXCEPT !.pc = "write"])
      BY IdlePlaced DEF Idle, RequestState, Placed, Past
    <3> QED
      BY <2>1, <2>i, <3>1
  <2>2. CASE StartCreate(r) \/ StartUpdate(r)
    <3> PICK kind \in {"create", "update"}, o \in Ops, n \in Amounts :
           Arrive(r, [Idle EXCEPT !.kind = kind, !.op = o, !.amount = n])
      BY <2>2 DEF StartCreate, StartUpdate
    <3> QED
      BY <2>1, InputsAssumption
  <2>3. CASE StartDelete(r)
    <3> PICK o \in Ops : Arrive(r, [Idle EXCEPT !.kind = "delete", !.op = o])
      BY <2>3 DEF StartDelete
    <3> DEFINE s == [Idle EXCEPT !.kind = "delete", !.op = o]
    <3>1. s \in RequestState /\ Placed([s EXCEPT !.pc = "write"])
      BY IdlePlaced DEF Idle, RequestState, Placed, Past
    <3> QED
      BY <2>i, <3>1
  <2>4. CASE StartProject(r)
    <3>1. ASSUME NEW b \in BudgetInputs,
                 Arrive(r, [Idle EXCEPT !.kind = "project", !.plan = "upsert",
                                        !.budget = [id |-> 0, amount |-> b.amount,
                                                    limitCriteria |-> b.limitCriteria]])
          PROVE  Rest' /\ Rests(r)
      <4> DEFINE row == [id |-> 0, amount |-> b.amount, limitCriteria |-> b.limitCriteria]
                 s   == [Idle EXCEPT !.kind = "project", !.plan = "upsert", !.budget = row]
      <4>1. row \in BudgetRow
        BY InputsAssumption DEF BudgetRow
      <4>2. s \in RequestState /\ Placed([s EXCEPT !.pc = "write"])
        BY <4>1, IdlePlaced DEF Idle, RequestState, Placed, Past
      <4> QED
        BY <2>i, <3>1, <4>2
    <3>2. CASE Arrive(r, [Idle EXCEPT !.kind = "project", !.plan = "delete"])
      <4> DEFINE s == [Idle EXCEPT !.kind = "project", !.plan = "delete"]
      <4>1. s \in RequestState /\ Placed([s EXCEPT !.pc = "write"])
        BY IdlePlaced DEF Idle, RequestState, Placed, Past
      <4> QED
        BY <2>i, <3>2, <4>1
    <3>3. CASE Arrive(r, [Idle EXCEPT !.kind = "project"])
      <4> DEFINE s == [Idle EXCEPT !.kind = "project"]
      <4>1. s \in RequestState /\ Placed([s EXCEPT !.pc = "write"])
        BY IdlePlaced DEF Idle, RequestState, Placed, Past
      <4> QED
        BY <2>i, <3>3, <4>1
    <3> QED
      BY <2>4, <3>1, <3>2, <3>3 DEF StartProject
  <2>5. CASE WriteOperation(r)
    <3>1. CASE RollBack(r)
      BY <2>5, <2>f, <3>1 DEF WriteOperation
    <3>2. ASSUME NEW pc \in {"checkBudget", "resolveBudget"}, Goto(r, pc),
                 pc = "checkBudget" => req[r].kind = "create"
          PROVE  Rest' /\ GoesOn(r)
      <4> DEFINE s == [req[r] EXCEPT !.pc = pc]
      <4>1. /\ s \in RequestState /\ s.kind = req[r].kind /\ s.plan = req[r].plan
            /\ s.budget = req[r].budget /\ s.done = req[r].done /\ s.pc = pc
        BY <2>0 DEF RequestState, Points
      <4>2. Placed(s)
        BY <2>0, <2>5, <3>2, <4>1 DEF WriteOperation, Placed, Past
      <4> QED
        BY <2>5, <2>c, <3>2, <4>1, <4>2 DEF WriteOperation, Goto
    <3> QED
      BY <2>5, <3>1, <3>2 DEF WriteOperation
  <2>6. CASE WriteProject(r)
    <3>1. CASE RollBack(r) /\ UNCHANGED lastId
      BY <2>6, <2>f, <3>1 DEF WriteProject
    <3>2. ASSUME NEW row \in BudgetRow,
                 req' = [req EXCEPT ![r] = [req[r] EXCEPT !.pc = "resolveBudget", !.budget = row]],
                 lastId' \in Nat,
                 req[r].plan = "upsert" => Exists(row),
                 req[r].plan = "delete" => row = NoBudget,
                 req[r].plan = "upsert" /\ Exists(budget) => row.id = budget.id,
                 \/ lastId' = lastId /\ (req[r].plan = "upsert" => Exists(budget))
                 \/ lastId' = lastId + 1 /\ row.id = lastId'
          PROVE  Rest' /\ Writes(r)
      <4> DEFINE s == [req[r] EXCEPT !.pc = "resolveBudget", !.budget = row]
      <4>1. /\ s \in RequestState /\ s.kind = req[r].kind /\ s.plan = req[r].plan
            /\ s.budget = row /\ s.done = req[r].done /\ s.pc = "resolveBudget"
        BY <2>0, <3>2 DEF RequestState, Points
      <4>2. Placed(s)
        BY <2>0, <3>2, <4>1 DEF Placed, Past
      <4>3. Moved(r) /\ req'[r] = s
        BY <2>a, <3>2, <4>1, <4>2
      <4>4. Rest' /\ UNCHANGED <<budget, alert>>
        BY <1>0, <2>6, <3>2 DEF WriteProject, Rest, history
      <4> QED
        BY <2>6, <3>2, <4>1, <4>3, <4>4 DEF WriteProject, Writes
    <3>3. CASE Goto(r, "resolveBudget") /\ UNCHANGED lastId /\ req[r].plan # "upsert"
      <4>1. req[r].budget \in BudgetRow
        BY <2>0 DEF RequestState
      <4>2. req' = [req EXCEPT ![r] = [req[r] EXCEPT !.pc = "resolveBudget",
                                                     !.budget = req[r].budget]]
        BY <2>0, <3>3 DEF Goto, RequestState
      <4> QED
        BY <1>0, <2>0, <3>2, <3>3, <4>1, <4>2 DEF Rest, Placed
    <3>4. CASE /\ req[r].plan = "upsert"
               /\ lastId' = IF Exists(budget) THEN lastId ELSE lastId + 1
               /\ req' = [req EXCEPT ![r].pc = "resolveBudget",
                                     ![r].budget.id = IF Exists(budget) THEN budget.id
                                                      ELSE lastId + 1]
      <4> DEFINE id  == IF Exists(budget) THEN budget.id ELSE lastId + 1
                 row == [req[r].budget EXCEPT !.id = id]
      <4>1. /\ id \in Nat /\ id # 0 /\ (Exists(budget) => id = budget.id) /\ lastId' \in Nat
            /\ \/ lastId' = lastId /\ Exists(budget)
               \/ lastId' = lastId + 1 /\ id = lastId'
        BY <1>0, <3>4 DEF TypeOK, BudgetRow, Rest, Exists
      <4>2. row \in BudgetRow /\ row.id = id
        BY <2>0, <4>1 DEF RequestState, BudgetRow
      <4>3. req' = [req EXCEPT ![r] = [req[r] EXCEPT !.pc = "resolveBudget", !.budget = row]]
        BY <2>0, <3>4 DEF RequestState
      <4> QED
        BY <3>2, <3>4, <4>1, <4>2, <4>3 DEF Exists
    <3> QED
      BY <2>6, <3>1, <3>3, <3>4 DEF WriteProject
  <2>7. CASE ResolveBudget(r)
    <3> DEFINE pc == IF Exists(BudgetSeenBy(r)) THEN "resolveSum" ELSE AfterResolve(r)
    <3>1. /\ pc \in Points /\ pc \notin {"idle", "write", "checkSum", "checkFind", "checkCreate"}
          /\ pc = "checkBudget" => req[r].kind = "update"
      BY <2>g DEF Points
    <3>2. /\ BudgetSeenBy(r) \in BudgetRow /\ req[r].next \in Alerts \union {None}
          /\ req[r].todo \in SUBSET Alerts
      BY <2>0, SeenBudget DEF RequestState
    <3>3. req' = [req EXCEPT ![r] = [req[r] EXCEPT !.pc = pc, !.seen = BudgetSeenBy(r),
                                        !.next = req[r].next, !.todo = req[r].todo]]
      BY <2>0, <2>7 DEF ResolveBudget, RequestState
    <3>4. Past(req[r]) /\ UNCHANGED <<ops, budget, lastId, alert, history, overlapped>>
      BY <2>7 DEF ResolveBudget, Past
    <3>5. pc \notin {"idle", "write"}
      BY <3>1
    <3> HIDE DEF pc
    <3> QED
      BY <2>d, <3>1, <3>2, <3>3, <3>4, <3>5
  <2>8. CASE ResolveSum(r)
    <3> PICK pc \in {AfterResolve(r), "resolveFind"} : Goto(r, pc)
      BY <2>8 DEF ResolveSum
    <3>1. pc \in Points
      BY <2>g DEF Points
    <3> QED
      BY <2>8, <2>e, <2>g, <3>1 DEF ResolveSum, Past
  <2>9. CASE ResolveFind(r)
    <3>1. CASE Goto(r, AfterResolve(r))
      <4>1. AfterResolve(r) \in Points
        BY <2>g DEF Points
      <4> QED
        BY <2>9, <2>e, <2>g, <3>1, <4>1 DEF ResolveFind, Past
    <3>2. ASSUME NEW a \in ActiveSeenBy(r, req[r].seen),
                 req' = [req EXCEPT ![r].pc = "resolveUpdate", ![r].next = a,
                                    ![r].todo = ActiveSeenBy(r, req[r].seen) \ {a}]
          PROVE  Rest' /\ GoesOn(r)
      <4>1. a \in Alerts /\ ActiveSeenBy(r, req[r].seen) \ {a} \in SUBSET Alerts
            /\ req[r].seen \in BudgetRow /\ "resolveUpdate" \in Points
        BY <2>0 DEF ActiveSeenBy, RequestState, Points
      <4>2. req' = [req EXCEPT ![r] = [req[r] EXCEPT !.pc = "resolveUpdate", !.seen = req[r].seen,
                       !.next = a, !.todo = ActiveSeenBy(r, req[r].seen) \ {a}]]
        BY <2>0, <3>2 DEF RequestState
      <4> QED
        BY <2>9, <2>d, <4>1, <4>2 DEF ResolveFind, Past
    <3> QED
      BY <2>9, <3>1, <3>2 DEF ResolveFind
  <2>10. CASE ResolveUpdate(r)
    <3>1. CASE RollBack(r)
      BY <2>10, <2>f, <3>1 DEF ResolveUpdate
    <3>2. ASSUME NEW s \in RequestState, req' = [req EXCEPT ![r] = s],
                 s.kind = req[r].kind, s.plan = req[r].plan, s.budget = req[r].budget,
                 s.done = req[r].done \union {req[r].next}, req[r].next \in Present,
                 s.pc \in {"resolveUpdate", "checkBudget", "commit"},
                 s.pc = "checkBudget" => req[r].kind = "update"
          PROVE  Rest' /\ Resolves(r)
      <4>1. Placed(s)
        BY <2>0, <2>10, <3>2 DEF ResolveUpdate, Placed, Past
      <4>2. Moved(r) /\ req'[r] = s
        BY <2>a, <3>2, <4>1
      <4>3. Rest' /\ UNCHANGED rows
        BY <1>0, <2>10 DEF ResolveUpdate, Rest, rows, history
      <4> QED
        BY <2>10, <3>2, <4>2, <4>3 DEF ResolveUpdate, Resolves, Past
    <3>3. CASE /\ req[r].next \in Present
               /\ req' = [req EXCEPT ![r].pc = AfterResolve(r), ![r].next = None,
                                     ![r].done = @ \union {req[r].next}]
      <4> DEFINE s == [req[r] EXCEPT !.pc = AfterResolve(r), !.next = None,
                                     !.done = @ \union {req[r].next}]
      <4>1. /\ s \in RequestState /\ s.kind = req[r].kind /\ s.plan = req[r].plan
            /\ s.budget = req[r].budget /\ s.done = req[r].done \union {req[r].next}
            /\ s.pc = AfterResolve(r)
        BY <2>0, <2>g, <3>3 DEF RequestState, Points, Present
      <4> QED
        BY <2>g, <3>2, <3>3, <4>1
    <3>4. ASSUME req[r].next \in Present, NEW a \in req[r].todo,
                 req' = [req EXCEPT ![r].next = a, ![r].todo = @ \ {a},
                                    ![r].done = @ \union {req[r].next}]
          PROVE  Rest' /\ Resolves(r)
      <4> DEFINE s == [req[r] EXCEPT !.next = a, !.todo = @ \ {a},
                                     !.done = @ \union {req[r].next}]
      <4>1. /\ s \in RequestState /\ s.kind = req[r].kind /\ s.plan = req[r].plan
            /\ s.budget = req[r].budget /\ s.done = req[r].done \union {req[r].next}
            /\ s.pc = "resolveUpdate"
        BY <2>0, <2>10, <3>4 DEF ResolveUpdate, RequestState, Points, Present
      <4> QED
        BY <3>2, <3>4, <4>1
    <3> QED
      BY <2>10, <3>1, <3>3, <3>4 DEF ResolveUpdate
  <2>11. CASE CheckBudget(r)
    <3> DEFINE pc == IF Exists(BudgetSeenBy(r)) THEN "checkSum" ELSE "commit"
    <3>1. /\ pc \in Points /\ pc \in {"checkSum", "commit"}
          /\ pc = "checkSum" => Exists(BudgetSeenBy(r))
          /\ req[r].kind \in {"create", "update"}
      BY <2>0, <2>11 DEF CheckBudget, Points, Placed
    <3>2. /\ BudgetSeenBy(r) \in BudgetRow /\ req[r].next \in Alerts \union {None}
          /\ req[r].todo \in SUBSET Alerts
      BY <2>0, SeenBudget DEF RequestState
    <3>3. req' = [req EXCEPT ![r] = [req[r] EXCEPT !.pc = pc, !.seen = BudgetSeenBy(r),
                                        !.next = req[r].next, !.todo = req[r].todo]]
      BY <2>0, <2>11 DEF CheckBudget, RequestState
    <3>4. Past(req[r]) /\ UNCHANGED <<ops, budget, lastId, alert, history, overlapped>>
      BY <2>11 DEF CheckBudget, Past
    <3>5. pc \notin {"idle", "write"}
      BY <3>1
    <3> HIDE DEF pc
    <3> QED
      BY <2>d, <3>1, <3>2, <3>3, <3>4, <3>5
  <2>12. CASE CheckSum(r) \/ CheckFind(r)
    <3> PICK pc \in {"checkFind", "checkCreate", "commit"} : Goto(r, pc)
      BY <2>12 DEF CheckSum, CheckFind
    <3>1. /\ pc \in Points /\ Past(req[r])
          /\ req[r].kind \in {"create", "update"} /\ Exists(req[r].seen)
      BY <2>0, <2>12 DEF CheckSum, CheckFind, Points, Placed, Past
    <3> QED
      BY <2>12, <2>e, <3>1 DEF CheckSum, CheckFind
  <2>13. CASE CheckCreate(r)
    <3>1. CASE RollBack(r) /\ UNCHANGED <<ops, budget, lastId, alert, history, overlapped>>
      BY <2>f, <3>1
    <3>2. ASSUME budget.id = req[r].seen.id, NEW new \in Alerts, alert[new].status = "free",
                 CommitWith(r, [a \in Alerts |->
                      IF a = new THEN [status |-> "unread", budgetId |-> req[r].seen.id,
                                       threshold |-> req[r].seen.limitCriteria]
                      ELSE AlertAfter(r, a)])
          PROVE  Rest' /\ Creates(r)
      <4>1. Rest' /\ Moved(r) /\ ~Past(req'[r])
        BY <2>h, <3>2
      <4>2. /\ req[r].kind \in {"create", "update"} /\ Exists(budget)
            /\ req[r].seen.limitCriteria \in 0..100
        BY <2>0, <2>13, <3>2 DEF CheckCreate, Placed, Exists, RequestState, BudgetRow
      <4>3. budget' = budget
        BY <3>2, <4>2 DEF CommitWith, BudgetSeenBy
      <4> QED
        BY <3>2, <4>1, <4>2, <4>3 DEF CommitWith, Creates
    <3> QED
      BY <2>13, <3>1, <3>2 DEF CheckCreate
  <2>14. CASE Commit(r)
    <3>1. Rest' /\ Moved(r) /\ ~Past(req'[r])
      BY <2>h, <2>14 DEF Commit
    <3> QED
      BY <2>14, <3>1 DEF Commit, CommitWith, Commits, Past
  <2>15. CASE Abort(r) \/ BreakDeadlock(r)
    BY <2>15, <2>f DEF Abort, BreakDeadlock
  <2> QED
    BY <1>n, <2>2, <2>3, <2>4, <2>5, <2>6, <2>7, <2>8, <2>9, <2>10, <2>11, <2>12, <2>13,
       <2>14, <2>15 DEF Start, Statement
<1> QED
  BY <1>m, <1>n DEF Next

-----------------------------------------------------------------------------
(* The locks. *)

\* Whoever writes the project does it alone, and if it deletes the budget then
\* the transactions that have resolved alerts are over.
LEMMA WriterIsAlone ==
    ASSUME Shape, ResolvedStay, NEW r \in Requests, Writes(r),
           NEW q \in Requests, q # r
    PROVE  ~Writing(q) /\ (req[r].plan = "delete" => req[q].done = {})
<1> USE DEF Shape
<1>1. FirstLocks(r) \intersect Locked(q) = {}
  BY DEF Writes, Granted, WaitsFor, Wanted
<1>2. ProjectLock \in FirstLocks(r)
  BY DEF Writes, FirstLocks
<1>3. ASSUME Writing(q)
      PROVE  FALSE
  <2>1. ProjectLock \in FirstLocks(q)
    BY <1>3 DEF Writing, FirstLocks
  <2> QED
    BY <1>1, <1>2, <1>3, <2>1 DEF Writing, Past, Locked
<1>4. ASSUME req[r].plan = "delete", NEW a \in req[q].done
      PROVE  FALSE
  <2>1. a \in Present /\ Past(req[q])
    BY <1>4 DEF ResolvedStay, Placed
  <2>2. <<"alert", a>> \in FirstLocks(r)
    BY <1>4, <2>1 DEF Writes, FirstLocks, AlertLocks
  <2>3. <<"alert", a>> \in Locked(q)
    BY <1>4, <2>1 DEF Past, Locked, AlertLocks
  <2> QED
    BY <1>1, <2>2, <2>3
<1> QED
  BY <1>3, <1>4

\* Nobody resolves an alert that is being deleted.
LEMMA ResolverIsAlone ==
    ASSUME NEW r \in Requests, Resolves(r), NEW q \in Requests, q # r, Writing(q)
    PROVE  req[q].plan # "delete"
<1> SUFFICES ASSUME req[q].plan = "delete"
             PROVE  FALSE
  OBVIOUS
<1>1. <<"alert", req[r].next>> \in Wanted(r)
  BY DEF Resolves, Wanted, AlertLocks
<1>2. <<"alert", req[r].next>> \in Locked(q)
  BY DEF Resolves, Writing, Past, Locked, FirstLocks, AlertLocks
<1> QED
  BY <1>1, <1>2 DEF Resolves, Granted, WaitsFor

-----------------------------------------------------------------------------
(* What a commit leaves of the alerts. *)

LEMMA CommittedAlerts ==
    ASSUME Shape, ResolvedStay, NEW r \in Requests, NEW a \in Alerts
    PROVE  /\ AlertAfter(r, a) \in AlertRow
           /\ AlertAfter(r, a).budgetId = alert[a].budgetId
           /\ req[r].plan # "delete" =>
                 (AlertAfter(r, a).status \in Statuses <=> a \in Present)
           /\ req[r].plan = "delete" => AlertAfter(r, a).status \notin Statuses
<1> USE DEF Shape
<1>1. alert[a] \in AlertRow
  BY DEF TypeOK
<1>2. "resolved" \in Statuses /\ "gone" \notin Statuses
  BY DEF Statuses, Active
<1>3. a \in req[r].done => a \in Present
  BY DEF ResolvedStay
<1>4. CASE req[r].plan = "delete" /\ a \in Present
  <2>1. AlertAfter(r, a) = [alert[a] EXCEPT !.status = "gone"]
    BY <1>4 DEF AlertAfter
  <2> QED
    BY <1>1, <1>2, <1>4, <2>1 DEF AlertRow
<1>5. CASE req[r].plan # "delete" /\ a \in req[r].done
  <2>1. AlertAfter(r, a) = [alert[a] EXCEPT !.status = "resolved"]
    BY <1>5 DEF AlertAfter
  <2> QED
    BY <1>1, <1>2, <1>3, <1>5, <2>1 DEF AlertRow
<1>6. CASE /\ ~(req[r].plan = "delete" /\ a \in Present)
          /\ ~(req[r].plan # "delete" /\ a \in req[r].done)
  <2>1. AlertAfter(r, a) = alert[a]
    BY <1>6 DEF AlertAfter
  <2> QED
    BY <1>1, <1>6, <2>1 DEF Present
<1> QED
  BY <1>4, <1>5, <1>6

-----------------------------------------------------------------------------
(* The invariant. *)

LEMMA CompanyStays ==
    ASSUME company \subseteq Requests, [Next]_vars
    PROVE  company' \subseteq Requests
<1>1. InFlight \subseteq Requests
  BY DEF InFlight
<1>2. ASSUME NEW r \in Requests, Start(r)
      PROVE  company' \subseteq Requests
  <2>1. PICK s : Arrive(r, s)
    BY <1>2 DEF Start, StartCreate, StartUpdate, StartDelete, StartProject
  <2> QED
    BY <1>1, <2>1 DEF Arrive
<1>3. ASSUME NEW r \in Requests, NEW a \in Alerts, NEW s \in StatusInputs, MarkAlert(r, a, s)
      PROVE  company' \subseteq Requests
  BY <1>1, <1>3 DEF MarkAlert
<1>4. ASSUME NEW r \in Requests, Statement(r) \/ Abort(r) \/ BreakDeadlock(r)
      PROVE  UNCHANGED company
  BY <1>4 DEF Statement, WriteOperation, WriteProject, ResolveBudget, ResolveSum, ResolveFind,
              ResolveUpdate, CheckBudget, CheckSum, CheckFind, CheckCreate, Commit, CommitWith,
              Abort, BreakDeadlock
<1> QED
  BY <1>2, <1>3, <1>4 DEF Next, vars

LEMMA AlertInvariant == Spec => []AlertInv
<1>1. Init => AlertInv
  <2> SUFFICES ASSUME Init
               PROVE  AlertInv
    OBVIOUS
  <2>1. budget \in BudgetRow /\ lastId \in Nat
    <3>1. CASE budget = NoBudget /\ lastId = 0
      BY <3>1 DEF NoBudget, BudgetRow
    <3>2. ASSUME NEW b \in BudgetInputs, NEW e \in BOOLEAN, budget = CreatedBudget(b, e), lastId = 1
          PROVE  budget \in BudgetRow /\ lastId \in Nat
      BY <3>2, InputsAssumption DEF CreatedBudget, BudgetRow
    <3> QED
      BY <3>1, <3>2 DEF Init
  <2>2. alert \in [Alerts -> AlertRow] /\ Present = {}
    BY DEF Init, NoAlert, AlertRow, Present, Statuses, Active
  <2>3. TypeOK
    BY <2>1, <2>2, IdlePlaced DEF Init, TypeOK
  <2>4. \A r \in Requests : req[r] = Idle
    BY DEF Init
  <2>5. \A r \in Requests : Placed(req[r]) /\ ~Writing(r) /\ req[r].done = {}
    BY <2>4, IdlePlaced DEF Writing, Placed
  <2> QED
    BY <2>2, <2>3, <2>5 DEF AlertInv, Shape, OneWriter, SameRow, ResolvedStay, NoneResolved,
                            AlertsOfCurrentBudget
<1>2. AlertInv /\ [Next]_vars => AlertInv'
  <2> SUFFICES ASSUME AlertInv, [Next]_vars
               PROVE  AlertInv'
    OBVIOUS
  <2> USE DEF AlertInv
  <2>0. TypeOK
    BY DEF Shape
  <2>c. company' \subseteq Requests
    BY <2>0, CompanyStays DEF TypeOK
  <2>1. CASE UNCHANGED vars
    BY <2>1 DEF vars, history, Shape, TypeOK, OneWriter, SameRow, ResolvedStay, NoneResolved,
                Writing, AlertsOfCurrentBudget, Present
  <2>2. CASE Rest' /\ Marks
    <3> PICK a \in Present, s \in Statuses : alert' = [alert EXCEPT ![a].status = s]
      BY <2>2 DEF Marks
    <3>1. UNCHANGED <<req, budget>>
      BY <2>2 DEF Marks
    <3>2. /\ alert' \in [Alerts -> AlertRow]
          /\ Present' = Present
          /\ \A b \in Alerts : alert'[b].budgetId = alert[b].budgetId
      BY <2>0 DEF TypeOK, AlertRow, Present
    <3>3. Shape'
      BY <2>2, <2>c, <3>1, <3>2 DEF Shape, TypeOK, Rest
    <3>4. (OneWriter /\ SameRow /\ ResolvedStay /\ NoneResolved)'
      BY <3>1, <3>2 DEF OneWriter, SameRow, ResolvedStay, NoneResolved, Writing
    <3>5. AlertsOfCurrentBudget'
      BY <3>1, <3>2 DEF AlertsOfCurrentBudget, Present
    <3> QED
      BY <3>3, <3>4, <3>5
  <2>3. ASSUME Rest', NEW r \in Requests,
               Rests(r) \/ GoesOn(r) \/ Writes(r) \/ Resolves(r) \/ Commits(r) \/ Creates(r)
        PROVE  AlertInv'
    <3>m. Moved(r)
      BY <2>3 DEF Rests, GoesOn, Writes, Resolves, Commits, Creates
    <3>r. \A q \in Requests : Placed(req'[q])
      BY <3>m DEF Moved, Shape
    <3>s. ASSUME budget' \in BudgetRow, alert' \in [Alerts -> AlertRow]
          PROVE  Shape'
      BY <2>3, <2>c, <3>m, <3>r, <3>s DEF Moved, Shape, TypeOK, Rest
    <3>w. \A q \in Requests : q # r => /\ Writing(q)' <=> Writing(q)
                                       /\ req'[q] = req[q]
      BY <3>m DEF Moved, Writing
    <3>t. UNCHANGED <<budget, alert>> => Shape' /\ Present' = Present /\ AlertsOfCurrentBudget'
      BY <2>0, <3>s DEF TypeOK, Present, AlertsOfCurrentBudget
    <3>1. CASE Rests(r)
      <4>1. ~Writing(r)' /\ req'[r].done = {} /\ UNCHANGED rows
        BY <3>1, <3>r DEF Rests, Writing, Placed
      <4> QED
        BY <3>t, <3>w, <4>1 DEF rows, OneWriter, SameRow, ResolvedStay, NoneResolved
    <3>2. CASE GoesOn(r)
      <4>1. /\ Writing(r)' => Writing(r)
            /\ req'[r].plan = req[r].plan /\ req'[r].budget = req[r].budget
            /\ req'[r].done = req[r].done /\ UNCHANGED rows
        BY <3>2 DEF GoesOn, Writing
      <4> QED
        BY <3>t, <3>w, <4>1 DEF rows, OneWriter, SameRow, ResolvedStay, NoneResolved
    <3>3. CASE Writes(r)
      <4>1. \A q \in Requests : q # r => ~Writing(q)
                                         /\ (req[r].plan = "delete" => req[q].done = {})
        BY <3>3, WriterIsAlone
      <4>2. /\ req'[r].plan = req[r].plan /\ req'[r].done = req[r].done
            /\ UNCHANGED <<budget, alert>>
            /\ req[r].plan = "upsert" /\ Exists(budget) => req'[r].budget.id = budget.id
        BY <3>3 DEF Writes
      <4> QED
        BY <3>t, <3>w, <4>1, <4>2 DEF OneWriter, SameRow, ResolvedStay, NoneResolved
    <3>4. CASE Resolves(r)
      <4>1. \A q \in Requests : q # r /\ Writing(q) => req[q].plan # "delete"
        BY <3>4, ResolverIsAlone
      <4>2. /\ Writing(r)' => Writing(r)
            /\ req'[r].plan = req[r].plan /\ req'[r].budget = req[r].budget
            /\ req'[r].done = req[r].done \union {req[r].next} /\ req[r].next \in Present
            /\ UNCHANGED rows
        BY <3>4 DEF Resolves, Writing
      <4> QED
        BY <3>t, <3>w, <4>1, <4>2 DEF rows, OneWriter, SameRow, ResolvedStay, NoneResolved
    <3>5. CASE Commits(r)
      <4>1. ~Writing(r)' /\ req'[r].done = {} /\ Past(req[r])
            /\ budget' = BudgetSeenBy(r) /\ alert' = [a \in Alerts |-> AlertAfter(r, a)]
        BY <3>5, <3>r DEF Commits, Writing, Placed
      <4>2. Shape'
        BY <3>s, <4>1, SeenBudget, CommittedAlerts
      <4>3. /\ req[r].plan # "delete" => Present' = Present
            /\ req[r].plan = "delete" => Present' = {}
            /\ \A a \in Alerts : alert'[a].budgetId = alert[a].budgetId
        BY <4>1, CommittedAlerts DEF Present
      <4>4. req[r].plan \in {"keep", "upsert", "delete"}
        BY <2>0 DEF TypeOK, RequestState
      <4>5. req[r].plan # "keep" => Writing(r)
        BY <4>1 DEF Shape, Placed, Writing
      <4>6. req[r].plan = "keep" => budget' = budget
        BY <4>1 DEF BudgetSeenBy
      <4>7. req[r].plan # "keep" => budget' = req[r].budget
        BY <4>1, <4>5 DEF BudgetSeenBy, Writing
      <4>8. OneWriter' /\ NoneResolved'
        BY <3>w, <4>1 DEF OneWriter, NoneResolved
      <4>9. SameRow'
        BY <3>w, <4>1, <4>5, <4>6 DEF OneWriter, SameRow
      <4>10. ResolvedStay'
        BY <3>w, <4>1, <4>3, <4>5 DEF ResolvedStay, NoneResolved
      <4>11. AlertsOfCurrentBudget'
        <5>1. CASE req[r].plan = "keep"
          BY <4>3, <4>6, <5>1 DEF AlertsOfCurrentBudget, Present
        <5>2. CASE req[r].plan = "upsert"
          <6>1. Exists(req[r].budget) /\ (Exists(budget) => req[r].budget.id = budget.id)
            BY <4>1, <4>5, <5>2 DEF Shape, Placed, SameRow
          <6> QED
            BY <4>3, <4>7, <5>2, <6>1 DEF AlertsOfCurrentBudget, Present
        <5>3. CASE req[r].plan = "delete"
          BY <4>3, <5>3 DEF AlertsOfCurrentBudget
        <5> QED
          BY <4>4, <5>1, <5>2, <5>3
      <4> QED
        BY <4>2, <4>8, <4>9, <4>10, <4>11
    <3>6. CASE Creates(r)
      <4> PICK new \in Alerts, threshold \in 0..100 :
             /\ alert[new].status = "free"
             /\ alert' = [a \in Alerts |->
                   IF a = new THEN [status |-> "unread", budgetId |-> budget.id,
                                    threshold |-> threshold]
                   ELSE AlertAfter(r, a)]
        BY <3>6 DEF Creates
      <4>1. ~Writing(r)' /\ req'[r].done = {} /\ Exists(budget) /\ budget' = budget
            /\ req[r].plan # "delete"
        BY <3>6, <3>r DEF Creates, Writing, Placed, Shape
      <4>2. "unread" \in Statuses /\ budget.id \in Nat
        BY <2>0 DEF Statuses, Active, TypeOK, BudgetRow
      <4>3. alert' \in [Alerts -> AlertRow]
        <5>1. [status |-> "unread", budgetId |-> budget.id, threshold |-> threshold] \in AlertRow
          BY <4>2 DEF AlertRow
        <5> QED
          BY <5>1, CommittedAlerts
      <4>4. Present' = Present \union {new}
        BY <4>1, <4>2, CommittedAlerts DEF Present
      <4>5. \A a \in Alerts \ {new} : alert'[a].budgetId = alert[a].budgetId
        BY CommittedAlerts
      <4>6. alert'[new].budgetId = budget.id
        OBVIOUS
      <4>7. Shape'
        BY <2>0, <3>s, <4>1, <4>3 DEF TypeOK
      <4>8. (OneWriter /\ SameRow /\ ResolvedStay /\ NoneResolved)'
        BY <3>w, <4>1, <4>4 DEF OneWriter, SameRow, ResolvedStay, NoneResolved
      <4>9. AlertsOfCurrentBudget'
        BY <4>1, <4>4, <4>5, <4>6 DEF AlertsOfCurrentBudget, Present
      <4> QED
        BY <4>7, <4>8, <4>9
    <3> QED
      BY <2>3, <3>1, <3>2, <3>3, <3>4, <3>5, <3>6
  <2> QED
    BY <2>1, <2>2, <2>3, AlertSteps
<1> QED
  BY <1>1, <1>2, PTL DEF Spec

-----------------------------------------------------------------------------
(* The results. *)

\* The tables, the requests and the histories keep their types; percentages stay
\* within 100.
THEOREM TypeCorrect == Spec => []TypeOK
<1>1. AlertInv => TypeOK
  BY DEF AlertInv, Shape
<1> QED
  BY <1>1, AlertInvariant, PTL

\* However expenses, budgets and alerts are written at the same time, every alert
\* there is belongs to the budget the project has.
THEOREM AlertsBelongToTheBudget == Spec => []AlertsOfCurrentBudget
<1>1. AlertInv => AlertsOfCurrentBudget
  BY DEF AlertInv
<1> QED
  BY <1>1, AlertInvariant, PTL

-----------------------------------------------------------------------------
(***************************************************************************)
(* How many alerts of one budget can be active at the same time, for every *)
(* set of expenses, budgets, alerts and requests: each transaction that    *)
(* has found none and not raised its own yet is one more alert to come.    *)
(***************************************************************************)

\* The active alerts, without those a client has reopened.
Standing == ActiveAlerts \ reopened

\* The transactions that are going to add an alert and take none away.
Raising == {r \in Requests : /\ req[r].pc = "checkCreate"
                             /\ req[r].seen.id = budget.id
                             /\ req[r].done \intersect Standing = {}}

\* An alert is being resolved by one transaction at a time.
ResolvedOnce == \A q, r \in Requests : q # r => req[q].done \intersect req[r].done = {}

RoomForAll == Cardinality(Standing) + Cardinality(Raising) <= Cardinality(Requests)

DuplicateInv == ResolvedOnce /\ RoomForAll

-----------------------------------------------------------------------------
(* What a step does to these sets. *)

Clears == Standing' = {}

Lowers == Standing' \subseteq Standing /\ Raising' \subseteq Raising

Raises == \E r \in Raising, new \in Alerts :
             /\ Standing' \subseteq Standing \union {new}
             /\ Raising' \subseteq Raising \ {r}

Replaces == \E a \in Standing, new \in Alerts :
               /\ Standing' \subseteq (Standing \ {a}) \union {new}
               /\ Raising' \subseteq Raising

LEMMA OneMore ==
    ASSUME NEW S, IsFiniteSet(S), NEW x
    PROVE  /\ IsFiniteSet(S \union {x})
           /\ Cardinality(S \union {x}) \in Nat
           /\ Cardinality(S \union {x}) <= Cardinality(S) + 1
<1>1. IsFiniteSet(S \union {x})
  BY FS_AddElement
<1>2. Cardinality(S) \in Nat /\ Cardinality(S \union {x}) \in Nat
  BY <1>1, FS_CardinalityType
<1>3. \/ Cardinality(S \union {x}) = Cardinality(S)
      \/ Cardinality(S \union {x}) = Cardinality(S) + 1
  BY FS_AddElement
<1> QED
  BY <1>1, <1>2, <1>3

\* The room they leave.
LEMMA RoomStays ==
    ASSUME RoomForAll, Clears \/ Lowers \/ Raises \/ Replaces
    PROVE  RoomForAll'
<1>1. /\ IsFiniteSet(Standing) /\ IsFiniteSet(Standing')
      /\ IsFiniteSet(Raising) /\ IsFiniteSet(Raising') /\ IsFiniteSet(Requests)
      /\ Raising \subseteq Requests /\ Raising' \subseteq Requests
  BY InputsAssumption, FS_Subset DEF Standing, ActiveAlerts, Raising
<1>2. /\ Cardinality(Standing) \in Nat /\ Cardinality(Standing') \in Nat
      /\ Cardinality(Raising) \in Nat /\ Cardinality(Raising') \in Nat
      /\ Cardinality(Requests) \in Nat
  BY <1>1, FS_CardinalityType
<1>3. CASE Clears
  <2>1. Cardinality(Standing') = 0
    BY <1>3, FS_EmptySet DEF Clears
  <2>2. Cardinality(Raising') <= Cardinality(Requests)
    BY <1>1, FS_Subset
  <2> QED
    BY <1>2, <2>1, <2>2 DEF RoomForAll
<1>4. CASE Lowers
  <2>1. /\ Cardinality(Standing') <= Cardinality(Standing)
        /\ Cardinality(Raising') <= Cardinality(Raising)
    BY <1>1, <1>4, FS_Subset DEF Lowers
  <2> QED
    BY <1>2, <2>1 DEF RoomForAll
<1>5. CASE Raises
  <2> PICK r \in Raising, new \in Alerts :
         /\ Standing' \subseteq Standing \union {new}
         /\ Raising' \subseteq Raising \ {r}
    BY <1>5 DEF Raises
  <2>1. /\ IsFiniteSet(Standing \union {new})
        /\ Cardinality(Standing \union {new}) \in Nat
        /\ Cardinality(Standing \union {new}) <= Cardinality(Standing) + 1
    BY <1>1, OneMore
  <2>2. /\ IsFiniteSet(Raising \ {r})
        /\ Cardinality(Raising \ {r}) = Cardinality(Raising) - 1
    BY <1>1, FS_RemoveElement
  <2>3. /\ Cardinality(Standing') <= Cardinality(Standing \union {new})
        /\ Cardinality(Raising') <= Cardinality(Raising \ {r})
    BY <2>1, <2>2, FS_Subset
  <2> QED
    BY <1>2, <2>1, <2>2, <2>3 DEF RoomForAll
<1>6. CASE Replaces
  <2> PICK a \in Standing, new \in Alerts :
         /\ Standing' \subseteq (Standing \ {a}) \union {new}
         /\ Raising' \subseteq Raising
    BY <1>6 DEF Replaces
  <2>1. /\ IsFiniteSet(Standing \ {a})
        /\ Cardinality(Standing \ {a}) = Cardinality(Standing) - 1
    BY <1>1, FS_RemoveElement
  <2>2. /\ IsFiniteSet((Standing \ {a}) \union {new})
        /\ Cardinality((Standing \ {a}) \union {new}) \in Nat
        /\ Cardinality((Standing \ {a}) \union {new}) <= Cardinality(Standing \ {a}) + 1
    BY <2>1, OneMore
  <2>3. /\ Cardinality(Standing') <= Cardinality((Standing \ {a}) \union {new})
        /\ Cardinality(Raising') <= Cardinality(Raising)
    BY <1>1, <2>2, FS_Subset
  <2> QED
    BY <1>2, <2>1, <2>2, <2>3 DEF RoomForAll
<1> QED
  BY <1>3, <1>4, <1>5, <1>6

-----------------------------------------------------------------------------
(* The alerts that transactions have resolved. *)

LEMMA ResolvedOnceStays ==
    ASSUME AlertInv, ResolvedOnce, [Next]_vars
    PROVE  ResolvedOnce'
<1> USE DEF AlertInv, Shape
<1>1. CASE UNCHANGED vars \/ Marks
  BY <1>1 DEF vars, Marks, ResolvedOnce
<1>2. ASSUME NEW r \in Requests, Moved(r), req'[r].done \subseteq req[r].done
      PROVE  ResolvedOnce'
  BY <1>2 DEF Moved, ResolvedOnce
<1>3. ASSUME NEW r \in Requests, Moved(r), ~Past(req'[r])
      PROVE  req'[r].done = {}
  BY <1>3 DEF Moved, Placed
<1>4. ASSUME NEW r \in Requests, Resolves(r)
      PROVE  ResolvedOnce'
  <2>1. ASSUME NEW q \in Requests, q # r, req[r].next \in req[q].done
        PROVE  FALSE
    <3>1. <<"alert", req[r].next>> \in Wanted(r)
      BY <1>4 DEF Resolves, Wanted, AlertLocks
    <3>2. <<"alert", req[r].next>> \in Locked(q)
      BY <2>1 DEF Placed, Past, Locked, AlertLocks
    <3> QED
      BY <1>4, <2>1, <3>1, <3>2 DEF Resolves, Granted, WaitsFor
  <2> QED
    BY <1>4, <2>1 DEF Resolves, Moved, ResolvedOnce
<1> QED
  BY <1>1, <1>2, <1>3, <1>4, AlertSteps DEF Rests, GoesOn, Writes, Commits, Creates

-----------------------------------------------------------------------------
(* The steps. *)

\* A request does something else than raise an alert or commit.
Passes(r) == /\ UNCHANGED <<budget, alert, reopened>>
             /\ \A q \in Requests : q # r => req'[q] = req[q]
             /\ req'[r].pc # "checkCreate"

LEMMA OtherSteps ==
    ASSUME Shape, NEW r \in Requests, Start(r) \/ Statement(r) \/ Abort(r) \/ BreakDeadlock(r)
    PROVE  \/ Passes(r)
           \/ CheckFind(r)
           \/ Commit(r)
           \/ \E new \in Alerts \ Present :
                                  /\ req[r].pc = "checkCreate" /\ budget.id = req[r].seen.id
                                  /\ budget' = BudgetSeenBy(r)
                                  /\ reopened' = reopened \ req[r].done
                                  /\ \A a \in Alerts \ {new} : alert'[a] = AlertAfter(r, a)
                                  /\ req' = [req EXCEPT ![r] = Idle]
<1> USE DEF Shape
<1>0. req[r] \in RequestState /\ req \in [Requests -> RequestState]
  BY DEF TypeOK
<1>a. ASSUME NEW pc, pc # "checkCreate", Goto(r, pc), UNCHANGED <<budget, alert, history>>
      PROVE  Passes(r)
  BY <1>0, <1>a DEF Goto, Passes, history, RequestState
<1>b. ASSUME RollBack(r), UNCHANGED <<budget, alert, history>>
      PROVE  Passes(r)
  BY <1>0, <1>b DEF RollBack, Idle, Passes, history
<1>c. AfterResolve(r) # "checkCreate"
  BY DEF AfterResolve
<1>1. CASE Start(r)
  <2> PICK s : Arrive(r, s)
    BY <1>1 DEF Start, StartCreate, StartUpdate, StartDelete, StartProject
  <2> QED
    BY <1>0 DEF Arrive, Passes, history
<1>2. CASE WriteOperation(r)
  BY <1>2, <1>a, <1>b DEF WriteOperation
<1>3. CASE WriteProject(r)
  <2>1. UNCHANGED <<budget, alert, history>>
    BY <1>3 DEF WriteProject
  <2>2. CASE req[r].plan = "upsert"
    BY <1>0, <1>3, <2>1, <2>2 DEF WriteProject, Passes, history, RequestState
  <2> QED
    BY <1>3, <1>a, <1>b, <2>1, <2>2 DEF WriteProject
<1>4. CASE ResolveBudget(r)
  BY <1>0, <1>4, <1>c DEF ResolveBudget, Passes, history, RequestState
<1>5. CASE ResolveSum(r)
  BY <1>5, <1>a, <1>c DEF ResolveSum
<1>6. CASE ResolveFind(r)
  <2>1. UNCHANGED <<budget, alert, history>>
    BY <1>6 DEF ResolveFind
  <2>2. CASE Goto(r, AfterResolve(r))
    BY <1>a, <1>c, <2>1, <2>2
  <2>3. ASSUME NEW a, NEW todo,
               req' = [req EXCEPT ![r].pc = "resolveUpdate", ![r].next = a, ![r].todo = todo]
        PROVE  Passes(r)
    BY <1>0, <2>1, <2>3 DEF Passes, history, RequestState
  <2> QED
    BY <1>6, <2>2, <2>3 DEF ResolveFind
<1>7. CASE ResolveUpdate(r)
  <2>1. UNCHANGED <<budget, alert, history>> /\ req[r].pc = "resolveUpdate"
    BY <1>7 DEF ResolveUpdate
  <2>2. CASE RollBack(r)
    BY <1>b, <2>1, <2>2
  <2>3. CASE req' = [req EXCEPT ![r].pc = AfterResolve(r), ![r].next = None,
                                ![r].done = @ \union {req[r].next}]
    BY <1>0, <1>c, <2>1, <2>3 DEF Passes, history, RequestState
  <2>4. ASSUME NEW a,
               req' = [req EXCEPT ![r].next = a, ![r].todo = @ \ {a},
                                  ![r].done = @ \union {req[r].next}]
        PROVE  Passes(r)
    BY <1>0, <2>1, <2>4 DEF Passes, history, RequestState
  <2> QED
    BY <1>7, <2>2, <2>3, <2>4 DEF ResolveUpdate
<1>8. CASE CheckBudget(r)
  BY <1>0, <1>8 DEF CheckBudget, Passes, history, RequestState
<1>9. CASE CheckSum(r)
  BY <1>9, <1>a DEF CheckSum
<1>10. CASE CheckCreate(r)
  <2>1. \A a \in Alerts : alert[a].status = "free" => a \notin Present
    BY DEF Present, Statuses, Active
  <2> QED
    BY <1>10, <1>b, <2>1 DEF CheckCreate, CommitWith
<1>11. CASE Abort(r) \/ BreakDeadlock(r)
  BY <1>11, <1>b DEF Abort, BreakDeadlock
<1> QED
  BY <1>1, <1>2, <1>3, <1>4, <1>5, <1>6, <1>7, <1>8, <1>9, <1>10, <1>11 DEF Statement

\* A request that stays where it is goes on raising an alert only if it did before,
\* as long as the alerts that are not resolved by it are the same.
LEMMA RaisingStays ==
    ASSUME Shape, NEW q \in Requests, req'[q] = req[q], budget'.id = budget.id,
           q \in Raising', \A a \in req[q].done : a \in Standing => a \in Standing'
    PROVE  q \in Raising
BY DEF Raising

\* The commit of a transaction, of the alerts except those of `new'.
LEMMA CommitSteps ==
    ASSUME AlertInv, ResolvedOnce, NEW r \in Requests, NEW new \in SUBSET (Alerts \ Present),
           req[r].pc \in {"commit", "checkCreate"},
           budget' = BudgetSeenBy(r),
           reopened' = reopened \ req[r].done,
           \A a \in Alerts \ new : alert'[a] = AlertAfter(r, a),
           req' = [req EXCEPT ![r] = Idle]
    PROVE  \/ /\ req[r].plan = "delete" \/ ~Exists(budget)
              /\ Standing' \subseteq new
           \/ /\ Standing' \subseteq (Standing \ req[r].done) \union new
              /\ Raising' \subseteq Raising \ {r}
<1> USE DEF AlertInv, Shape
<1>0. /\ req[r] \in RequestState /\ req'[r] = Idle /\ Past(req[r]) /\ Placed(req[r])
      /\ \A q \in Requests : q # r => req'[q] = req[q]
      /\ \A a \in Alerts : alert[a] \in AlertRow
  BY IdlePlaced DEF TypeOK, Past
<1>1. CASE req[r].plan = "delete"
  <2>1. \A a \in Alerts \ new : alert'[a].status \notin Statuses
    BY <1>1, CommittedAlerts
  <2> QED
    BY <1>1, <2>1 DEF Standing, ActiveAlerts, Statuses
<1>2. CASE req[r].plan # "delete"
  <2>1. ASSUME NEW a \in Alerts \ new, a \in req[r].done
        PROVE  a \notin Standing'
    <3>1. AlertAfter(r, a) = [alert[a] EXCEPT !.status = "resolved"]
      BY <1>2, <2>1 DEF AlertAfter
    <3>2. alert'[a].status = "resolved"
      BY <1>0, <2>1, <3>1 DEF AlertRow
    <3> QED
      BY <3>2 DEF Standing, ActiveAlerts, Active
  <2>2. ASSUME NEW a \in Alerts \ new, a \notin req[r].done
        PROVE  alert'[a] = alert[a] /\ (a \in Standing' <=> a \in Standing)
    <3>1. alert'[a] = alert[a]
      BY <1>2, <2>2 DEF AlertAfter
    <3> QED
      BY <2>2, <3>1 DEF Standing, ActiveAlerts
  <2>3. Standing' \subseteq (Standing \ req[r].done) \union new
    BY <2>1, <2>2 DEF Standing, ActiveAlerts
  <2>4. CASE ~Exists(budget)
    <3>1. Standing = {}
      BY <2>4 DEF AlertsOfCurrentBudget, Standing, ActiveAlerts, Present, Statuses
    <3> QED
      BY <2>3, <2>4, <3>1
  <2>5. CASE Exists(budget)
    <3>1. budget'.id = budget.id
      BY <1>0, <1>2, <2>5 DEF BudgetSeenBy, SameRow, Writing, TypeOK, RequestState
    <3>2. r \notin Raising'
      BY <1>0 DEF Raising, Idle
    <3>3. ASSUME NEW q \in Raising', NEW a \in req[q].done, a \in Standing
          PROVE  a \in Standing'
      <4>1. q \in Requests /\ q # r
        BY <3>2 DEF Raising
      <4>2. a \in Present
        BY <4>1, <3>3 DEF ResolvedStay
      <4>3. a \in Alerts \ new /\ a \notin req[r].done
        BY <4>1, <4>2, <3>3 DEF ResolvedOnce, Present
      <4> QED
        BY <2>2, <3>3, <4>3
    <3>4. Raising' \subseteq Raising \ {r}
      <4> SUFFICES ASSUME NEW q \in Raising'
                   PROVE  q \in Raising \ {r}
        OBVIOUS
      <4>1. q \in Requests /\ q # r /\ req'[q] = req[q]
        BY <1>0, <3>2 DEF Raising
      <4> QED
        BY <3>1, <3>3, <4>1, RaisingStays
    <3> QED
      BY <2>3, <3>4
  <2> QED
    BY <2>4, <2>5
<1> QED
  BY <1>1, <1>2

LEMMA MarkSteps ==
    ASSUME AlertInv, NEW r \in Requests, NEW a \in Alerts, NEW s \in StatusInputs, MarkAlert(r, a, s)
    PROVE  Lowers
<1> USE DEF AlertInv, Shape
<1>1. /\ alert' = [alert EXCEPT ![a].status = s] /\ alert \in [Alerts -> AlertRow]
      /\ UNCHANGED <<budget, req>> /\ s \in Statuses /\ a \in Present
  BY InputsAssumption DEF MarkAlert, TypeOK
<1>2. \A b \in Alerts : b # a => alert'[b] = alert[b]
  BY <1>1
<1>3. alert'[a].status = s
  BY <1>1 DEF AlertRow
<1>4. reopened' \ {a} = reopened \ {a}
  BY DEF MarkAlert
<1>5. a \in Standing' => a \in Standing
  <2>1. CASE s = "resolved"
    BY <1>3, <2>1 DEF Standing, ActiveAlerts, Active
  <2>2. CASE s # "resolved" /\ alert[a].status = "resolved"
    <3>1. reopened' = reopened \union {a}
      BY <2>2 DEF MarkAlert
    <3> QED
      BY <3>1 DEF Standing
  <2>3. CASE s # "resolved" /\ alert[a].status # "resolved"
    <3>1. reopened' = reopened
      BY <2>3 DEF MarkAlert
    <3>2. alert[a].status \in Active
      BY <1>1, <2>3 DEF Present, Statuses
    <3> QED
      BY <3>1, <3>2 DEF Standing, ActiveAlerts
  <2> QED
    BY <2>1, <2>2, <2>3
<1>6. \A b \in Alerts : b # a => (b \in Standing' <=> b \in Standing)
  BY <1>2, <1>4 DEF Standing, ActiveAlerts
<1>7. Standing' \subseteq Standing
  BY <1>5, <1>6 DEF Standing, ActiveAlerts
\* The row is not locked: no transaction has resolved it.
<1>8. \A q \in Requests : a \notin req[q].done
  <2> SUFFICES ASSUME NEW q \in Requests, a \in req[q].done
               PROVE  FALSE
    OBVIOUS
  <2>1. <<"alert", a>> \in Locked(q)
    BY DEF Placed, Past, Locked, AlertLocks
  <2> QED
    BY <2>1 DEF MarkAlert, AlertLocks
<1>9. Raising' \subseteq Raising
  <2> SUFFICES ASSUME NEW q \in Raising'
               PROVE  q \in Raising
    OBVIOUS
  <2>1. q \in Requests
    BY DEF Raising
  <2>2. ASSUME NEW b \in req[q].done, b \in Standing
        PROVE  b \in Standing'
    BY <1>6, <1>8, <2>1, <2>2 DEF Standing, ActiveAlerts
  <2> QED
    BY <1>1, <2>1, <2>2, RaisingStays
<1> QED
  BY <1>7, <1>9 DEF Lowers

\* A transaction that finds no active alert of the budget, but for those it has
\* resolved itself.
LEMMA FindSteps ==
    ASSUME AlertInv, NEW r \in Requests, CheckFind(r)
    PROVE  Clears \/ Lowers
<1> USE DEF AlertInv, Shape
<1>1. /\ UNCHANGED <<budget, alert, reopened>>
      /\ \A q \in Requests : q # r => req'[q] = req[q]
      /\ req'[r].done = req[r].done /\ req'[r].seen = req[r].seen
      /\ req'[r].pc = "checkCreate" => ActiveSeenBy(r, req[r].seen) = {}
  BY DEF CheckFind, Goto, TypeOK, RequestState, history
<1>2. Standing' = Standing
  BY <1>1 DEF Standing, ActiveAlerts
<1>3. CASE Standing = {}
  BY <1>2, <1>3 DEF Clears
<1>4. CASE Standing # {}
  <2>1. ASSUME r \in Raising'
        PROVE  FALSE
    <3>1. /\ ActiveSeenBy(r, req[r].seen) = {} /\ req[r].seen.id = budget.id
          /\ req[r].done \intersect Standing = {}
      BY <1>1, <1>2, <2>1 DEF Raising
    <3> PICK a \in Standing : TRUE
      BY <1>4
    <3>2. a \in Alerts /\ alert[a].status \in Active /\ a \in Present
      BY DEF Standing, ActiveAlerts, Present, Statuses
    <3>3. alert[a].budgetId = req[r].seen.id /\ a \notin req[r].done
      BY <3>1, <3>2 DEF AlertsOfCurrentBudget
    <3> QED
      BY <3>1, <3>2, <3>3 DEF ActiveSeenBy
  <2>2. Raising' \subseteq Raising
    <3> SUFFICES ASSUME NEW q \in Raising'
                 PROVE  q \in Raising
      OBVIOUS
    <3>1. q \in Requests /\ q # r
      BY <2>1 DEF Raising
    <3> QED
      BY <1>1, <1>2, <3>1, RaisingStays
  <2> QED
    BY <1>2, <2>2 DEF Lowers
<1> QED
  BY <1>3, <1>4

LEMMA RoomSteps ==
    ASSUME AlertInv, ResolvedOnce, [Next]_vars
    PROVE  Clears \/ Lowers \/ Raises \/ Replaces
<1>1. CASE UNCHANGED vars
  BY <1>1 DEF vars, history, Lowers, Standing, ActiveAlerts, Raising
<1>2. ASSUME NEW r \in Requests, Passes(r)
      PROVE  Lowers
  <2>1. Standing' = Standing /\ budget'.id = budget.id
    BY <1>2 DEF Passes, Standing, ActiveAlerts
  <2>2. ASSUME NEW q \in Raising'
        PROVE  q \in Raising
    <3>1. q \in Requests /\ q # r /\ req'[q] = req[q]
      BY <1>2 DEF Passes, Raising
    <3> QED
      BY <2>1, <3>1, RaisingStays DEF AlertInv
  <2> QED
    BY <2>1, <2>2 DEF Lowers
<1>3. ASSUME NEW r \in Requests, Commit(r)
      PROVE  Clears \/ Lowers
  <2>1. \/ Standing' \subseteq {}
        \/ /\ Standing' \subseteq (Standing \ req[r].done) \union {}
           /\ Raising' \subseteq Raising \ {r}
    <3>1. /\ req[r].pc \in {"commit", "checkCreate"} /\ budget' = BudgetSeenBy(r)
          /\ reopened' = reopened \ req[r].done
          /\ \A a \in Alerts \ {} : alert'[a] = AlertAfter(r, a)
          /\ req' = [req EXCEPT ![r] = Idle]
      BY <1>3 DEF Commit, CommitWith
    <3> DEFINE new == {}
    <3>2. new \in SUBSET (Alerts \ Present)
      OBVIOUS
    <3>3. \A a \in Alerts \ new : alert'[a] = AlertAfter(r, a)
      BY <3>1
    <3>4. \/ Standing' \subseteq new
          \/ /\ Standing' \subseteq (Standing \ req[r].done) \union new
             /\ Raising' \subseteq Raising \ {r}
      <4> HIDE DEF new
      <4> QED
        BY <3>1, <3>2, <3>3, CommitSteps
    <3> QED
      BY <3>4
  <2> QED
    BY <2>1 DEF Clears, Lowers
<1>4. ASSUME NEW r \in Requests, NEW new \in Alerts \ Present,
             req[r].pc = "checkCreate", budget.id = req[r].seen.id,
             budget' = BudgetSeenBy(r),
             reopened' = reopened \ req[r].done,
             \A a \in Alerts \ {new} : alert'[a] = AlertAfter(r, a),
             req' = [req EXCEPT ![r] = Idle]
      PROVE  Clears \/ Lowers \/ Raises \/ Replaces
  <2>1. req[r].plan # "delete" /\ Exists(budget)
    BY <1>4 DEF AlertInv, Shape, Placed, Exists
  <2>2. /\ Standing' \subseteq (Standing \ req[r].done) \union {new}
        /\ Raising' \subseteq Raising \ {r}
    <3> DEFINE added == {new}
    <3>1. added \in SUBSET (Alerts \ Present)
      OBVIOUS
    <3>2. \A a \in Alerts \ added : alert'[a] = AlertAfter(r, a)
      BY <1>4
    <3>3. /\ Standing' \subseteq (Standing \ req[r].done) \union added
          /\ Raising' \subseteq Raising \ {r}
      <4> HIDE DEF added
      <4> QED
        BY <1>4, <2>1, <3>1, <3>2, CommitSteps
    <3> QED
      BY <3>3
  <2>3. CASE r \in Raising
    BY <2>2, <2>3 DEF Raises
  <2>4. CASE r \notin Raising
    <3>1. req[r].done \intersect Standing # {}
      BY <1>4, <2>4 DEF Raising
    <3> QED
      BY <2>2, <3>1 DEF Replaces
  <2> QED
    BY <2>3, <2>4
<1>5. ASSUME NEW r \in Requests, Start(r) \/ Statement(r) \/ Abort(r) \/ BreakDeadlock(r)
      PROVE  Clears \/ Lowers \/ Raises \/ Replaces
  BY <1>2, <1>3, <1>4, <1>5, OtherSteps, FindSteps DEF AlertInv
<1> QED
  BY <1>1, <1>5, MarkSteps DEF Next

-----------------------------------------------------------------------------
\* There are never more active alerts, but for those a client has reopened, than
\* requests that can be served at the same time: whoever adds one found none, and
\* each request adds at most one before it looks again.
THEOREM AlertsAreBounded == Spec => []DuplicatesBounded
<1>1. Init => DuplicateInv
  <2> SUFFICES ASSUME Init
               PROVE  DuplicateInv
    OBVIOUS
  <2>1. Standing = {}
    BY DEF Init, NoAlert, Standing, ActiveAlerts, Active
  <2>2. Raising = {} /\ ResolvedOnce
    BY DEF Init, Idle, Raising, ResolvedOnce
  <2>3. Cardinality(Requests) \in Nat
    BY InputsAssumption, FS_CardinalityType
  <2> QED
    BY <2>1, <2>2, <2>3, FS_EmptySet DEF DuplicateInv, RoomForAll
<1>2. AlertInv /\ DuplicateInv /\ [Next]_vars => DuplicateInv'
  BY ResolvedOnceStays, RoomSteps, RoomStays DEF DuplicateInv
<1>3. DuplicateInv => DuplicatesBounded
  <2>1. IsFiniteSet(Standing) /\ IsFiniteSet(Raising) /\ IsFiniteSet(Requests)
    BY InputsAssumption, FS_Subset DEF Standing, ActiveAlerts, Raising
  <2>2. /\ Cardinality(Standing) \in Nat /\ Cardinality(Raising) \in Nat
        /\ Cardinality(Requests) \in Nat
    BY <2>1, FS_CardinalityType
  <2> QED
    BY <2>2 DEF DuplicateInv, RoomForAll, DuplicatesBounded, Standing
<1> QED
  BY <1>1, <1>2, <1>3, AlertInvariant, PTL DEF Spec

-----------------------------------------------------------------------------
(***************************************************************************)
(* The expenses, budgets and alerts of BudgetAlerts, and the transactions  *)
(* that write them, implement AlertLifecycle.  A step that commits maps to *)
(* one step of the life of the alerts; every other step is invisible.      *)
(***************************************************************************)

\* No budget has got the id of an earlier one, whose alerts it would inherit.
IdsInUse == /\ budget.id <= lastId
            /\ \A a \in Alerts : alert[a].budgetId <= lastId
            /\ \A r \in Requests : Writing(r) /\ req[r].plan = "upsert" =>
                                      req[r].budget.id <= lastId

NewIsNew == \A r \in Requests : Writing(r) /\ req[r].plan = "upsert" /\ ~Exists(budget) =>
               \A a \in Alerts : alert[a].budgetId # req[r].budget.id

FreshInv == IdsInUse /\ NewIsNew

-----------------------------------------------------------------------------
LEMMA FreshStep ==
    ASSUME AlertInv, FreshInv, [Next]_vars
    PROVE  FreshInv'
<1> USE DEF AlertInv, FreshInv
<1>0. /\ TypeOK /\ budget.id \in Nat /\ lastId \in Nat
      /\ \A a \in Alerts : alert[a] \in AlertRow /\ alert[a].budgetId \in Nat
      /\ \A r \in Requests : req[r].budget.id \in Nat
  BY DEF Shape, TypeOK, BudgetRow, AlertRow, RequestState
<1>1. CASE UNCHANGED vars
  BY <1>1 DEF vars, IdsInUse, NewIsNew, Writing
<1>2. CASE Marks
  <2>1. /\ UNCHANGED <<req, budget, lastId>>
        /\ \A a \in Alerts : alert'[a].budgetId = alert[a].budgetId
    BY <1>0, <1>2 DEF Marks, TypeOK, AlertRow, Present
  <2> QED
    BY <2>1 DEF IdsInUse, NewIsNew, Writing
<1>3. ASSUME NEW r \in Requests, Moved(r)
      PROVE  \A q \in Requests : q # r => /\ Writing(q)' <=> Writing(q)
                                          /\ req'[q] = req[q]
  BY <1>3 DEF Moved, Writing
<1>4. ASSUME NEW r \in Requests, Rests(r) \/ GoesOn(r) \/ Resolves(r)
      PROVE  FreshInv'
  <2>1. UNCHANGED rows /\ Moved(r)
    BY <1>4 DEF Rests, GoesOn, Resolves
  <2>2. Writing(r)' => /\ Writing(r)
                       /\ req'[r].plan = req[r].plan /\ req'[r].budget = req[r].budget
    BY <1>4 DEF Rests, GoesOn, Resolves, Writing
  <2> QED
    BY <1>3, <2>1, <2>2 DEF rows, IdsInUse, NewIsNew
<1>5. ASSUME NEW r \in Requests, Writes(r)
      PROVE  FreshInv'
  <2>1. /\ UNCHANGED <<budget, alert>> /\ Moved(r) /\ req'[r].plan = req[r].plan
        /\ req[r].plan = "upsert" /\ Exists(budget) => req'[r].budget.id = budget.id
    BY <1>5 DEF Writes
  <2>2. \A q \in Requests : q # r => ~Writing(q)
    BY <1>5, WriterIsAlone
  <2>3. CASE lastId' = lastId /\ (req[r].plan = "upsert" => Exists(budget))
    BY <1>3, <2>1, <2>2, <2>3 DEF IdsInUse, NewIsNew
  <2>4. CASE lastId' = lastId + 1 /\ req'[r].budget.id = lastId'
    <3>1. budget'.id <= lastId'
      BY <1>0, <2>1, <2>4 DEF IdsInUse
    <3>2. \A a \in Alerts : alert'[a].budgetId < lastId'
      BY <1>0, <2>1, <2>4 DEF IdsInUse
    <3>3. \A a \in Alerts : alert'[a].budgetId <= lastId'
      BY <1>0, <2>1, <2>4 DEF IdsInUse
    <3>4. \A q \in Requests : Writing(q)' => q = r
      BY <1>3, <2>1, <2>2
    <3>5. \A a \in Alerts : alert'[a].budgetId # req'[r].budget.id
      BY <1>0, <2>1, <2>4, <3>2
    <3>6. req'[r].budget.id <= lastId'
      BY <1>0, <2>4
    <3> QED
      BY <3>1, <3>3, <3>4, <3>5, <3>6 DEF IdsInUse, NewIsNew
  <2> QED
    BY <1>5, <2>3, <2>4 DEF Writes
<1>6. ASSUME NEW r \in Requests, Commits(r)
      PROVE  FreshInv'
  <2>1. /\ Moved(r) /\ ~Writing(r)' /\ UNCHANGED lastId /\ Past(req[r])
        /\ budget' = BudgetSeenBy(r)
    BY <1>6 DEF Commits, Writing
  <2>2. \A a \in Alerts : alert'[a].budgetId = alert[a].budgetId
    BY <1>6, CommittedAlerts DEF Commits
  <2>3. CASE req[r].plan = "keep"
    BY <1>3, <2>1, <2>2, <2>3 DEF BudgetSeenBy, IdsInUse, NewIsNew
  <2>4. CASE req[r].plan # "keep"
    <3>1. Writing(r) /\ budget' = req[r].budget
      BY <2>1, <2>4 DEF Shape, Placed, Writing, BudgetSeenBy
    <3>2. \A q \in Requests : ~Writing(q)'
      BY <1>3, <2>1, <3>1 DEF OneWriter
    <3>3. req[r].plan \in {"upsert", "delete"}
      BY <1>0, <2>4 DEF TypeOK, RequestState
    <3>4. budget'.id <= lastId
      <4>1. CASE req[r].plan = "upsert"
        BY <3>1, <4>1 DEF IdsInUse
      <4>2. CASE req[r].plan = "delete"
        BY <1>0, <3>1, <4>2 DEF Shape, Placed, NoBudget
      <4> QED
        BY <3>3, <4>1, <4>2
    <3> QED
      BY <2>1, <2>2, <3>2, <3>4 DEF IdsInUse, NewIsNew
  <2> QED
    BY <2>3, <2>4
<1>7. ASSUME NEW r \in Requests, Creates(r)
      PROVE  FreshInv'
  <2>1. Moved(r) /\ ~Writing(r)' /\ UNCHANGED <<budget, lastId>> /\ Exists(budget)
    BY <1>7 DEF Creates, Writing
  <2>2. \A a \in Alerts : alert'[a].budgetId \in {alert[a].budgetId, budget.id}
    BY <1>7, CommittedAlerts DEF Creates
  <2> QED
    BY <1>3, <2>1, <2>2 DEF IdsInUse, NewIsNew
<1> QED
  BY <1>1, <1>2, <1>4, <1>5, <1>6, <1>7, AlertSteps

LEMMA Fresh == Spec => []FreshInv
<1>1. Init => FreshInv
  <2> SUFFICES ASSUME Init
               PROVE  FreshInv
    OBVIOUS
  <2>1. budget.id <= lastId /\ lastId \in Nat
    BY DEF Init, NoBudget, CreatedBudget
  <2>2. \A a \in Alerts : alert[a].budgetId = 0
    BY DEF Init, NoAlert
  <2>3. \A r \in Requests : ~Writing(r)
    BY IdlePlaced DEF Init, Writing
  <2> QED
    BY <2>1, <2>2, <2>3 DEF FreshInv, IdsInUse, NewIsNew
<1> QED
  BY <1>1, FreshStep, AlertInvariant, PTL DEF Spec

-----------------------------------------------------------------------------
(* What a commit does to the life of the alerts. *)

status == [a \in Alerts |-> alert[a].status]
owner  == [a \in Alerts |-> alert[a].budgetId]

LEMMA StatusAfter ==
    ASSUME Shape, ResolvedStay, NEW r \in Requests, NEW a \in Alerts
    PROVE  AlertAfter(r, a).status =
              IF req[r].plan = "delete"
              THEN IF a \in Present THEN "gone" ELSE alert[a].status
              ELSE IF a \in req[r].done THEN "resolved" ELSE alert[a].status
<1>1. alert[a] \in AlertRow
  BY DEF Shape, TypeOK
<1> QED
  BY <1>1 DEF AlertAfter, AlertRow

LEMMA PresentIsShown == Lifecycle!Present = Present
BY DEF Lifecycle!Present, Lifecycle!Shown, Present, Statuses, Active

LEMMA CommitsFollowLifecycle ==
    ASSUME AlertInv, FreshInv, NEW r \in Requests, Commits(r)
    PROVE  [Lifecycle!Next]_(Lifecycle!vars)
<1> USE DEF AlertInv
<1>1. /\ Past(req[r]) /\ budget' = BudgetSeenBy(r)
      /\ alert' = [a \in Alerts |-> AlertAfter(r, a)]
  BY DEF Commits
<1>2. owner' = owner
  BY <1>1, CommittedAlerts DEF owner
<1>3. req[r].done \subseteq Lifecycle!Present
  BY PresentIsShown DEF ResolvedStay
<1>4. req[r].plan # "delete" =>
         status' = [a \in Alerts |-> IF a \in req[r].done THEN "resolved" ELSE status[a]]
  BY <1>1, StatusAfter DEF status
<1>5. /\ req[r].done \in SUBSET Alerts
      /\ req[r].plan \in {"keep", "upsert", "delete"}
      /\ req[r].budget.id \in Nat /\ budget.id \in Nat
  BY DEF Shape, TypeOK, RequestState, BudgetRow
<1>6. req[r].plan # "keep" => Writing(r) /\ budget' = req[r].budget
  BY <1>1 DEF Shape, Placed, Writing, BudgetSeenBy
<1>7. ASSUME req[r].plan # "delete", budget'.id = budget.id
      PROVE  Lifecycle!Next
  <2> PICK S \in SUBSET Alerts : S = req[r].done
    BY <1>5
  <2>1. Lifecycle!Resolve(S)
    BY <1>2, <1>3, <1>4, <1>7 DEF Lifecycle!Resolve, Lifecycle!Resolved, status, owner
  <2> QED
    BY <2>1 DEF Lifecycle!Next
<1>8. CASE req[r].plan = "keep"
  BY <1>1, <1>7, <1>8 DEF BudgetSeenBy
<1>9. CASE req[r].plan = "upsert" /\ Exists(budget)
  BY <1>6, <1>7, <1>9 DEF SameRow
\* A new budget: there is no alert, so the transaction has resolved none.
<1>10. CASE req[r].plan = "upsert" /\ ~Exists(budget)
  <2>1. Present = {} /\ req[r].done = {}
    BY <1>3, <1>10, PresentIsShown DEF AlertsOfCurrentBudget
  <2>2. status' = status
    BY <1>4, <1>10, <2>1 DEF status
  <2>3. budget'.id \in Nat \ {0}
    BY <1>1, <1>5, <1>6, <1>10 DEF Shape, Placed, Exists
  <2>4. \A a \in Alerts : owner[a] # budget'.id
    BY <1>6, <1>10 DEF FreshInv, NewIsNew, owner
  <2>5. Lifecycle!Open
    BY <1>2, <1>10, <2>2, <2>3, <2>4 DEF Lifecycle!Open, Exists, status, owner
  <2> QED
    BY <2>5 DEF Lifecycle!Next
<1>11. CASE req[r].plan = "delete"
  <2>1. budget'.id = 0
    BY <1>6, <1>11 DEF Shape, Placed, NoBudget
  <2>2. status' = [a \in Alerts |-> IF a \in Present THEN "gone" ELSE status[a]]
    BY <1>1, <1>11, StatusAfter DEF status
  <2>3. CASE Exists(budget)
    <3>1. Lifecycle!Close
      BY <1>2, <2>1, <2>2, <2>3, PresentIsShown DEF Lifecycle!Close, Exists, status, owner
    <3> QED
      BY <3>1 DEF Lifecycle!Next
  <2>4. CASE ~Exists(budget)
    <3>1. Present = {}
      BY <2>4 DEF AlertsOfCurrentBudget, Present
    <3>2. status' = status
      BY <2>2, <3>1 DEF status
    <3> QED
      BY <1>2, <2>1, <2>4, <3>2 DEF Lifecycle!vars, Exists, status, owner
  <2> QED
    BY <2>3, <2>4
<1> QED
  BY <1>5, <1>8, <1>9, <1>10, <1>11

LEMMA CreatesFollowsLifecycle ==
    ASSUME AlertInv, NEW r \in Requests, Creates(r)
    PROVE  Lifecycle!Next
<1> USE DEF AlertInv
<1> PICK new \in Alerts, threshold \in 0..100 :
       /\ alert[new].status = "free"
       /\ alert' = [a \in Alerts |->
             IF a = new THEN [status |-> "unread", budgetId |-> budget.id,
                              threshold |-> threshold]
             ELSE AlertAfter(r, a)]
  BY DEF Creates
<1>1. req[r].plan # "delete" /\ Exists(budget) /\ budget' = budget
  BY DEF Creates, Shape, Placed
<1>2. req[r].done \subseteq Present /\ req[r].done \in SUBSET Alerts
  BY DEF ResolvedStay, Shape, TypeOK, RequestState
<1>3. \A a \in Alerts \ {new} :
         /\ alert'[a].status = IF a \in req[r].done THEN "resolved" ELSE alert[a].status
         /\ alert'[a].budgetId = alert[a].budgetId
  BY <1>1, StatusAfter, CommittedAlerts
<1>4. alert'[new].status = "unread" /\ alert'[new].budgetId = budget.id
  OBVIOUS
<1>5. status' = [[a \in Alerts |-> IF a \in req[r].done THEN "resolved" ELSE status[a]]
                    EXCEPT ![new] = "unread"]
  BY <1>3, <1>4 DEF status
<1>6. owner' = [owner EXCEPT ![new] = budget.id]
  BY <1>3, <1>4 DEF owner
<1> PICK S \in SUBSET Alerts : S = req[r].done
  BY <1>2
<1>7. Lifecycle!Raise(new, S)
  BY <1>1, <1>2, <1>5, <1>6, PresentIsShown
     DEF Lifecycle!Raise, Lifecycle!Resolved, Exists, status, owner
<1> QED
  BY <1>7 DEF Lifecycle!Next

LEMMA MarksFollowsLifecycle ==
    ASSUME AlertInv, Marks
    PROVE  Lifecycle!Next
<1> PICK a \in Present, s \in Statuses : alert' = [alert EXCEPT ![a].status = s]
  BY DEF Marks
<1>1. \A b \in Alerts : /\ alert'[b].status = IF b = a THEN s ELSE alert[b].status
                        /\ alert'[b].budgetId = alert[b].budgetId
  BY DEF AlertInv, Shape, TypeOK, AlertRow, Present
<1>2. status' = [status EXCEPT ![a] = s] /\ owner' = owner
  BY <1>1 DEF status, owner
<1>3. a \in Lifecycle!Present /\ a \in Alerts /\ s \in Lifecycle!Shown
  BY PresentIsShown DEF Present, Lifecycle!Shown, Statuses, Active
<1>4. Lifecycle!Mark(a, s)
  BY <1>2, <1>3 DEF Marks, Lifecycle!Mark, status, owner
<1> QED
  BY <1>3, <1>4 DEF Lifecycle!Next

-----------------------------------------------------------------------------
(* The result. *)

\* However expenses, budgets and alerts are written at the same time, an alert is
\* raised once and for the budget there is, goes with it in one step and is never seen
\* again: BudgetAlerts implements AlertLifecycle.
THEOREM AlertsImplementLifecycle == Spec => ImplementsLifecycle
<1>1. Init => Lifecycle!Init
  <2> SUFFICES ASSUME Init
               PROVE  Lifecycle!Init
    OBVIOUS
  <2>1. budget.id \in Nat
    BY DEF Init, NoBudget, CreatedBudget
  <2>2. \A a \in Alerts : alert[a].status = "free" /\ alert[a].budgetId = 0
    BY DEF Init, NoAlert
  <2> QED
    BY <2>1, <2>2 DEF Lifecycle!Init
<1>2. AlertInv /\ FreshInv /\ [Next]_vars => [Lifecycle!Next]_(Lifecycle!vars)
  <2> SUFFICES ASSUME AlertInv, FreshInv, [Next]_vars
               PROVE  [Lifecycle!Next]_(Lifecycle!vars)
    OBVIOUS
  <2>1. Shape
    BY DEF AlertInv
  <2>2. CASE UNCHANGED <<budget, alert>>
    BY <2>2 DEF Lifecycle!vars
  <2>3. UNCHANGED vars => UNCHANGED <<budget, alert>>
    BY DEF vars
  <2>4. \A r \in Requests : Rests(r) \/ GoesOn(r) \/ Writes(r) \/ Resolves(r) =>
                               UNCHANGED <<budget, alert>>
    BY DEF Rests, GoesOn, Writes, Resolves, rows
  <2> QED
    BY <2>1, <2>2, <2>3, <2>4, AlertSteps, CommitsFollowLifecycle, CreatesFollowsLifecycle,
       MarksFollowsLifecycle
<1> QED
  BY <1>1, <1>2, AlertInvariant, Fresh, PTL DEF ImplementsLifecycle, Lifecycle!Spec, Spec

-----------------------------------------------------------------------------
(***************************************************************************)
(* The alerts follow the total of the expenses, for every set of expenses, *)
(* budgets, alerts and requests, as long as requests come one after the    *)
(* other: what a transaction has read of the tables is then still true of  *)
(* them when it commits.                                                   *)
(***************************************************************************)

\* The threshold as the transaction sees it, with its own writes.
SeenTotal(r) == Total(OpsSeenBy(r))
SeenOver(r)  == Exists(BudgetSeenBy(r)) /\ Reached(SeenTotal(r), BudgetSeenBy(r))
SeenUnder(r) == Exists(BudgetSeenBy(r)) /\ ~Reached(SeenTotal(r), BudgetSeenBy(r))

InTransit(r) == req[r].pc # "idle"

Alone == \A q, r \in Requests : InTransit(q) /\ InTransit(r) => q = r

\* What a request writes, and what it has read when it is at a statement.
Writ(r) == /\ req[r].kind # "none"
           /\ req[r].kind = "create" => ops[req[r].op] = 0
           /\ req[r].kind = "delete" => req[r].amount = 0
           /\ req[r].kind = "project" => req[r].op = None

HasRead(r) == req[r].pc \in {"resolveSum", "resolveFind", "resolveUpdate",
                             "checkSum", "checkFind", "checkCreate"} =>
                 Exists(req[r].seen) /\ req[r].seen = BudgetSeenBy(r)

HasSummed(r) == /\ req[r].pc \in {"resolveFind", "resolveUpdate"} => SeenUnder(r)
                /\ req[r].pc \in {"checkFind", "checkCreate"} => SeenOver(r)

HasFound(r) == /\ req[r].pc = "resolveUpdate" =>
                     ActiveAlerts \subseteq req[r].done \union req[r].todo \union {req[r].next}
               /\ req[r].pc = "checkCreate" => ActiveAlerts = {}

HasResolved(r) == /\ req[r].done # {} => SeenUnder(r)
                  /\ /\ req[r].pc \in {"checkBudget", "checkSum", "commit"}
                     /\ req[r].kind # "create"
                     /\ SeenUnder(r)
                     => ActiveAlerts \subseteq req[r].done

HasChecked(r) == /\ req[r].pc \in {"resolveBudget", "resolveSum", "resolveFind", "resolveUpdate"}
                    => req[r].kind # "create"
                 /\ /\ req[r].pc = "commit"
                    /\ req[r].kind \in {"create", "update"}
                    /\ SeenOver(r)
                    => ActiveAlerts # {}

Knows(r) == Writ(r) /\ HasRead(r) /\ HasSummed(r) /\ HasFound(r) /\ HasResolved(r) /\ HasChecked(r)

OneAtMost == Cardinality(ActiveAlerts \ reopened) <= 1

SerialInv == ~overlapped => /\ Alone
                            /\ OverIsAnnounced /\ ActiveIsJustified /\ OneAtMost
                            /\ \A r \in Requests : InTransit(r) => Knows(r)

-----------------------------------------------------------------------------
(* The totals. *)

LEMMA TotalType == ASSUME NEW f \in [Ops -> Nat] PROVE Total(f) \in Int
BY SumType, InputsAssumption DEF Total, Sum

LEMMA TotalMonotone ==
    ASSUME NEW f \in [Ops -> Nat], NEW g \in [Ops -> Nat], \A o \in Ops : f[o] <= g[o]
    PROVE  Total(f) <= Total(g)
BY SumMonotone, InputsAssumption DEF Total, Sum

LEMMA ReachedMonotone ==
    ASSUME NEW m \in Int, NEW n \in Int, NEW b \in BudgetRow, m <= n, Reached(m, b)
    PROVE  Reached(n, b)
<1>1. b.amount \in Nat /\ b.limitCriteria \in Nat
  BY DEF BudgetRow
<1>2. b.amount * b.limitCriteria \in Int
  BY <1>1
<1> QED
  BY <1>2 DEF Reached

\* Creating an expense raises the total, deleting one lowers it, and writing the
\* project leaves it.
LEMMA SeenTotals ==
    ASSUME TypeOK, NEW r \in Requests, Writ(r)
    PROVE  /\ Total(ops) \in Int /\ SeenTotal(r) \in Int
           /\ req[r].kind = "create" => Total(ops) <= SeenTotal(r)
           /\ req[r].kind = "delete" => SeenTotal(r) <= Total(ops)
           /\ req[r].kind = "project" => SeenTotal(r) = Total(ops)
<1> DEFINE seen == OpsSeenBy(r)
<1>1. req[r] \in RequestState /\ ops \in [Ops -> Nat]
  BY DEF TypeOK
<1>2. req[r].amount \in Nat
  BY <1>1 DEF RequestState
<1>3. seen \in [Ops -> Nat]
  BY <1>1, <1>2 DEF OpsSeenBy
<1>4. \A o \in Ops : seen[o] = IF o = req[r].op THEN req[r].amount ELSE ops[o]
  BY DEF OpsSeenBy
<1>5. req[r].kind = "create" => \A o \in Ops : ops[o] <= seen[o]
  BY <1>1, <1>2, <1>4 DEF Writ
<1>6. req[r].kind = "delete" => \A o \in Ops : seen[o] <= ops[o]
  BY <1>1, <1>2, <1>4 DEF Writ
<1>7. req[r].kind = "project" => seen = ops
  BY <1>1, <1>3, <1>4, InputsAssumption DEF Writ
<1>8. SeenTotal(r) = Total(seen)
  BY DEF SeenTotal
<1> HIDE DEF seen
<1> QED
  BY <1>1, <1>3, <1>5, <1>6, <1>7, <1>8, TotalType, TotalMonotone

-----------------------------------------------------------------------------
(* The steps of a transaction that leave the tables alone. *)

LEMMA QuietStep ==
    ASSUME SerialInv, ~overlapped, NEW r \in Requests, InTransit(r),
           UNCHANGED <<ops, budget, alert, history, overlapped>>,
           \A q \in Requests : q # r => req'[q] = req[q],
           InTransit(r)' => Knows(r)'
    PROVE  SerialInv'
<1>1. Alone /\ Alone'
  BY DEF SerialInv, Alone, InTransit
<1>2. \A q \in Requests : InTransit(q)' => Knows(q)'
  BY <1>1 DEF Alone, InTransit
<1>3. /\ OverIsAnnounced' = OverIsAnnounced
      /\ ActiveIsJustified' = ActiveIsJustified
      /\ OneAtMost' = OneAtMost
  BY DEF history, OverIsAnnounced, ActiveIsJustified, OneAtMost, ActiveAlerts, Over
<1> QED
  BY <1>1, <1>2, <1>3 DEF SerialInv

\* What the transaction writes stays what it was.
Keeps(r) == /\ UNCHANGED <<ops, budget, alert>>
            /\ req'[r].kind = req[r].kind /\ req'[r].op = req[r].op
            /\ req'[r].amount = req[r].amount /\ req'[r].plan = req[r].plan
            /\ req'[r].budget = req[r].budget

LEMMA SeenStays ==
    ASSUME NEW r \in Requests, Keeps(r)
    PROVE  /\ BudgetSeenBy(r)' = BudgetSeenBy(r)
           /\ SeenOver(r)' <=> SeenOver(r)
           /\ SeenUnder(r)' <=> SeenUnder(r)
           /\ ActiveAlerts' = ActiveAlerts
           /\ Writ(r)' <=> Writ(r)
<1>1. BudgetSeenBy(r)' = BudgetSeenBy(r)
  BY DEF Keeps, BudgetSeenBy
<1>2. OpsSeenBy(r)' = OpsSeenBy(r)
  BY DEF Keeps, OpsSeenBy
<1>3. SeenTotal(r)' = SeenTotal(r)
  BY <1>2 DEF SeenTotal
<1> QED
  BY <1>1, <1>3 DEF Keeps, SeenOver, SeenUnder, ActiveAlerts, Writ

\* The search by the budget that was read misses no active alert.
LEMMA SearchFindsAll ==
    ASSUME AlertInv, NEW r \in Requests, Past(req[r]), Exists(BudgetSeenBy(r))
    PROVE  ActiveAlerts \subseteq req[r].done \union ActiveSeenBy(r, BudgetSeenBy(r))
<1> SUFFICES ASSUME NEW a \in ActiveAlerts, a \notin req[r].done
             PROVE  a \in ActiveSeenBy(r, BudgetSeenBy(r))
  OBVIOUS
<1>1. a \in Alerts /\ alert[a].status \in Active /\ a \in Present
  BY DEF ActiveAlerts, Present, Statuses
<1>2. Exists(budget) /\ alert[a].budgetId = budget.id
  BY <1>1 DEF AlertInv, AlertsOfCurrentBudget
<1>3. BudgetSeenBy(r).id = budget.id
  <2>1. CASE req[r].kind = "project" /\ req[r].plan # "keep"
    <3>1. BudgetSeenBy(r) = req[r].budget /\ Writing(r)
      BY <2>1 DEF BudgetSeenBy, Writing
    <3>2. req[r].plan # "delete"
      BY <3>1 DEF AlertInv, Shape, Placed, Exists, NoBudget
    <3>3. req[r].plan = "upsert"
      BY <2>1, <3>2 DEF AlertInv, Shape, TypeOK, RequestState
    <3> QED
      BY <1>2, <3>1, <3>3 DEF AlertInv, SameRow
  <2>2. CASE ~(req[r].kind = "project" /\ req[r].plan # "keep")
    BY <2>2 DEF BudgetSeenBy
  <2> QED
    BY <2>1, <2>2
<1> QED
  BY <1>1, <1>2, <1>3 DEF ActiveSeenBy

LEMMA QuietStatements ==
    ASSUME AlertInv, NEW r \in Requests, InTransit(r) => Knows(r),
           \/ WriteOperation(r) \/ WriteProject(r)
           \/ ResolveBudget(r) \/ ResolveSum(r) \/ ResolveFind(r) \/ ResolveUpdate(r)
           \/ CheckBudget(r) \/ CheckSum(r) \/ CheckFind(r)
    PROVE  InTransit(r) /\ (InTransit(r)' => Knows(r)')
<1>0. /\ req \in [Requests -> RequestState] /\ req[r] \in RequestState
      /\ Placed(req[r]) /\ r \in DOMAIN req
  BY DEF AlertInv, Shape, TypeOK
<1>t. InTransit(r)
  BY DEF InTransit, WriteOperation, WriteProject, ResolveBudget, ResolveSum, ResolveFind,
         ResolveUpdate, CheckBudget, CheckSum, CheckFind
<1>k. Knows(r)
  BY <1>t
<1>b. RollBack(r) => ~InTransit(r)'
  BY <1>0 DEF RollBack, Idle, InTransit
<1>a. AfterResolve(r) = IF req[r].kind = "update" THEN "checkBudget" ELSE "commit"
  BY DEF AfterResolve
\* Another statement, with the same writes.
<1>g. ASSUME NEW pc, Goto(r, pc), UNCHANGED <<ops, budget, alert>>
      PROVE  /\ Keeps(r) /\ req'[r].pc = pc /\ req'[r].seen = req[r].seen
             /\ req'[r].todo = req[r].todo /\ req'[r].next = req[r].next
             /\ req'[r].done = req[r].done
  BY <1>0, <1>g DEF Goto, Keeps, RequestState
<1>1. CASE WriteOperation(r)
  <2>1. ASSUME NEW pc \in {"checkBudget", "resolveBudget"}, Goto(r, pc),
               pc = "checkBudget" <=> req[r].kind = "create"
        PROVE  Knows(r)'
    <3>1. /\ Keeps(r) /\ req'[r].pc = pc /\ req'[r].done = {}
      BY <1>0, <1>1, <1>g, <2>1 DEF WriteOperation, Placed, Past
    <3> QED
      BY <1>k, <2>1, <3>1, SeenStays
         DEF Keeps, Knows, HasRead, HasSummed, HasFound, HasResolved, HasChecked
  <2> QED
    BY <1>1, <1>b, <1>t, <2>1 DEF WriteOperation
<1>2. CASE WriteProject(r)
  <2>1. CASE RollBack(r)
    BY <1>b, <1>t, <2>1
  <2>2. CASE ~RollBack(r)
    <3>1. /\ req'[r].pc = "resolveBudget" /\ req'[r].done = {}
          /\ req'[r].kind = "project" /\ req'[r].op = req[r].op
      BY <1>0, <1>2, <2>2 DEF WriteProject, Goto, Placed, Past, RequestState
    <3> QED
      BY <1>2, <1>k, <1>t, <3>1
         DEF WriteProject, Knows, Writ, HasRead, HasSummed, HasFound, HasResolved, HasChecked
  <2> QED
    BY <2>1, <2>2
<1>3. CASE ResolveBudget(r) \/ CheckBudget(r)
  <2> DEFINE seen == BudgetSeenBy(r)
  <2>0. ASSUME NEW pc, req' = [req EXCEPT ![r].pc = pc, ![r].seen = seen],
               UNCHANGED <<ops, budget, alert>>
        PROVE  /\ Keeps(r) /\ req'[r].seen = seen /\ req'[r].done = req[r].done
               /\ req'[r].pc = pc
    <3> HIDE DEF seen
    <3> QED
      BY <1>0, <2>0 DEF Keeps, RequestState
  <2>1. /\ Keeps(r) /\ req'[r].seen = seen /\ req'[r].done = req[r].done
        /\ ResolveBudget(r) => req'[r].pc = IF Exists(seen) THEN "resolveSum"
                                            ELSE AfterResolve(r)
        /\ CheckBudget(r) => req'[r].pc = IF Exists(seen) THEN "checkSum" ELSE "commit"
    <3> HIDE DEF seen
    <3>1. CASE ResolveBudget(r)
      <4>1. ~CheckBudget(r)
        BY <3>1 DEF ResolveBudget, CheckBudget
      <4> QED
        BY <2>0, <3>1, <4>1 DEF ResolveBudget, seen
    <3>2. CASE CheckBudget(r)
      <4>1. ~ResolveBudget(r)
        BY <3>2 DEF ResolveBudget, CheckBudget
      <4> QED
        BY <2>0, <3>2, <4>1 DEF CheckBudget, seen
    <3> QED
      BY <1>3, <3>1, <3>2
  <2>2. ~Exists(BudgetSeenBy(r)) => ~SeenUnder(r) /\ ~SeenOver(r)
    BY DEF SeenUnder, SeenOver
  <2>3. req[r].pc = "resolveBudget" \/ req[r].pc = "checkBudget"
    BY <1>3 DEF ResolveBudget, CheckBudget
  <2>4. ResolveBudget(r) => req[r].pc = "resolveBudget"
    BY DEF ResolveBudget
  <2>5. CheckBudget(r) => req[r].pc = "checkBudget"
    BY DEF CheckBudget
  <2>6. Writ(r)' /\ HasRead(r)' /\ HasSummed(r)' /\ HasFound(r)'
    BY <1>3, <1>k, <1>a, <2>1, SeenStays DEF Knows, HasRead, HasSummed, HasFound
  <2>7. HasResolved(r)' /\ HasChecked(r)'
    BY <1>3, <1>k, <1>a, <2>1, <2>2, <2>4, <2>5, SeenStays
       DEF Keeps, Knows, HasResolved, HasChecked
  <2> QED
    BY <1>t, <2>6, <2>7 DEF Knows
<1>4. CASE ResolveSum(r)
  <2>1. /\ Keeps(r) /\ req'[r].done = req[r].done /\ req'[r].seen = req[r].seen
        /\ req'[r].pc = IF Reached(SeenTotal(r), req[r].seen) THEN AfterResolve(r)
                        ELSE "resolveFind"
    BY <1>4, <1>g DEF ResolveSum, SeenTotal
  <2>2. Exists(req[r].seen) /\ req[r].seen = BudgetSeenBy(r)
    BY <1>4, <1>k DEF ResolveSum, Knows, HasRead
  <2>3. SeenOver(r) <=> Reached(SeenTotal(r), req[r].seen)
    BY <2>2 DEF SeenOver
  <2>4. SeenUnder(r) <=> ~Reached(SeenTotal(r), req[r].seen)
    BY <2>2 DEF SeenUnder
  <2>5. Writ(r)' /\ HasRead(r)' /\ HasSummed(r)' /\ HasFound(r)'
    BY <1>k, <1>a, <2>1, <2>2, <2>3, <2>4, SeenStays DEF Knows, HasRead, HasSummed, HasFound
  <2>6. HasResolved(r)' /\ HasChecked(r)'
    BY <1>4, <1>k, <1>a, <2>1, <2>3, <2>4, SeenStays DEF ResolveSum, Keeps, Knows, HasResolved, HasChecked
  <2> QED
    BY <1>t, <2>5, <2>6 DEF Knows
<1>5. CASE ResolveFind(r)
  <2> DEFINE found == ActiveSeenBy(r, req[r].seen)
  <2>1. SeenUnder(r) /\ ~SeenOver(r) /\ req[r].seen = BudgetSeenBy(r) /\ Exists(req[r].seen)
    BY <1>5, <1>k DEF ResolveFind, Knows, HasRead, HasSummed, SeenUnder, SeenOver
  <2>2. ActiveAlerts \subseteq req[r].done \union found
    BY <1>5, <2>1, SearchFindsAll DEF ResolveFind, Past
  <2>3. CASE found = {} /\ Goto(r, AfterResolve(r))
    <3>1. Keeps(r) /\ req'[r].pc = AfterResolve(r) /\ req'[r].done = req[r].done
      BY <1>5, <1>g, <2>3 DEF ResolveFind
    <3> QED
      BY <1>k, <1>a, <1>t, <2>1, <2>2, <2>3, <3>1, SeenStays
         DEF Keeps, Knows, HasRead, HasSummed, HasFound, HasResolved, HasChecked
  <2>4. ASSUME NEW a \in found,
               req' = [req EXCEPT ![r].pc = "resolveUpdate", ![r].next = a,
                                  ![r].todo = found \ {a}]
        PROVE  Knows(r)'
    <3>1. /\ Keeps(r) /\ req'[r].pc = "resolveUpdate" /\ req'[r].done = req[r].done
          /\ req'[r].seen = req[r].seen /\ req'[r].next = a /\ req'[r].todo = found \ {a}
          /\ req[r].pc = "resolveFind"
      BY <1>0, <1>5, <2>4 DEF ResolveFind, Keeps, RequestState
    <3>2. ActiveAlerts \subseteq req'[r].done \union req'[r].todo \union {req'[r].next}
      BY <2>2, <3>1
    <3> HIDE DEF found
    <3> QED
      BY <1>k, <2>1, <3>1, <3>2, SeenStays
         DEF Keeps, Knows, HasRead, HasSummed, HasFound, HasResolved, HasChecked
  <2> QED
    BY <1>5, <1>t, <2>3, <2>4 DEF ResolveFind
<1>6. CASE ResolveUpdate(r)
  <2>1. SeenUnder(r) /\ ~SeenOver(r) /\ req[r].seen = BudgetSeenBy(r) /\ Exists(req[r].seen)
    BY <1>6, <1>k DEF ResolveUpdate, Knows, HasRead, HasSummed, SeenUnder, SeenOver
  <2>2. ActiveAlerts \subseteq req[r].done \union req[r].todo \union {req[r].next}
    BY <1>6, <1>k DEF ResolveUpdate, Knows, HasFound
  <2>3. CASE /\ req[r].todo = {}
            /\ req' = [req EXCEPT ![r].pc = AfterResolve(r), ![r].next = None,
                                  ![r].done = @ \union {req[r].next}]
    <3>1. /\ Keeps(r) /\ req'[r].pc = AfterResolve(r)
          /\ req'[r].done = req[r].done \union {req[r].next}
      BY <1>0, <1>6, <2>3 DEF ResolveUpdate, Keeps, RequestState
    <3>2. ActiveAlerts \subseteq req'[r].done
      BY <2>2, <2>3, <3>1
    <3> QED
      BY <1>k, <1>a, <1>t, <2>1, <3>1, <3>2, SeenStays
         DEF Keeps, Knows, HasRead, HasSummed, HasFound, HasResolved, HasChecked
  <2>4. ASSUME NEW a \in req[r].todo,
               req' = [req EXCEPT ![r].next = a, ![r].todo = @ \ {a},
                                  ![r].done = @ \union {req[r].next}]
        PROVE  Knows(r)'
    <3>1. /\ Keeps(r) /\ req'[r].pc = "resolveUpdate" /\ req'[r].seen = req[r].seen
          /\ req'[r].done = req[r].done \union {req[r].next}
          /\ req'[r].next = a /\ req'[r].todo = req[r].todo \ {a}
          /\ req[r].pc = "resolveUpdate"
      BY <1>0, <1>6, <2>4 DEF ResolveUpdate, Keeps, RequestState
    <3>2. ActiveAlerts \subseteq req'[r].done \union req'[r].todo \union {req'[r].next}
      BY <2>2, <2>4, <3>1
    <3> QED
      BY <1>k, <2>1, <3>1, <3>2, SeenStays
         DEF Keeps, Knows, HasRead, HasSummed, HasFound, HasResolved, HasChecked
  <2> QED
    BY <1>6, <1>b, <1>t, <2>3, <2>4 DEF ResolveUpdate
<1>7. CASE CheckSum(r) \/ CheckFind(r)
  <2>1. Exists(req[r].seen) /\ req[r].seen = BudgetSeenBy(r)
    BY <1>7, <1>k DEF CheckSum, CheckFind, Knows, HasRead
  <2>2. SeenOver(r) <=> Reached(SeenTotal(r), req[r].seen)
    BY <2>1 DEF SeenOver
  <2>3. SeenUnder(r) <=> ~Reached(SeenTotal(r), req[r].seen)
    BY <2>1 DEF SeenUnder
  <2>4. CASE CheckSum(r)
    <3>1. /\ Keeps(r) /\ req'[r].done = req[r].done /\ req'[r].seen = req[r].seen
          /\ req'[r].pc = IF Reached(SeenTotal(r), req[r].seen) THEN "checkFind" ELSE "commit"
          /\ req[r].pc = "checkSum"
      BY <2>4, <1>g DEF CheckSum, SeenTotal
    <3> QED
      BY <1>k, <1>t, <2>1, <2>2, <2>3, <3>1, SeenStays
         DEF Keeps, Knows, HasRead, HasSummed, HasFound, HasResolved, HasChecked
  <2>5. CASE CheckFind(r)
    <3> DEFINE found == ActiveSeenBy(r, req[r].seen)
    <3>1. /\ Keeps(r) /\ req'[r].done = req[r].done /\ req'[r].seen = req[r].seen
          /\ req'[r].pc = IF found = {} THEN "checkCreate" ELSE "commit"
          /\ req[r].pc = "checkFind"
      BY <2>5, <1>g DEF CheckFind
    <3>2. SeenOver(r) /\ ~SeenUnder(r)
      BY <1>k, <2>2, <2>3, <3>1 DEF Knows, HasSummed
    <3>3. req[r].done = {}
      BY <1>k, <3>2 DEF Knows, HasResolved
    <3>4. ActiveAlerts = found
      <4>1. ActiveAlerts \subseteq found
        BY <2>1, <3>1, <3>3, SearchFindsAll DEF Past
      <4> QED
        BY <4>1 DEF ActiveSeenBy, ActiveAlerts
    <3> HIDE DEF found
    <3> QED
      BY <1>k, <1>t, <2>1, <3>1, <3>2, <3>3, <3>4, SeenStays
         DEF Keeps, Knows, HasRead, HasSummed, HasFound, HasResolved, HasChecked
  <2> QED
    BY <1>7, <2>4, <2>5
<1> QED
  BY <1>1, <1>2, <1>3, <1>4, <1>5, <1>6, <1>7

-----------------------------------------------------------------------------
(* Arrivals. *)

LEMMA Arrivals ==
    ASSUME TypeOK, SerialInv, NEW r \in Requests, Start(r), ~overlapped'
    PROVE  SerialInv'
<1>0. req \in [Requests -> RequestState]
  BY DEF TypeOK
<1>1. ASSUME NEW s, Arrive(r, s), s.done = {}, s.kind # "none",
             s.kind = "create" => ops[s.op] = 0,
             s.kind = "delete" => s.amount = 0,
             s.kind = "project" => s.op = None,
             s \in RequestState
      PROVE  SerialInv'
  <2>1. InFlight = {} /\ ~overlapped
    BY <1>0, <1>1 DEF Arrive, TypeOK
  <2>2. \A q \in Requests : ~InTransit(q)
    BY <2>1 DEF InFlight, InTransit
  <2>3. /\ \A q \in Requests : q # r => req'[q] = req[q]
        /\ UNCHANGED <<ops, budget, alert, reopened, silenced>>
    BY <1>0, <1>1 DEF Arrive, history
  <2>4. /\ req'[r].pc = "write" /\ req'[r].kind = s.kind /\ req'[r].op = s.op
        /\ req'[r].amount = s.amount /\ req'[r].done = {}
    BY <1>0, <1>1 DEF Arrive, RequestState
  <2>5. Knows(r)'
    BY <1>1, <2>3, <2>4 DEF Knows, Writ, HasRead, HasSummed, HasFound, HasResolved, HasChecked
  <2>6. \A q \in Requests : InTransit(q)' => q = r
    BY <2>2, <2>3 DEF InTransit
  <2>7. (OverIsAnnounced /\ ActiveIsJustified /\ OneAtMost)'
    BY <2>1, <2>3 DEF SerialInv, OverIsAnnounced, ActiveIsJustified, OneAtMost, ActiveAlerts,
                      Over
  <2> QED
    BY <2>5, <2>6, <2>7 DEF SerialInv, Alone
<1>2. ASSUME NEW kind \in {"create", "update"}, NEW o \in Ops, NEW n \in Nat,
             kind = "create" => ops[o] = 0,
             Arrive(r, [Idle EXCEPT !.kind = kind, !.op = o, !.amount = n])
      PROVE  SerialInv'
  <2> DEFINE s == [Idle EXCEPT !.kind = kind, !.op = o, !.amount = n]
  <2>1. /\ s \in RequestState /\ s.kind = kind /\ s.op = o /\ s.done = {}
    BY IdlePlaced DEF Idle, RequestState
  <2> HIDE DEF s
  <2> QED
    BY <1>1, <1>2, <2>1 DEF s
<1>3. CASE StartCreate(r) \/ StartUpdate(r)
  <2> PICK kind \in {"create", "update"}, o \in Ops, n \in Amounts :
         /\ kind = "create" => ops[o] = 0
         /\ Arrive(r, [Idle EXCEPT !.kind = kind, !.op = o, !.amount = n])
    BY <1>3 DEF StartCreate, StartUpdate
  <2> QED
    BY <1>2, InputsAssumption
<1>4. CASE StartDelete(r)
  <2> PICK o \in Ops : Arrive(r, [Idle EXCEPT !.kind = "delete", !.op = o])
    BY <1>4 DEF StartDelete
  <2> DEFINE s == [Idle EXCEPT !.kind = "delete", !.op = o]
  <2>1. s \in RequestState /\ s.kind = "delete" /\ s.amount = 0 /\ s.done = {}
    BY IdlePlaced DEF Idle, RequestState
  <2> HIDE DEF s
  <2> QED
    BY <1>1, <2>1 DEF s
<1>5. CASE StartProject(r)
  <2>1. ASSUME NEW b \in BudgetInputs,
               Arrive(r, [Idle EXCEPT !.kind = "project", !.plan = "upsert",
                                      !.budget = [id |-> 0, amount |-> b.amount,
                                                  limitCriteria |-> b.limitCriteria]])
        PROVE  SerialInv'
    <3> DEFINE row == [id |-> 0, amount |-> b.amount, limitCriteria |-> b.limitCriteria]
               s   == [Idle EXCEPT !.kind = "project", !.plan = "upsert", !.budget = row]
    <3>1. row \in BudgetRow
      BY InputsAssumption DEF BudgetRow
    <3>2. s \in RequestState /\ s.kind = "project" /\ s.op = None /\ s.done = {}
      BY <3>1, IdlePlaced DEF Idle, RequestState
    <3> HIDE DEF s
    <3> QED
      BY <1>1, <2>1, <3>2 DEF s
  <2>2. CASE Arrive(r, [Idle EXCEPT !.kind = "project", !.plan = "delete"])
    <3> DEFINE s == [Idle EXCEPT !.kind = "project", !.plan = "delete"]
    <3>1. s \in RequestState /\ s.kind = "project" /\ s.op = None /\ s.done = {}
      BY IdlePlaced DEF Idle, RequestState
    <3> HIDE DEF s
    <3> QED
      BY <1>1, <2>2, <3>1 DEF s
  <2>3. CASE Arrive(r, [Idle EXCEPT !.kind = "project"])
    <3> DEFINE s == [Idle EXCEPT !.kind = "project"]
    <3>1. s \in RequestState /\ s.kind = "project" /\ s.op = None /\ s.done = {}
      BY IdlePlaced DEF Idle, RequestState
    <3> HIDE DEF s
    <3> QED
      BY <1>1, <2>3, <3>1 DEF s
  <2> QED
    BY <1>5, <2>1, <2>2, <2>3 DEF StartProject
<1> QED
  BY <1>3, <1>4, <1>5 DEF Start

-----------------------------------------------------------------------------
(* Commits. *)

LEMMA FewerActive ==
    ASSUME OneAtMost, TypeOK, ActiveAlerts' \ reopened' \subseteq ActiveAlerts \ reopened
    PROVE  OneAtMost'
<1> DEFINE S == ActiveAlerts \ reopened
           T == ActiveAlerts' \ reopened'
<1>1. IsFiniteSet(S) /\ T \in SUBSET S
  BY InputsAssumption, FS_Subset DEF ActiveAlerts
<1>2. Cardinality(S) \in Nat /\ IsFiniteSet(T) /\ Cardinality(T) <= Cardinality(S)
  BY <1>1, FS_CardinalityType, FS_Subset
<1>3. Cardinality(T) \in Nat
  BY <1>2, FS_CardinalityType
<1> QED
  BY <1>2, <1>3 DEF OneAtMost

LEMMA CommittedTables ==
    ASSUME AlertInv, SerialInv, NEW r \in Requests, InTransit(r), NEW a, CommitWith(r, a),
           ~overlapped'
    PROVE  /\ Knows(r) /\ Placed(req[r]) /\ OverIsAnnounced /\ ActiveIsJustified /\ OneAtMost
           /\ \A q \in Requests : ~InTransit(q)'
           /\ Over' <=> SeenOver(r)
           /\ reopened' = reopened \ req[r].done
<1>0. ~overlapped /\ TypeOK /\ req \in [Requests -> RequestState] /\ Placed(req[r])
  BY DEF CommitWith, AlertInv, Shape, TypeOK
<1>1. Knows(r) /\ Alone
  BY <1>0 DEF SerialInv
<1>2. \A q \in Requests : ~InTransit(q)'
  BY <1>0, <1>1 DEF Alone, InTransit, CommitWith, Idle
<1>3. Over' <=> SeenOver(r)
  BY DEF CommitWith, Over, SeenOver, SeenTotal
<1> QED
  BY <1>0, <1>1, <1>2, <1>3 DEF SerialInv, CommitWith

LEMMA CommitStep ==
    ASSUME AlertInv, SerialInv, NEW r \in Requests, Commit(r), ~overlapped'
    PROVE  SerialInv'
<1> DEFINE table == [a \in Alerts |-> AlertAfter(r, a)]
<1>0. /\ TypeOK /\ req[r] \in RequestState
      /\ req[r].pc = "commit" /\ InTransit(r) /\ Past(req[r])
      /\ CommitWith(r, table) /\ alert' = table
  BY DEF AlertInv, Shape, TypeOK, Commit, CommitWith, InTransit, Past
<1>1. /\ Knows(r) /\ Placed(req[r]) /\ OverIsAnnounced /\ ActiveIsJustified /\ OneAtMost
      /\ \A q \in Requests : ~InTransit(q)'
      /\ Over' <=> SeenOver(r)
      /\ reopened' = reopened \ req[r].done
  BY <1>0, CommittedTables
<1>2. ActiveAlerts' = IF req[r].plan = "delete" THEN {} ELSE ActiveAlerts \ req[r].done
  <2>1. ASSUME NEW a \in Alerts
        PROVE  AlertAfter(r, a).status \in Active
                 <=> req[r].plan # "delete" /\ a \in ActiveAlerts \ req[r].done
    <3>1. alert[a] \in AlertRow /\ (alert[a].status \in Active => a \in Present)
      BY <1>0 DEF TypeOK, Present, Statuses
    <3> QED
      BY <3>1 DEF AlertAfter, AlertRow, ActiveAlerts, Active
  <2> QED
    BY <1>0, <2>1 DEF ActiveAlerts
<1>3. /\ req[r].plan # "keep" => req[r].kind = "project"
      /\ req[r].plan \in {"keep", "upsert", "delete"}
      /\ req[r].kind \in {"create", "update", "delete", "project"}
  BY <1>0, <1>1 DEF Placed, RequestState, Knows, Writ
<1>4. SeenOver(r) => req[r].done = {}
  BY <1>1 DEF Knows, HasResolved, SeenOver, SeenUnder
<1>5. req[r].plan = "keep" => BudgetSeenBy(r) = budget
  BY DEF BudgetSeenBy
<1>6. budget \in BudgetRow /\ SeenTotal(r) \in Int /\ Total(ops) \in Int
  BY <1>0, <1>1, SeenTotals DEF TypeOK, Knows
<1>7. req[r].plan = "keep" /\ req[r].kind \in {"delete", "project"} /\ SeenOver(r) => Over
  <2> SUFFICES ASSUME req[r].plan = "keep", req[r].kind \in {"delete", "project"}, SeenOver(r)
               PROVE  Over
    OBVIOUS
  <2>1. SeenTotal(r) <= Total(ops)
    BY <1>0, <1>1, <1>6, SeenTotals DEF Knows
  <2> QED
    BY <1>5, <1>6, <2>1, ReachedMonotone DEF Over, SeenOver
<1>8. req[r].kind = "create" /\ Over => SeenOver(r)
  <2> SUFFICES ASSUME req[r].kind = "create", Over
               PROVE  SeenOver(r)
    OBVIOUS
  <2>1. Total(ops) <= SeenTotal(r) /\ req[r].plan = "keep"
    BY <1>0, <1>1, <1>3, SeenTotals DEF Knows
  <2> QED
    BY <1>5, <1>6, <2>1, ReachedMonotone DEF Over, SeenOver
<1>9. OverIsAnnounced'
  <2> SUFFICES ASSUME SeenOver(r)
               PROVE  ActiveAlerts' # {} \/ silenced'
    BY <1>1 DEF OverIsAnnounced
  <2>1. CASE req[r].plan # "keep"
    BY <1>0, <1>3, <2>1 DEF CommitWith
  <2>2. CASE req[r].plan = "keep" /\ req[r].kind \in {"create", "update"}
    BY <1>0, <1>1, <1>2, <1>4, <2>2 DEF Knows, HasChecked
  <2>3. CASE req[r].plan = "keep" /\ req[r].kind \in {"delete", "project"}
    <3>1. silenced' = silenced
      BY <1>0, <2>3 DEF CommitWith
    <3> QED
      BY <1>1, <1>2, <1>4, <1>7, <2>3, <3>1 DEF OverIsAnnounced
  <2> QED
    BY <1>3, <2>1, <2>2, <2>3
<1>10. ActiveAlerts' \ reopened' \subseteq ActiveAlerts \ reopened
  BY <1>1, <1>2
<1>11. ActiveIsJustified'
  <2> SUFFICES ASSUME ~SeenOver(r)
               PROVE  ActiveAlerts' \ reopened' = {}
    BY <1>1 DEF ActiveIsJustified
  <2>1. CASE req[r].kind = "create"
    BY <1>1, <1>8, <1>10, <2>1 DEF ActiveIsJustified
  <2>2. CASE req[r].kind # "create" /\ SeenUnder(r)
    BY <1>0, <1>1, <1>2, <2>2 DEF Knows, HasResolved
  <2>3. CASE ~SeenUnder(r)
    <3>1. ~Exists(BudgetSeenBy(r))
      BY <2>3 DEF SeenUnder, SeenOver
    <3>2. CASE req[r].plan = "delete"
      BY <1>2, <3>2
    <3>3. CASE req[r].plan = "keep"
      <4>1. ActiveAlerts = {}
        BY <1>5, <3>1, <3>3 DEF AlertInv, AlertsOfCurrentBudget, ActiveAlerts, Present, Statuses
      <4> QED
        BY <1>2, <4>1
    <3>4. CASE req[r].plan = "upsert"
      BY <1>0, <1>1, <1>3, <3>1, <3>4 DEF Placed, BudgetSeenBy
    <3> QED
      BY <1>3, <3>2, <3>3, <3>4
  <2> QED
    BY <2>1, <2>2, <2>3
<1>12. OneAtMost'
  BY <1>0, <1>1, <1>10, FewerActive
<1> QED
  BY <1>1, <1>9, <1>11, <1>12 DEF SerialInv, Alone

LEMMA CreateStep ==
    ASSUME AlertInv, SerialInv, NEW r \in Requests, req[r].pc = "checkCreate", ~overlapped',
           NEW new \in Alerts,
           CommitWith(r, [a \in Alerts |->
                IF a = new THEN [status |-> "unread", budgetId |-> req[r].seen.id,
                                 threshold |-> req[r].seen.limitCriteria]
                ELSE AlertAfter(r, a)])
    PROVE  SerialInv'
<1> DEFINE table == [a \in Alerts |->
                IF a = new THEN [status |-> "unread", budgetId |-> req[r].seen.id,
                                 threshold |-> req[r].seen.limitCriteria]
                ELSE AlertAfter(r, a)]
<1>0. TypeOK /\ InTransit(r) /\ alert' = table
  BY DEF AlertInv, Shape, CommitWith, InTransit
<1>1. /\ Knows(r) /\ Placed(req[r])
      /\ \A q \in Requests : ~InTransit(q)'
      /\ Over' <=> SeenOver(r)
  <2> HIDE DEF table
  <2> QED
    BY <1>0, CommittedTables DEF table
<1>2. SeenOver(r) /\ ActiveAlerts = {}
  BY <1>1 DEF Knows, HasSummed, HasFound
<1>3. req[r].done = {} /\ req[r].plan # "delete"
  BY <1>1, <1>2 DEF Knows, HasResolved, SeenOver, SeenUnder, Placed
<1>4. ActiveAlerts' = {new}
  <2>1. \A a \in Alerts : AlertAfter(r, a) = alert[a] /\ alert[a].status \notin Active
    BY <1>2, <1>3 DEF AlertAfter, ActiveAlerts
  <2> QED
    BY <1>0, <2>1 DEF ActiveAlerts, Active
<1>5. OneAtMost'
  <2>1. ActiveAlerts' \ reopened' = {} \/ ActiveAlerts' \ reopened' = {new}
    BY <1>4
  <2>2. Cardinality({}) = 0 /\ Cardinality({new}) = 1
    BY FS_EmptySet, FS_Singleton
  <2> QED
    BY <2>1, <2>2 DEF OneAtMost
<1> QED
  BY <1>1, <1>2, <1>4, <1>5 DEF SerialInv, Alone, OverIsAnnounced, ActiveIsJustified

LEMMA MarkStep ==
    ASSUME TypeOK, SerialInv, NEW r \in Requests, NEW a \in Alerts, NEW s \in StatusInputs,
           MarkAlert(r, a, s), ~overlapped'
    PROVE  SerialInv'
<1>0. /\ ~overlapped /\ InFlight = {} /\ UNCHANGED <<ops, budget, lastId, req>>
      /\ alert' = [alert EXCEPT ![a].status = s]
  BY DEF MarkAlert, TypeOK
<1>1. \A q \in Requests : ~InTransit(q)'
  BY <1>0 DEF InFlight, InTransit
<1>2. OverIsAnnounced /\ ActiveIsJustified /\ OneAtMost /\ Over' = Over
  BY <1>0 DEF SerialInv, Over
<1>3. \A b \in Alerts : alert'[b].status = IF b = a THEN s ELSE alert[b].status
  BY <1>0 DEF TypeOK, AlertRow
<1>4. ActiveAlerts' = IF s \in Active THEN ActiveAlerts \union {a} ELSE ActiveAlerts \ {a}
  BY <1>3 DEF ActiveAlerts
<1>5. s \in Statuses /\ alert[a].status \in Statuses
  BY InputsAssumption DEF MarkAlert, Present
<1>6. s = "resolved" <=> s \notin Active
  BY <1>5 DEF Statuses, Active
<1>7. ActiveAlerts' \ reopened' \subseteq ActiveAlerts \ reopened
  <2>1. CASE s = "resolved"
    BY <1>4, <1>6, <2>1 DEF MarkAlert
  <2>2. CASE s # "resolved" /\ alert[a].status = "resolved"
    BY <1>4, <1>6, <2>2 DEF MarkAlert
  <2>3. CASE s # "resolved" /\ alert[a].status # "resolved"
    <3>1. a \in ActiveAlerts
      BY <1>5, <2>3 DEF ActiveAlerts, Statuses
    <3> QED
      BY <1>4, <1>6, <2>3, <3>1 DEF MarkAlert
  <2> QED
    BY <2>1, <2>2, <2>3
<1>8. OverIsAnnounced'
  BY <1>2, <1>4, <1>6 DEF OverIsAnnounced, MarkAlert
<1>9. ActiveIsJustified'
  BY <1>2, <1>7 DEF ActiveIsJustified
<1>10. OneAtMost'
  BY <1>2, <1>7, FewerActive
<1> QED
  BY <1>1, <1>8, <1>9, <1>10 DEF SerialInv, Alone

-----------------------------------------------------------------------------
(* The invariant. *)

LEMMA SerialStart ==
    ASSUME Init
    PROVE  SerialInv
<1>1. ops \in [Ops -> Nat] /\ \A o \in Ops : ops[o] = 0
  BY DEF Init
<1>2. Total(ops) = 0
  BY <1>1, SumZero, InputsAssumption DEF Total, Sum
<1>3. ~Over
  <2>1. CASE budget = NoBudget
    BY <2>1 DEF Over, Exists, NoBudget
  <2>2. ASSUME NEW b \in BudgetInputs, NEW e \in BOOLEAN, budget = CreatedBudget(b, e)
        PROVE  ~Over
    <3>1. budget.amount \in Nat \ {0} /\ budget.limitCriteria \in Nat \ {0}
      BY <2>2, InputsAssumption DEF CreatedBudget
    <3> DEFINE p == budget.amount * budget.limitCriteria
    <3>2. p \in Int /\ p > 0
      BY <3>1
    <3>3. Total(ops) * 100 = 0
      BY <1>2
    <3>4. Over => Total(ops) * 100 >= p
      BY DEF Over, Reached
    <3> HIDE DEF p
    <3> QED
      BY <3>2, <3>3, <3>4
  <2> QED
    BY <2>1, <2>2 DEF Init
<1>4. ActiveAlerts = {}
  BY DEF Init, ActiveAlerts, Active, NoAlert
<1>5. OneAtMost
  BY <1>4, FS_EmptySet DEF OneAtMost
<1>6. \A r \in Requests : ~InTransit(r)
  BY DEF Init, InTransit, Idle
<1> QED
  BY <1>3, <1>4, <1>5, <1>6 DEF SerialInv, Alone, OverIsAnnounced, ActiveIsJustified

LEMMA SerialStep ==
    ASSUME AlertInv, SerialInv, [Next]_vars
    PROVE  SerialInv'
<1> SUFFICES ASSUME ~overlapped'
             PROVE  SerialInv'
  BY DEF SerialInv
<1>0. TypeOK
  BY DEF AlertInv, Shape
<1>1. CASE UNCHANGED vars
  <2>1. /\ Alone' = Alone /\ OverIsAnnounced' = OverIsAnnounced
        /\ ActiveIsJustified' = ActiveIsJustified /\ OneAtMost' = OneAtMost
    BY <1>1 DEF vars, history, Alone, InTransit, OverIsAnnounced, ActiveIsJustified, OneAtMost,
                ActiveAlerts, Over
  <2>2. ASSUME NEW r \in Requests
        PROVE  InTransit(r)' = InTransit(r) /\ Knows(r)' = Knows(r)
    <3>1. Keeps(r) /\ req' = req
      BY <1>1 DEF vars, Keeps
    <3> QED
      BY <3>1, SeenStays
         DEF InTransit, Knows, HasRead, HasSummed, HasFound, HasResolved, HasChecked
  <2> QED
    BY <1>1, <2>1, <2>2 DEF SerialInv, vars
<1>2. ASSUME NEW r \in Requests, NEW a \in Alerts, NEW s \in StatusInputs, MarkAlert(r, a, s)
      PROVE  SerialInv'
  BY <1>0, <1>2, MarkStep
<1>3. ASSUME NEW r \in Requests, Start(r)
      PROVE  SerialInv'
  BY <1>0, <1>3, Arrivals
<1>4. ASSUME NEW r \in Requests, InTransit(r), InTransit(r)' => Knows(r)',
             UNCHANGED <<ops, budget, alert, history, overlapped>>,
             \A q \in Requests : q # r => req'[q] = req[q]
      PROVE  SerialInv'
  BY <1>4, QuietStep
<1>5. ASSUME NEW r \in Requests, RollBack(r), InTransit(r),
             UNCHANGED <<ops, budget, alert, history, overlapped>>
      PROVE  SerialInv'
  <2>1. ~InTransit(r)' /\ \A q \in Requests : q # r => req'[q] = req[q]
    BY <1>0, <1>5 DEF TypeOK, RollBack, Idle, InTransit
  <2> QED
    BY <1>4, <1>5, <2>1
<1>6. ASSUME NEW r \in Requests, Abort(r) \/ BreakDeadlock(r)
      PROVE  SerialInv'
  <2>1. /\ RollBack(r) /\ UNCHANGED <<ops, budget, alert, history, overlapped>>
    BY <1>6 DEF Abort, BreakDeadlock
  <2>2. InTransit(r)
    <3>1. CASE Abort(r)
      BY <3>1 DEF Abort, InTransit
    <3>2. CASE BreakDeadlock(r)
      <4>1. PICK p \in Requests : WaitsFor(r, p)
        BY <3>2 DEF BreakDeadlock
      <4> QED
        BY <4>1 DEF WaitsFor, Wanted, InTransit
    <3> QED
      BY <1>6, <3>1, <3>2
  <2> QED
    BY <1>5, <2>1, <2>2
<1>7. ASSUME NEW r \in Requests,
             \/ WriteOperation(r) \/ WriteProject(r)
             \/ ResolveBudget(r) \/ ResolveSum(r) \/ ResolveFind(r) \/ ResolveUpdate(r)
             \/ CheckBudget(r) \/ CheckSum(r) \/ CheckFind(r)
      PROVE  SerialInv'
  <2>1. UNCHANGED <<ops, budget, alert, history, overlapped>>
    BY <1>7 DEF WriteOperation, WriteProject, ResolveBudget, ResolveSum, ResolveFind,
                ResolveUpdate, CheckBudget, CheckSum, CheckFind
  <2>2. \A q \in Requests : q # r => req'[q] = req[q]
    BY <1>0, <1>7 DEF TypeOK, Goto, RollBack, WriteOperation, WriteProject, ResolveBudget,
                      ResolveSum, ResolveFind, ResolveUpdate, CheckBudget, CheckSum, CheckFind
  <2>3. InTransit(r) => Knows(r)
    BY <2>1 DEF SerialInv
  <2>4. InTransit(r) /\ (InTransit(r)' => Knows(r)')
    BY <1>7, <2>3, QuietStatements
  <2> QED
    BY <1>4, <2>1, <2>2, <2>4
<1>8. ASSUME NEW r \in Requests, CheckCreate(r)
      PROVE  SerialInv'
  <2>1. CASE RollBack(r) /\ UNCHANGED <<ops, budget, lastId, alert, history, overlapped>>
    BY <1>5, <1>8, <2>1 DEF CheckCreate, InTransit
  <2>2. ASSUME NEW new \in Alerts,
               CommitWith(r, [a \in Alerts |->
                    IF a = new THEN [status |-> "unread", budgetId |-> req[r].seen.id,
                                     threshold |-> req[r].seen.limitCriteria]
                    ELSE AlertAfter(r, a)])
        PROVE  SerialInv'
    BY <1>8, <2>2, CreateStep DEF CheckCreate
  <2> QED
    BY <1>8, <2>1, <2>2 DEF CheckCreate
<1>9. ASSUME NEW r \in Requests, Commit(r)
      PROVE  SerialInv'
  BY <1>9, CommitStep
<1> QED
  BY <1>1, <1>2, <1>3, <1>6, <1>7, <1>8, <1>9 DEF Next, Statement

-----------------------------------------------------------------------------
(* The result. *)

\* As long as requests come one after the other, expenses at or over the threshold
\* have an active alert (unless the owner has silenced it), an active alert that no
\* client has reopened means that they are, and there is one such alert at most.
THEOREM SerialAlertsAreExact == Spec => []SerialAlertsFollowTotal
<1>1. Init => SerialInv
  BY SerialStart
<1>2. AlertInv /\ SerialInv /\ [Next]_vars => SerialInv'
  BY SerialStep
<1>3. SerialInv => SerialAlertsFollowTotal
  BY DEF SerialInv, SerialAlertsFollowTotal, OneAtMost
<1> QED
  BY <1>1, <1>2, <1>3, AlertInvariant, PTL DEF Spec

-----------------------------------------------------------------------------
(***************************************************************************)
(* A request that nothing runs beside, whatever state it finds.  What it   *)
(* has read stays true until it commits, as in the section above, which    *)
(* asks no more of the tables than AlertInv.  So does what it is about to  *)
(* do, and the alerts it resolves are those that are active: its commit is *)
(* the step of SerialAlerts.                                               *)
(***************************************************************************)

\* What it changes is there, or is not there yet.
Intends(r) ==
    /\ req[r].kind \in {"create", "update", "delete"} => req[r].op \in Ops
    /\ req[r].kind \in {"create", "update"} => req[r].amount # 0
    /\ req[r].kind \in {"update", "delete"} => ops[req[r].op] # 0
    /\ req[r].plan = "delete" => Exists(budget)

ResolvesActive(r) ==
    /\ req[r].kind = "create" => req[r].done = {}
    /\ req[r].done \subseteq ActiveAlerts
    /\ req[r].pc = "resolveUpdate" => req[r].todo \union {req[r].next} \subseteq ActiveAlerts

Sound(r) == Knows(r) /\ Intends(r) /\ ResolvesActive(r)

LoneInv == \A r \in InFlight \ company : InFlight = {r} /\ Sound(r)

LEMMA SoundStays ==
    ASSUME AlertInv, NEW r \in Requests, Sound(r), InTransit(r)',
           \/ WriteOperation(r) \/ WriteProject(r)
           \/ ResolveBudget(r) \/ ResolveSum(r) \/ ResolveFind(r) \/ ResolveUpdate(r)
           \/ CheckBudget(r) \/ CheckSum(r) \/ CheckFind(r)
    PROVE  Sound(r)'
<1>0. req \in [Requests -> RequestState] /\ req[r] \in RequestState
  BY DEF AlertInv, Shape, TypeOK
<1>1. Knows(r)'
  BY QuietStatements DEF Sound
<1>2. UNCHANGED <<ops, budget, alert>> /\ ActiveAlerts' = ActiveAlerts
  BY DEF WriteOperation, WriteProject, ResolveBudget, ResolveSum, ResolveFind, ResolveUpdate,
         CheckBudget, CheckSum, CheckFind, ActiveAlerts
<1>3. ~RollBack(r)
  BY <1>0 DEF RollBack, Idle, InTransit
<1> DEFINE Same(n) == /\ n.kind = req[r].kind /\ n.op = req[r].op
                      /\ n.amount = req[r].amount /\ n.plan = req[r].plan
           Aims(n) == Same(n) /\ n.done = req[r].done /\ n.pc # "resolveUpdate"
<1>4. ASSUME NEW pc, pc # "resolveUpdate", Goto(r, pc)
      PROVE  Aims(req'[r])
  BY <1>0, <1>4 DEF Goto, RequestState
<1>5. AfterResolve(r) # "resolveUpdate"
  BY DEF AfterResolve
<1>6. CASE \/ WriteOperation(r) \/ WriteProject(r) \/ ResolveBudget(r) \/ ResolveSum(r)
           \/ CheckBudget(r) \/ CheckSum(r) \/ CheckFind(r)
  <2>1. Aims(req'[r])
    <3>1. CASE WriteOperation(r) \/ ResolveSum(r) \/ CheckSum(r) \/ CheckFind(r)
      <4> HIDE DEF Aims
      <4> QED
        BY <1>3, <1>4, <1>5, <3>1 DEF WriteOperation, ResolveSum, CheckSum, CheckFind
    <3>2. CASE WriteProject(r)
      BY <1>0, <1>3, <3>2 DEF WriteProject, Goto, RequestState
    <3>3. CASE ResolveBudget(r) \/ CheckBudget(r)
      BY <1>0, <1>5, <3>3 DEF ResolveBudget, CheckBudget, RequestState
    <3> QED
      BY <1>6, <3>1, <3>2, <3>3
  <2>2. Intends(r)' /\ ResolvesActive(r)'
    BY <1>2, <2>1 DEF Sound, Intends, ResolvesActive
  <2> QED
    BY <1>1, <2>2 DEF Sound
<1>7. CASE ResolveFind(r)
  <2> DEFINE found == ActiveSeenBy(r, req[r].seen)
  <2>1. found \subseteq ActiveAlerts
    BY DEF ActiveSeenBy, ActiveAlerts
  <2>2. CASE Goto(r, AfterResolve(r))
    <3>1. Aims(req'[r])
      BY <1>4, <1>5, <2>2
    <3>2. Intends(r)' /\ ResolvesActive(r)'
      BY <1>2, <3>1 DEF Sound, Intends, ResolvesActive
    <3> QED
      BY <1>1, <3>2 DEF Sound
  <2>3. ASSUME NEW a \in found,
               req' = [req EXCEPT ![r].pc = "resolveUpdate", ![r].next = a,
                                  ![r].todo = found \ {a}]
        PROVE  Sound(r)'
    <3> HIDE DEF found
    <3>1. /\ Same(req'[r]) /\ req'[r].done = req[r].done
          /\ req'[r].next = a /\ req'[r].todo = found \ {a}
      BY <1>0, <2>3 DEF RequestState
    <3>2. Intends(r)' /\ ResolvesActive(r)'
      BY <1>2, <2>1, <2>3, <3>1 DEF Sound, Intends, ResolvesActive
    <3> QED
      BY <1>1, <3>2 DEF Sound
  <2> QED
    BY <1>7, <2>2, <2>3 DEF ResolveFind
<1>8. CASE ResolveUpdate(r)
  <2>1. /\ req[r].kind # "create"
        /\ req[r].todo \union {req[r].next} \subseteq ActiveAlerts
        /\ req[r].done \subseteq ActiveAlerts
    BY <1>8 DEF ResolveUpdate, Sound, Knows, HasChecked, ResolvesActive
  <2>2. CASE req' = [req EXCEPT ![r].pc = AfterResolve(r), ![r].next = None,
                                ![r].done = @ \union {req[r].next}]
    <3>1. /\ Same(req'[r]) /\ req'[r].done = req[r].done \union {req[r].next}
          /\ req'[r].pc # "resolveUpdate"
      BY <1>0, <1>5, <2>2 DEF RequestState
    <3>2. Intends(r)' /\ ResolvesActive(r)'
      BY <1>2, <2>1, <3>1 DEF Sound, Intends, ResolvesActive
    <3> QED
      BY <1>1, <3>2 DEF Sound
  <2>3. ASSUME NEW a \in req[r].todo,
               req' = [req EXCEPT ![r].next = a, ![r].todo = @ \ {a},
                                  ![r].done = @ \union {req[r].next}]
        PROVE  Sound(r)'
    <3>1. /\ Same(req'[r]) /\ req'[r].done = req[r].done \union {req[r].next}
          /\ req'[r].next = a /\ req'[r].todo = req[r].todo \ {a}
      BY <1>0, <2>3 DEF RequestState
    <3>2. Intends(r)' /\ ResolvesActive(r)'
      BY <1>2, <2>1, <2>3, <3>1 DEF Sound, Intends, ResolvesActive
    <3> QED
      BY <1>1, <3>2 DEF Sound
  <2> QED
    BY <1>3, <1>8, <2>2, <2>3 DEF ResolveUpdate
<1> QED
  BY <1>6, <1>7, <1>8

\* A request that arrives where nobody is knows what it needs to know.
LEMMA SoundArrivals ==
    ASSUME TypeOK, NEW r \in Requests, Start(r)
    PROVE  /\ UNCHANGED <<ops, budget, alert>>
           /\ InFlight' = InFlight \union {r}
           /\ company' = IF InFlight = {} THEN {} ELSE InFlight \union {r}
           /\ Sound(r)'
<1>0. req \in [Requests -> RequestState]
  BY DEF TypeOK
<1> DEFINE Fits(s) == /\ s.done = {} /\ s.kind # "none"
                      /\ s.kind = "create" => ops[s.op] = 0
                      /\ s.kind = "delete" => s.amount = 0
                      /\ s.kind = "project" => s.op = None
                      /\ s.kind \in {"create", "update", "delete"} => s.op \in Ops
                      /\ s.kind \in {"create", "update"} => s.amount # 0
                      /\ s.kind \in {"update", "delete"} => ops[s.op] # 0
                      /\ s.plan = "delete" => Exists(budget)
<1>1. ASSUME NEW s \in RequestState, Arrive(r, s), Fits(s)
      PROVE  /\ UNCHANGED <<ops, budget, alert>>
             /\ InFlight' = InFlight \union {r}
             /\ company' = IF InFlight = {} THEN {} ELSE InFlight \union {r}
             /\ Sound(r)'
  <2>1. /\ UNCHANGED <<ops, budget, alert>>
        /\ company' = IF InFlight = {} THEN {} ELSE InFlight \union {r}
        /\ req' = [req EXCEPT ![r] = [s EXCEPT !.pc = "write"]]
    BY <1>1 DEF Arrive
  <2>2. /\ req'[r].pc = "write" /\ req'[r].kind = s.kind /\ req'[r].op = s.op
        /\ req'[r].amount = s.amount /\ req'[r].plan = s.plan /\ req'[r].done = {}
    BY <1>0, <1>1, <2>1 DEF RequestState
  <2>3. InFlight' = InFlight \union {r}
    BY <1>0, <2>1, <2>2 DEF InFlight
  <2>4. Knows(r)'
    BY <1>1, <2>1, <2>2 DEF Knows, Writ, HasRead, HasSummed, HasFound, HasResolved, HasChecked
  <2>5. Intends(r)' /\ ResolvesActive(r)'
    BY <1>1, <2>1, <2>2 DEF Intends, ResolvesActive
  <2> QED
    BY <2>1, <2>3, <2>4, <2>5 DEF Sound
<1>2. CASE StartCreate(r)
  <2> PICK o \in Ops, n \in Amounts :
         /\ ops[o] = 0
         /\ Arrive(r, [Idle EXCEPT !.kind = "create", !.op = o, !.amount = n])
    BY <1>2 DEF StartCreate
  <2> DEFINE s == [Idle EXCEPT !.kind = "create", !.op = o, !.amount = n]
  <2>1. s \in RequestState /\ Fits(s)
    BY IdlePlaced, InputsAssumption DEF Idle, RequestState
  <2> HIDE DEF s, Fits
  <2> QED
    BY <1>1, <2>1 DEF s
<1>3. CASE StartUpdate(r)
  <2> PICK o \in Ops, n \in Amounts :
         /\ ops[o] # 0
         /\ Arrive(r, [Idle EXCEPT !.kind = "update", !.op = o, !.amount = n])
    BY <1>3 DEF StartUpdate
  <2> DEFINE s == [Idle EXCEPT !.kind = "update", !.op = o, !.amount = n]
  <2>1. s \in RequestState /\ Fits(s)
    BY IdlePlaced, InputsAssumption DEF Idle, RequestState
  <2> HIDE DEF s, Fits
  <2> QED
    BY <1>1, <2>1 DEF s
<1>4. CASE StartDelete(r)
  <2> PICK o \in Ops : /\ ops[o] # 0
                      /\ Arrive(r, [Idle EXCEPT !.kind = "delete", !.op = o])
    BY <1>4 DEF StartDelete
  <2> DEFINE s == [Idle EXCEPT !.kind = "delete", !.op = o]
  <2>1. s \in RequestState /\ Fits(s)
    BY IdlePlaced DEF Idle, RequestState
  <2> HIDE DEF s, Fits
  <2> QED
    BY <1>1, <2>1 DEF s
<1>5. CASE StartProject(r)
  <2>1. ASSUME NEW b \in BudgetInputs,
               Arrive(r, [Idle EXCEPT !.kind = "project", !.plan = "upsert",
                                      !.budget = [id |-> 0, amount |-> b.amount,
                                                  limitCriteria |-> b.limitCriteria]])
        PROVE  \E s \in RequestState : Arrive(r, s) /\ Fits(s)
    <3> DEFINE row == [id |-> 0, amount |-> b.amount, limitCriteria |-> b.limitCriteria]
               s   == [Idle EXCEPT !.kind = "project", !.plan = "upsert", !.budget = row]
    <3>1. row \in BudgetRow
      BY InputsAssumption DEF BudgetRow
    <3>2. s \in RequestState /\ Fits(s)
      BY <3>1, IdlePlaced DEF Idle, RequestState
    <3> HIDE DEF s, Fits
    <3> QED
      BY <2>1, <3>2 DEF s
  <2>2. ASSUME Exists(budget), Arrive(r, [Idle EXCEPT !.kind = "project", !.plan = "delete"])
        PROVE  \E s \in RequestState : Arrive(r, s) /\ Fits(s)
    <3> DEFINE s == [Idle EXCEPT !.kind = "project", !.plan = "delete"]
    <3>1. s \in RequestState /\ Fits(s)
      BY <2>2, IdlePlaced DEF Idle, RequestState
    <3> HIDE DEF s, Fits
    <3> QED
      BY <2>2, <3>1 DEF s
  <2>3. ASSUME Arrive(r, [Idle EXCEPT !.kind = "project"])
        PROVE  \E s \in RequestState : Arrive(r, s) /\ Fits(s)
    <3> DEFINE s == [Idle EXCEPT !.kind = "project"]
    <3>1. s \in RequestState /\ Fits(s)
      BY IdlePlaced DEF Idle, RequestState
    <3> HIDE DEF s, Fits
    <3> QED
      BY <2>3, <3>1 DEF s
  <2> HIDE DEF Fits
  <2>4. \E s \in RequestState : Arrive(r, s) /\ Fits(s)
    BY <1>5, <2>1, <2>2, <2>3 DEF StartProject
  <2> QED
    BY <1>1, <2>4
<1> HIDE DEF Fits
<1> QED
  BY <1>2, <1>3, <1>4, <1>5 DEF Start

\* What a statement that is not a commit leaves alone.
LEMMA LoneQuiet ==
    ASSUME TypeOK, NEW r \in Requests,
           \/ WriteOperation(r) \/ WriteProject(r)
           \/ ResolveBudget(r) \/ ResolveSum(r) \/ ResolveFind(r) \/ ResolveUpdate(r)
           \/ CheckBudget(r) \/ CheckSum(r) \/ CheckFind(r)
    PROVE  /\ UNCHANGED <<ops, budget, alert, company>>
           /\ r \in InFlight /\ InFlight' \subseteq InFlight
<1>1. UNCHANGED <<ops, budget, alert, company>>
  BY DEF WriteOperation, WriteProject, ResolveBudget, ResolveSum, ResolveFind, ResolveUpdate,
         CheckBudget, CheckSum, CheckFind
<1>2. \A q \in Requests : q # r => req'[q] = req[q]
  BY DEF TypeOK, Goto, RollBack, WriteOperation, WriteProject, ResolveBudget, ResolveSum,
         ResolveFind, ResolveUpdate, CheckBudget, CheckSum, CheckFind
<1>3. r \in InFlight
  BY DEF InFlight, WriteOperation, WriteProject, ResolveBudget, ResolveSum, ResolveFind,
         ResolveUpdate, CheckBudget, CheckSum, CheckFind
<1> QED
  BY <1>1, <1>2, <1>3 DEF InFlight

\* A request ends.
LEMMA LoneEnd ==
    ASSUME TypeOK, LoneInv, NEW r \in InFlight,
           req' = [req EXCEPT ![r] = Idle], UNCHANGED company
    PROVE  LoneInv'
<1>1. InFlight' = InFlight \ {r}
  BY DEF TypeOK, InFlight, Idle
<1> SUFFICES ASSUME NEW q \in InFlight' \ company'
             PROVE  FALSE
  BY DEF LoneInv
<1>2. q \in InFlight \ company /\ q # r
  BY <1>1
<1> QED
  BY <1>2 DEF LoneInv

LEMMA Blocked ==
    ASSUME NEW r \in Requests, Abort(r) \/ BreakDeadlock(r)
    PROVE  r \in InFlight
<1>1. CASE Abort(r)
  BY <1>1 DEF Abort, InFlight
<1>2. CASE BreakDeadlock(r)
  <2>1. PICK p \in Requests : WaitsFor(r, p)
    BY <1>2 DEF BreakDeadlock
  <2> QED
    BY <2>1 DEF WaitsFor, Wanted, InFlight
<1> QED
  BY <1>1, <1>2

LEMMA LoneStep ==
    ASSUME AlertInv, LoneInv, [Next]_vars
    PROVE  LoneInv'
<1>0. TypeOK
  BY DEF AlertInv, Shape
<1>1. CASE UNCHANGED vars
  <2>1. InFlight' = InFlight /\ company' = company
    BY <1>1 DEF vars, InFlight
  <2>2. ASSUME NEW r \in Requests
        PROVE  Sound(r)' = Sound(r)
    <3>1. Keeps(r) /\ UNCHANGED <<req, ops, budget, alert>>
      BY <1>1 DEF vars, Keeps
    <3>2. Knows(r)' = Knows(r)
      BY <3>1, SeenStays DEF Knows, HasRead, HasSummed, HasFound, HasResolved, HasChecked
    <3> QED
      BY <3>1, <3>2, SeenStays DEF Sound, Intends, ResolvesActive
  <2> QED
    BY <2>1, <2>2 DEF LoneInv, InFlight
<1>2. ASSUME NEW r \in Requests, NEW a \in Alerts, NEW s \in StatusInputs, MarkAlert(r, a, s)
      PROVE  LoneInv'
  <2>1. InFlight' = InFlight /\ company' = InFlight
    BY <1>2 DEF MarkAlert, InFlight
  <2> QED
    BY <2>1 DEF LoneInv
<1>3. ASSUME NEW r \in Requests, Start(r)
      PROVE  LoneInv'
  <2>1. /\ InFlight' = InFlight \union {r}
        /\ company' = IF InFlight = {} THEN {} ELSE InFlight \union {r}
        /\ Sound(r)'
    BY <1>0, <1>3, SoundArrivals
  <2> QED
    BY <2>1 DEF LoneInv
<1>4. ASSUME NEW r \in Requests,
             \/ WriteOperation(r) \/ WriteProject(r)
             \/ ResolveBudget(r) \/ ResolveSum(r) \/ ResolveFind(r) \/ ResolveUpdate(r)
             \/ CheckBudget(r) \/ CheckSum(r) \/ CheckFind(r)
      PROVE  LoneInv'
  <2>1. UNCHANGED company /\ r \in InFlight /\ InFlight' \subseteq InFlight
    BY <1>0, <1>4, LoneQuiet
  <2> SUFFICES ASSUME NEW q \in InFlight' \ company'
               PROVE  InFlight' = {q} /\ Sound(q)'
    BY DEF LoneInv
  <2>2. InFlight = {q} /\ Sound(q)
    BY <2>1 DEF LoneInv
  <2>3. q = r /\ InFlight' = {q}
    BY <2>1, <2>2
  <2>4. InTransit(r)'
    BY <2>3 DEF InTransit, InFlight
  <2>5. Sound(r)'
    BY <1>4, <2>2, <2>3, <2>4, SoundStays
  <2> QED
    BY <2>3, <2>5
<1>5. ASSUME NEW r \in Requests, Abort(r) \/ BreakDeadlock(r)
      PROVE  LoneInv'
  <2>1. req' = [req EXCEPT ![r] = Idle] /\ UNCHANGED company
    BY <1>5 DEF Abort, BreakDeadlock, RollBack
  <2> QED
    BY <1>0, <1>5, <2>1, Blocked, LoneEnd
<1>6. ASSUME NEW r \in Requests, CheckCreate(r) \/ Commit(r)
      PROVE  LoneInv'
  <2>1. req' = [req EXCEPT ![r] = Idle] /\ UNCHANGED company
    BY <1>6 DEF CheckCreate, Commit, CommitWith, RollBack
  <2>2. r \in InFlight
    BY <1>6 DEF CheckCreate, Commit, InFlight
  <2> QED
    BY <1>0, <2>1, <2>2, LoneEnd
<1> QED
  BY <1>1, <1>2, <1>3, <1>4, <1>5, <1>6 DEF Next, Statement

-----------------------------------------------------------------------------
(* Its commit is the step of SerialAlerts. *)

LEMMA SerialSum == \A f : Serial!SumFunctionOnSet(f, Ops) = Total(f)
BY DEF Total, SumFunctionOnSet, FoldFunctionOnSet, MapThenFoldSet, Serial!SumFunctionOnSet,
       Serial!FoldFunctionOnSet, Serial!MapThenFoldSet

LEMMA SerialSets == /\ Serial!Present = Present /\ Serial!Active = ActiveAlerts
                    /\ Serial!Free = {a \in Alerts : alert[a].status = "free"}
BY DEF Serial!Present, Serial!Active, Serial!Free, Present, Statuses, Active, ActiveAlerts

\* What the commit of r leaves, as the checks of SerialAlerts see it.
LEMMA SerialChecks ==
    ASSUME TypeOK, NEW r \in Requests, NEW table, CommitWith(r, table)
    PROVE  /\ Serial!Undue <=> SeenUnder(r)
           /\ Serial!Due <=> SeenOver(r) /\ ActiveAlerts = {}
<1>1. ops' = OpsSeenBy(r) /\ budget' = BudgetSeenBy(r)
  BY DEF CommitWith
<1>2. Serial!SumFunctionOnSet(ops', Ops) = SeenTotal(r)
  BY <1>1, SerialSum DEF SeenTotal
<1>3. Serial!Reached <=> Reached(SeenTotal(r), BudgetSeenBy(r))
  BY <1>1, <1>2 DEF Serial!Reached, Reached
<1> QED
  BY <1>1, <1>3, SerialSets
     DEF Serial!Undue, Serial!Due, SeenUnder, SeenOver, Exists

\* The expense that is written.
LEMMA SerialWrites ==
    ASSUME TypeOK, NEW r \in Requests, NEW table, CommitWith(r, table), req[r].op \in Ops,
           req[r].kind # "project"
    PROVE  Serial!Writes(req[r].op) /\ ops'[req[r].op] = req[r].amount
<1> DEFINE o == req[r].op
           n == req[r].amount
<1>1. ops \in [Ops -> Nat] /\ req[r].amount \in Nat
  BY DEF TypeOK, RequestState
<1>2. ops' = [p \in Ops |-> IF p = o THEN n ELSE ops[p]] /\ UNCHANGED budget
  BY DEF CommitWith, OpsSeenBy, BudgetSeenBy
<1> HIDE DEF o, n
<1>3. ops'[o] = n
  BY <1>2 DEF o
<1>4. ops' = [ops EXCEPT ![o] = n]
  BY <1>1, <1>2
<1> QED
  BY <1>2, <1>3, <1>4 DEF Serial!Writes, o, n

LEMMA SerialTables ==
    ASSUME TypeOK
    PROVE  /\ Serial!With({}, "resolved") = alert
           /\ \A a \in Alerts : \A s : Serial!With({a}, s) = [alert EXCEPT ![a].status = s]
<1>1. alert \in [Alerts -> AlertRow]
  BY DEF TypeOK
<1> QED
  BY <1>1 DEF Serial!With

LEMMA LoneCommits ==
    ASSUME AlertInv, NEW r \in Requests, Sound(r), Commit(r)
    PROVE  Serial!Next \/ UNCHANGED Serial!vars
<1> DEFINE table == [a \in Alerts |-> AlertAfter(r, a)]
<1>0. /\ TypeOK /\ req[r] \in RequestState /\ req[r].pc = "commit" /\ Past(req[r])
      /\ CommitWith(r, table) /\ alert' = table
      /\ ops' = OpsSeenBy(r) /\ budget' = BudgetSeenBy(r)
  BY DEF AlertInv, Shape, TypeOK, Commit, CommitWith, Past
<1>1. Knows(r) /\ Intends(r) /\ ResolvesActive(r) /\ Placed(req[r])
  BY DEF Sound, AlertInv, Shape
<1>2. /\ req[r].plan # "keep" => req[r].kind = "project"
      /\ req[r].plan \in {"keep", "upsert", "delete"}
      /\ req[r].kind \in {"create", "update", "delete", "project"}
  BY <1>0, <1>1 DEF Placed, RequestState, Knows, Writ
<1>3. /\ Serial!Undue <=> SeenUnder(r)
      /\ Serial!Due <=> SeenOver(r) /\ ActiveAlerts = {}
  <2> HIDE DEF table
  <2> QED
    BY <1>0, SerialChecks
<1>4. req[r].plan # "delete" => alert' = Serial!With(req[r].done, "resolved")
  BY <1>0 DEF AlertAfter, Serial!With
<1>5. req[r].plan = "delete" => alert' = Serial!With(Serial!Present, "gone")
  BY <1>0, SerialSets DEF AlertAfter, Serial!With
<1>6. Serial!With({}, "resolved") = alert
  BY <1>0, SerialTables
\* Whoever resolves has resolved all there is, or had nothing to resolve.
<1>7. ASSUME req[r].kind # "create", req[r].plan # "delete"
      PROVE  Serial!ResolveIfNeeded
  <2>1. CASE SeenUnder(r)
    <3>1. req[r].done = ActiveAlerts
      BY <1>0, <1>1, <1>7, <2>1 DEF Knows, HasResolved, ResolvesActive
    <3> QED
      BY <1>3, <1>4, <1>7, <2>1, <3>1, SerialSets DEF Serial!ResolveIfNeeded
  <2>2. CASE ~SeenUnder(r)
    <3>1. req[r].done = {}
      BY <1>1, <2>2 DEF Knows, HasResolved
    <3> QED
      BY <1>3, <1>4, <1>6, <1>7, <2>2, <3>1 DEF Serial!ResolveIfNeeded
  <2> QED
    BY <2>1, <2>2
<1>8. ASSUME req[r].kind # "project"
      PROVE  Serial!Writes(req[r].op) /\ ops'[req[r].op] = req[r].amount /\ req[r].op \in Ops
  <2> HIDE DEF table
  <2>1. req[r].op \in Ops
    BY <1>1, <1>2, <1>8 DEF Intends
  <2> QED
    BY <1>0, <1>8, <2>1, SerialWrites
<1>9. req[r].kind \in {"create", "update"} => ~Serial!Due
  BY <1>0, <1>1, <1>3 DEF Knows, HasChecked
<1>10. CASE req[r].kind = "create"
  <2>1. ops[req[r].op] = 0 /\ ops'[req[r].op] # 0
    BY <1>1, <1>8, <1>10 DEF Knows, Writ, Intends
  <2>2. req[r].done = {} /\ req[r].plan # "delete"
    BY <1>1, <1>2, <1>10 DEF ResolvesActive
  <2>3. Serial!CheckAndCreate
    BY <1>4, <1>6, <1>9, <1>10, <2>2 DEF Serial!CheckAndCreate
  <2> QED
    BY <1>8, <1>10, <2>1, <2>3 DEF Serial!Next, Serial!Create
<1>11. CASE req[r].kind = "update"
  <2>1. ops[req[r].op] # 0 /\ ops'[req[r].op] # 0 /\ req[r].plan # "delete"
    BY <1>1, <1>2, <1>8, <1>11 DEF Intends
  <2>2. Serial!ResolveIfNeeded
    BY <1>7, <1>11, <2>1
  <2>3. ~Serial!Undue => Serial!CheckAndCreate
    BY <1>9, <1>11, <2>2 DEF Serial!ResolveIfNeeded, Serial!CheckAndCreate
  <2> QED
    BY <1>8, <1>11, <2>1, <2>2, <2>3 DEF Serial!Next, Serial!Update
<1>12. CASE req[r].kind = "delete"
  <2>1. ops[req[r].op] # 0 /\ ops'[req[r].op] = 0 /\ req[r].plan # "delete"
    BY <1>1, <1>2, <1>8, <1>12 DEF Knows, Writ, Intends
  <2>2. Serial!ResolveIfNeeded
    BY <1>7, <1>12, <2>1
  <2> QED
    BY <1>8, <1>12, <2>1, <2>2 DEF Serial!Next, Serial!Delete
<1>13. CASE req[r].kind = "project"
  <2>1. UNCHANGED ops
    <3>1. ops \in [Ops -> Nat] /\ req[r].op = None
      BY <1>0, <1>1, <1>13 DEF TypeOK, Knows, Writ
    <3> QED
      BY <1>0, <3>1, InputsAssumption DEF OpsSeenBy
  <2>2. CASE req[r].plan = "keep"
    <3>1. UNCHANGED budget /\ Serial!ResolveIfNeeded
      BY <1>0, <1>7, <1>13, <2>2 DEF BudgetSeenBy
    <3>2. CASE Exists(budget)
      BY <2>1, <3>1, <3>2 DEF Exists, Serial!Next, Serial!SetBudget
    <3>3. CASE ~Exists(budget)
      <4>1. UNCHANGED alert
        BY <3>1, <3>3 DEF Exists, Serial!ResolveIfNeeded, Serial!Undue
      <4> QED
        BY <2>1, <3>1, <4>1 DEF Serial!vars
    <3> QED
      BY <3>2, <3>3
  <2>3. CASE req[r].plan = "upsert"
    <3>1. budget' = req[r].budget /\ Serial!ResolveIfNeeded
      BY <1>0, <1>7, <1>13, <2>3 DEF BudgetSeenBy
    <3>2. Exists(req[r].budget) /\ (Exists(budget) => req[r].budget.id = budget.id)
      BY <1>0, <1>1, <1>13, <2>3 DEF Placed, AlertInv, SameRow, Writing
    <3> QED
      BY <2>1, <3>1, <3>2 DEF Exists, Serial!Next, Serial!SetBudget
  <2>4. CASE req[r].plan = "delete"
    <3>1. budget' = NoBudget /\ Exists(budget)
      BY <1>0, <1>1, <1>13, <2>4 DEF BudgetSeenBy, Placed, Intends
    <3> QED
      BY <1>5, <2>1, <2>4, <3>1 DEF Exists, NoBudget, Serial!Next, Serial!DropBudget
  <2> QED
    BY <1>2, <2>2, <2>3, <2>4
<1> QED
  BY <1>2, <1>10, <1>11, <1>12, <1>13

LEMMA LoneCreates ==
    ASSUME AlertInv, NEW r \in Requests, Sound(r), req[r].pc = "checkCreate",
           NEW new \in Alerts, alert[new].status = "free",
           CommitWith(r, [a \in Alerts |->
                IF a = new THEN [status |-> "unread", budgetId |-> req[r].seen.id,
                                 threshold |-> req[r].seen.limitCriteria]
                ELSE AlertAfter(r, a)])
    PROVE  Serial!Next
<1> DEFINE row   == [status |-> "unread", budgetId |-> req[r].seen.id,
                     threshold |-> req[r].seen.limitCriteria]
           table == [a \in Alerts |-> IF a = new THEN row ELSE AlertAfter(r, a)]
<1>0. /\ TypeOK /\ Placed(req[r]) /\ CommitWith(r, table) /\ alert' = table
      /\ budget' = BudgetSeenBy(r)
  BY DEF AlertInv, Shape, CommitWith
<1>1. Knows(r) /\ Intends(r) /\ ResolvesActive(r)
  BY DEF Sound
<1>2. /\ req[r].kind \in {"create", "update"} /\ req[r].plan # "delete"
      /\ req[r].seen = BudgetSeenBy(r) /\ SeenOver(r) /\ ~SeenUnder(r) /\ ActiveAlerts = {}
  BY <1>0, <1>1 DEF Placed, Knows, HasRead, HasSummed, HasFound, SeenOver, SeenUnder
<1>3. Serial!Due /\ ~Serial!Undue
  <2> HIDE DEF table
  <2> QED
    BY <1>0, <1>2, SerialChecks
<1>4. Serial!CheckAndCreate
  <2>1. req[r].done = {}
    BY <1>1, <1>2 DEF Knows, HasResolved
  <2>2. alert \in [Alerts -> AlertRow]
    BY <1>0 DEF TypeOK
  <2>3. \A a \in Alerts : AlertAfter(r, a) = alert[a]
    BY <1>2, <2>1 DEF AlertAfter
  <2>4. alert' = [alert EXCEPT ![new] = row]
    BY <1>0, <2>2, <2>3
  <2>5. row = Serial!NewAlert
    BY <1>0, <1>2 DEF Serial!NewAlert
  <2>6. new \in Serial!Free
    BY SerialSets
  <2> QED
    BY <1>3, <2>4, <2>5, <2>6 DEF Serial!CheckAndCreate
<1>5. /\ req[r].op \in Ops /\ Serial!Writes(req[r].op)
      /\ ops'[req[r].op] = req[r].amount /\ req[r].amount # 0
  <2> HIDE DEF table
  <2>1. req[r].op \in Ops /\ req[r].amount # 0 /\ req[r].kind # "project"
    BY <1>1, <1>2 DEF Intends
  <2> QED
    BY <1>0, <2>1, SerialWrites
<1>6. CASE req[r].kind = "create"
  <2>1. ops[req[r].op] = 0
    BY <1>1, <1>6 DEF Knows, Writ
  <2> QED
    BY <1>4, <1>5, <2>1 DEF Serial!Next, Serial!Create
<1>7. CASE req[r].kind = "update"
  <2>1. ops[req[r].op] # 0
    BY <1>1, <1>7 DEF Intends
  <2> QED
    BY <1>3, <1>4, <1>5, <2>1 DEF Serial!Next, Serial!Update
<1> QED
  BY <1>2, <1>6, <1>7

\* A request that nothing runs beside, in whatever state it finds the tables, changes
\* them by the one step its handler takes in SerialAlerts, at its commit: a database
\* that isolates statements only serves it as if it were one statement.
THEOREM LoneRequestsTakeOneStep == Spec => LoneRequestsAreAtomic
<1>1. Init => LoneInv
  BY DEF Init, LoneInv, InFlight, Idle
<1>2. AlertInv /\ LoneInv /\ [Next]_vars => LoneInv'
  BY LoneStep
<1>3. Init => Serial!Init
  BY DEF Init, NoAlert, Serial!Init, Serial!Present
<1>4. AlertInv /\ LoneInv /\ [Next]_vars
         => (InFlight \intersect company = {} => Serial!Next \/ UNCHANGED Serial!vars)
  <2> SUFFICES ASSUME AlertInv, LoneInv, [Next]_vars, InFlight \intersect company = {}
               PROVE  Serial!Next \/ UNCHANGED Serial!vars
    OBVIOUS
  <2>0. TypeOK /\ \A r \in InFlight : Sound(r)
    BY DEF AlertInv, Shape, LoneInv
  <2>1. UNCHANGED <<ops, budget, alert>> => UNCHANGED Serial!vars
    BY DEF Serial!vars
  <2>2. CASE UNCHANGED vars
    BY <2>1, <2>2 DEF vars
  <2>3. ASSUME NEW r \in Requests, Start(r)
        PROVE  UNCHANGED Serial!vars
    BY <2>0, <2>1, <2>3, SoundArrivals
  <2>4. ASSUME NEW r \in Requests,
               \/ WriteOperation(r) \/ WriteProject(r)
               \/ ResolveBudget(r) \/ ResolveSum(r) \/ ResolveFind(r) \/ ResolveUpdate(r)
               \/ CheckBudget(r) \/ CheckSum(r) \/ CheckFind(r)
        PROVE  UNCHANGED Serial!vars
    BY <2>0, <2>1, <2>4, LoneQuiet
  <2>5. ASSUME NEW r \in Requests, Abort(r) \/ BreakDeadlock(r)
        PROVE  UNCHANGED Serial!vars
    BY <2>1, <2>5 DEF Abort, BreakDeadlock
  <2>6. ASSUME NEW r \in Requests, Commit(r)
        PROVE  Serial!Next \/ UNCHANGED Serial!vars
    <3>1. Sound(r)
      BY <2>0, <2>6 DEF Commit, InFlight
    <3> QED
      BY <2>6, <3>1, LoneCommits
  <2>7. ASSUME NEW r \in Requests, CheckCreate(r)
        PROVE  Serial!Next \/ UNCHANGED Serial!vars
    <3>1. Sound(r) /\ req[r].pc = "checkCreate"
      BY <2>0, <2>7 DEF CheckCreate, InFlight
    <3>2. CASE UNCHANGED <<ops, budget, alert>>
      BY <2>1, <3>2
    <3>3. ASSUME NEW new \in Alerts, alert[new].status = "free",
                 CommitWith(r, [a \in Alerts |->
                      IF a = new THEN [status |-> "unread", budgetId |-> req[r].seen.id,
                                       threshold |-> req[r].seen.limitCriteria]
                      ELSE AlertAfter(r, a)])
          PROVE  Serial!Next
      BY <3>1, <3>3, LoneCreates
    <3> QED
      BY <2>7, <3>2, <3>3 DEF CheckCreate
  <2>8. ASSUME NEW r \in Requests, NEW a \in Alerts, NEW s \in StatusInputs, MarkAlert(r, a, s)
        PROVE  Serial!Next
    <3>1. a \in Serial!Present /\ s \in {"unread", "read", "resolved"}
      BY <2>8, SerialSets, InputsAssumption DEF MarkAlert, Statuses, Active
    <3>2. alert' = Serial!With({a}, s) /\ UNCHANGED <<ops, budget>>
      BY <2>0, <2>8, SerialTables DEF MarkAlert
    <3> QED
      BY <3>1, <3>2 DEF Serial!Next, Serial!Mark
  <2> QED
    BY <2>2, <2>3, <2>4, <2>5, <2>6, <2>7, <2>8 DEF Next, Statement
<1> QED
  BY <1>1, <1>2, <1>3, <1>4, AlertInvariant, PTL DEF Spec, LoneRequestsAreAtomic

-----------------------------------------------------------------------------
(* The way of a request to its end. *)

LEMMA Stages ==
    ASSUME NEW s \in RequestState
    PROVE  /\ StepsLeft(s) \in Nat /\ Cardinality(Alerts) \in Nat
           /\ IsFiniteSet(s.todo) /\ Cardinality(s.todo) \in Nat
           /\ s.pc = "idle" => StepsLeft(s) = 0
           /\ s.pc # "idle" => StepsLeft(s) > 0
           /\ s.pc = "commit" => StepsLeft(s) = 1
           /\ s.pc = "checkCreate" => StepsLeft(s) = 2
           /\ s.pc = "checkFind" => StepsLeft(s) = 3
           /\ s.pc = "checkSum" => StepsLeft(s) = 4
           /\ s.pc = "checkBudget" => StepsLeft(s) = 5
           /\ s.pc = "resolveUpdate" => StepsLeft(s) = 6 + Cardinality(s.todo)
           /\ s.pc = "resolveFind" => StepsLeft(s) = 6 + Cardinality(Alerts)
           /\ s.pc = "resolveSum" => StepsLeft(s) = 7 + Cardinality(Alerts)
           /\ s.pc = "resolveBudget" => StepsLeft(s) = 8 + Cardinality(Alerts)
           /\ s.pc = "write" => StepsLeft(s) = 9 + Cardinality(Alerts)
<1>1. s.pc \in Points /\ s.todo \subseteq Alerts
  BY DEF RequestState
<1>2. /\ Cardinality(Alerts) \in Nat
      /\ IsFiniteSet(s.todo) /\ Cardinality(s.todo) \in Nat
  BY <1>1, InputsAssumption, FS_Subset, FS_CardinalityType
<1> QED
  BY <1>1, <1>2 DEF StepsLeft, Points

LEMMA StatementsAdvance ==
    ASSUME AlertInv, NEW r \in Requests, Statement(r), req'[r] \in RequestState
    PROVE  StepsLeft(req'[r]) < StepsLeft(req[r])
<1> DEFINE s == req[r]
           t == req'[r]
           n == Cardinality(Alerts)
<1>0. req \in [Requests -> RequestState] /\ req[r] \in RequestState
  BY DEF AlertInv, Shape, TypeOK
<1>1. ASSUME NEW pc, Goto(r, pc)
      PROVE  t.pc = pc
  BY <1>0, <1>1 DEF Goto, RequestState
<1>2. AfterResolve(r) = "checkBudget" \/ AfterResolve(r) = "commit"
  BY DEF AfterResolve
<1>3. n \in Nat /\ StepsLeft(s) \in Nat /\ StepsLeft(t) \in Nat
  BY <1>0, Stages
\* The request ends.
<1>4. ASSUME req' = [req EXCEPT ![r] = Idle], s.pc # "idle"
      PROVE  StepsLeft(t) < StepsLeft(s)
  <2>1. t.pc = "idle"
    BY <1>0, <1>4 DEF Idle
  <2> QED
    BY <1>0, <1>3, <1>4, <2>1, Stages
<1>5. CASE WriteOperation(r) \/ WriteProject(r)
  <2>1. s.pc = "write"
    BY <1>5 DEF WriteOperation, WriteProject
  <2>2. CASE RollBack(r)
    BY <1>4, <2>1, <2>2 DEF RollBack
  <2>3. CASE ~RollBack(r)
    <3>1. t.pc = "checkBudget" \/ t.pc = "resolveBudget"
      BY <1>0, <1>1, <1>5, <2>3 DEF WriteOperation, WriteProject, RequestState
    <3> QED
      BY <1>0, <1>3, <2>1, <3>1, Stages
  <2> QED
    BY <2>2, <2>3
<1>6. CASE ResolveBudget(r)
  <2>1. s.pc = "resolveBudget"
        /\ (t.pc = "resolveSum" \/ t.pc = "checkBudget" \/ t.pc = "commit")
    BY <1>0, <1>2, <1>6 DEF ResolveBudget, RequestState
  <2> QED
    BY <1>0, <1>3, <2>1, Stages
<1>7. CASE ResolveSum(r)
  <2>1. s.pc = "resolveSum"
        /\ (t.pc = "resolveFind" \/ t.pc = "checkBudget" \/ t.pc = "commit")
    BY <1>1, <1>2, <1>7 DEF ResolveSum
  <2> QED
    BY <1>0, <1>3, <2>1, Stages
<1>8. CASE ResolveFind(r)
  <2> DEFINE found == ActiveSeenBy(r, req[r].seen)
  <2>1. s.pc = "resolveFind" /\ found \subseteq Alerts
    BY <1>8 DEF ResolveFind, ActiveSeenBy
  <2>2. CASE Goto(r, AfterResolve(r))
    <3>1. t.pc = "checkBudget" \/ t.pc = "commit"
      BY <1>1, <1>2, <2>2
    <3> QED
      BY <1>0, <1>3, <2>1, <3>1, Stages
  <2>3. ASSUME NEW a \in found,
               req' = [req EXCEPT ![r].pc = "resolveUpdate", ![r].next = a,
                                  ![r].todo = found \ {a}]
        PROVE  StepsLeft(t) < StepsLeft(s)
    <3>1. t.pc = "resolveUpdate" /\ t.todo = found \ {a}
      <4> HIDE DEF found
      <4> QED
        BY <1>0, <2>3 DEF RequestState
    <3>2. t.todo \subseteq Alerts \ {a} /\ a \in Alerts
      BY <2>1, <2>3, <3>1
    <3>3. /\ IsFiniteSet(Alerts \ {a}) /\ Cardinality(Alerts \ {a}) = n - 1
          /\ Cardinality(t.todo) <= Cardinality(Alerts \ {a})
      BY <3>2, InputsAssumption, FS_RemoveElement, FS_Subset
    <3>4. StepsLeft(t) = 6 + Cardinality(t.todo) /\ Cardinality(t.todo) \in Nat
      BY <3>1, Stages
    <3>5. StepsLeft(s) = 6 + n
      BY <1>0, <2>1, Stages
    <3> QED
      BY <1>3, <3>3, <3>4, <3>5
  <2> HIDE DEF found
  <2> QED
    BY <1>8, <2>2, <2>3 DEF ResolveFind, found
<1>9. CASE ResolveUpdate(r)
  <2>1. s.pc = "resolveUpdate"
    BY <1>9 DEF ResolveUpdate
  <2>2. StepsLeft(s) = 6 + Cardinality(s.todo) /\ Cardinality(s.todo) \in Nat
        /\ IsFiniteSet(s.todo)
    BY <1>0, <2>1, Stages
  <2>3. CASE RollBack(r)
    BY <1>4, <2>1, <2>3 DEF RollBack
  <2>4. CASE req' = [req EXCEPT ![r].pc = AfterResolve(r), ![r].next = None,
                                ![r].done = @ \union {req[r].next}]
    <3>1. t.pc = "checkBudget" \/ t.pc = "commit"
      BY <1>0, <1>2, <2>4 DEF RequestState
    <3>2. StepsLeft(t) = 5 \/ StepsLeft(t) = 1
      BY <3>1, Stages
    <3> QED
      BY <2>2, <3>2
  <2>5. ASSUME NEW a \in req[r].todo,
               req' = [req EXCEPT ![r].next = a, ![r].todo = @ \ {a},
                                  ![r].done = @ \union {req[r].next}]
        PROVE  StepsLeft(t) < StepsLeft(s)
    <3>1. t.pc = "resolveUpdate" /\ t.todo = s.todo \ {a}
      BY <1>0, <2>1, <2>5 DEF RequestState
    <3>2. Cardinality(t.todo) = Cardinality(s.todo) - 1
      BY <2>2, <2>5, <3>1, FS_RemoveElement
    <3>3. StepsLeft(t) = 6 + Cardinality(t.todo)
      BY <3>1, Stages
    <3> QED
      BY <2>2, <3>2, <3>3
  <2> QED
    BY <1>9, <2>3, <2>4, <2>5 DEF ResolveUpdate
<1>10. CASE CheckBudget(r)
  <2>1. s.pc = "checkBudget" /\ (t.pc = "checkSum" \/ t.pc = "commit")
    BY <1>0, <1>10 DEF CheckBudget, RequestState
  <2> QED
    BY <1>0, <2>1, Stages
<1>11. CASE CheckSum(r)
  <2>1. s.pc = "checkSum" /\ (t.pc = "checkFind" \/ t.pc = "commit")
    BY <1>1, <1>11 DEF CheckSum
  <2> QED
    BY <1>0, <2>1, Stages
<1>12. CASE CheckFind(r)
  <2>1. s.pc = "checkFind" /\ (t.pc = "checkCreate" \/ t.pc = "commit")
    BY <1>1, <1>12 DEF CheckFind
  <2> QED
    BY <1>0, <2>1, Stages
<1>13. CASE CheckCreate(r) \/ Commit(r)
  <2>1. req' = [req EXCEPT ![r] = Idle] /\ s.pc # "idle"
    BY <1>13 DEF CheckCreate, Commit, CommitWith, RollBack
  <2> QED
    BY <1>4, <2>1
<1> HIDE DEF s, t
<1> QED
  BY <1>5, <1>6, <1>7, <1>8, <1>9, <1>10, <1>11, <1>12, <1>13 DEF Statement, s, t

\* A request is left alone or brought nearer to its end, whoever else runs: no mix of
\* statements, failures and changes by others keeps it going in circles.
THEOREM RequestsComeToAnEnd == Spec => RequestsRunOut
<1>1. AlertInv /\ AlertInv' /\ [Next]_vars
         => \A r \in InFlight : req'[r] # req[r] => StepsLeft(req'[r]) < StepsLeft(req[r])
  <2> SUFFICES ASSUME AlertInv, AlertInv', [Next]_vars, NEW r \in InFlight, req'[r] # req[r]
               PROVE  StepsLeft(req'[r]) < StepsLeft(req[r])
    OBVIOUS
  <2>0. /\ TypeOK /\ r \in Requests /\ req[r].pc # "idle"
        /\ req \in [Requests -> RequestState]
        /\ req[r] \in RequestState /\ req'[r] \in RequestState
    BY DEF AlertInv, Shape, TypeOK, InFlight
  <2>1. CASE UNCHANGED vars \/ \E q \in Requests, a \in Alerts, s \in StatusInputs : MarkAlert(q, a, s)
    BY <2>1 DEF vars, MarkAlert
  <2>2. ASSUME NEW q \in Requests, Start(q)
        PROVE  FALSE
    <3>1. PICK s : Arrive(q, s)
      BY <2>2 DEF Start, StartCreate, StartUpdate, StartDelete, StartProject
    <3> QED
      BY <2>0, <3>1 DEF Arrive
  <2>3. ASSUME NEW q \in Requests, q # r, Statement(q) \/ Abort(q) \/ BreakDeadlock(q)
        PROVE  FALSE
    BY <2>0, <2>3 DEF Statement, WriteOperation, WriteProject, ResolveBudget, ResolveSum,
         ResolveFind, ResolveUpdate, CheckBudget, CheckSum, CheckFind, CheckCreate, Commit,
         CommitWith, Abort, BreakDeadlock, Goto, RollBack
  <2>4. CASE Abort(r) \/ BreakDeadlock(r)
    <3>1. req' = [req EXCEPT ![r] = Idle]
      BY <2>4 DEF Abort, BreakDeadlock, RollBack
    <3>2. req'[r].pc = "idle"
      BY <2>0, <3>1 DEF Idle
    <3> QED
      BY <2>0, <3>2, Stages
  <2>5. CASE Statement(r)
    BY <2>0, <2>5, StatementsAdvance
  <2> QED
    BY <2>1, <2>2, <2>3, <2>4, <2>5 DEF Next
<1> QED
  BY <1>1, AlertInvariant, PTL DEF Spec, RequestsRunOut
=============================================================================
