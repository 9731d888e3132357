---------------------------- MODULE LedgerProofs ----------------------------
(***************************************************************************)
(* Who may leave a project, for every set of people, operations, expenses  *)
(* and requests: what a row refers to stays, because of the locks of       *)
(* foreign keys and of the order in which a PUT checks and deletes.        *)
(***************************************************************************)
EXTENDS Ledger, SumTheorems

RequestState == [kind : {"none", "create", "update", "participants"}, pc : Points,
                 op : Ops \union {None}, payer : People \union {None}, amount : Nat,
                 shares : Shares, keep : SUBSET People, todo : SUBSET People,
                 next : People \union {None}, gone : SUBSET People, added : SUBSET People]

\* A request is at a point of its own kind, with what it needs there; `ids' have been given.
Placed(s, ids) ==
    /\ s.pc = "write" => s.kind \in {"create", "update"}
    /\ s.pc \in {"update", "count", "remove"} => s.kind = "participants"
    /\ s.pc = "commit" => s.kind # "none"
    /\ s.kind \in {"create", "update"} =>
          /\ s.op \in Ops /\ s.payer \in People
          /\ \E e \in Expenses : s.amount = e.amount /\ s.shares = e.shares
    /\ s.pc \in {"count", "remove"} => s.next \in People
    /\ s.added \subseteq ids \ Strangers

Shape == /\ members \union Strangers \subseteq created /\ created \subseteq People
         /\ members \intersect Strangers = {}
         /\ payer \in [Ops -> People \union {None}]
         /\ amount \in [Ops -> Nat]
         /\ shares \in [Ops -> Shares]
         /\ overlapped \in BOOLEAN
         /\ req \in [Requests -> RequestState]
         /\ \A r \in Requests : Placed(req[r], created)

\* What an open transaction refers to is there, and nobody else is deleting it.
ReferredStay == \A r \in Requests :
                   /\ Referred(r) \subseteq Participants
                   /\ \A q \in Others(r) : req[q].gone \intersect Referred(r) = {}

\* Whom a transaction has deleted has paid nothing in the meantime.
GonePaidNothing == \A r \in Requests : \A p \in req[r].gone : ~HasPaid(p)

LedgerInv == Shape /\ ReferredStay /\ GonePaidNothing /\ ReferencesStand

-----------------------------------------------------------------------------
(* What a step does to the tables and to the request that makes it. *)

Moved(r) == /\ req' \in [Requests -> RequestState] /\ Placed(req'[r], created')
            /\ \A q \in Others(r) : req'[q] = req[q]

\* It arrives, fails, or goes on without a lock on those it refers to.
Rests(r) == /\ Moved(r)
            /\ UNCHANGED <<members, payer, amount, shares>>
            /\ created \subseteq created' /\ created' \subseteq People
            /\ Referred(r)' = {} /\ req'[r].gone \subseteq req[r].gone

\* The INSERTs of an expense.
Refers(r) == /\ Moved(r)
             /\ UNCHANGED rows
             /\ Referred(r)' \subseteq Participants
             /\ \A p \in Referred(r)' : CanRefer(r, p)
             /\ req'[r].gone = req[r].gone

\* The DELETE of a participant.
Removes(r) == /\ Moved(r)
              /\ UNCHANGED rows
              /\ Referred(r)' = {}
              /\ \E p \in People : /\ req'[r].gone = req[r].gone \union {p}
                                   /\ ~HasPaid(p)
                                   /\ \A q \in Others(r) : p \notin Referred(q)

\* The three kinds of commit.
Records(r) == /\ Moved(r) /\ Referred(r)' = {} /\ req'[r].gone = {}
              /\ req[r].op \in Ops /\ Referred(r) = {req[r].payer} \union DOMAIN req[r].shares
              /\ req[r].payer \in People /\ req[r].amount \in Nat /\ req[r].shares \in Shares
              /\ payer' = [payer EXCEPT ![req[r].op] = req[r].payer]
              /\ amount' = [amount EXCEPT ![req[r].op] = req[r].amount]
              /\ shares' = [shares EXCEPT ![req[r].op] = req[r].shares]
              /\ UNCHANGED <<members, created>>

Erases(r) == /\ \E o \in Ops : /\ payer' = [payer EXCEPT ![o] = None]
                               /\ amount' = [amount EXCEPT ![o] = 0]
                               /\ shares' = [shares EXCEPT ![o] = NoShares]
             /\ UNCHANGED <<members, created, req>>

Replaces(r) == /\ Moved(r) /\ Referred(r)' = {} /\ req'[r].gone = {}
               /\ Referred(r) = {}
               /\ members' = (members \ req[r].gone) \union req[r].added
               /\ shares' = [o \in Ops |-> Without(shares[o], req[r].gone)]
               /\ UNCHANGED <<created, payer, amount>>

LEMMA NoSharesIsOne == NoShares \in Shares
BY DEF NoShares, Shares

LEMMA IdleState == Idle \in RequestState /\ \A ids : Placed(Idle, ids)
BY NoSharesIsOne DEF Idle, RequestState, Points, Placed

LEMMA LedgerSteps ==
    ASSUME Shape, [Next]_vars
    PROVE  \/ UNCHANGED vars
           \/ /\ overlapped' \in BOOLEAN
              /\ \E r \in Requests : \/ Rests(r) \/ Refers(r) \/ Removes(r)
                                     \/ Records(r) \/ Erases(r) \/ Replaces(r)
<1> SUFFICES ASSUME NEW r \in Requests,
                    \/ StartCreate(r) \/ StartUpdate(r) \/ WriteExpense(r) \/ CommitExpense(r)
                    \/ DeleteOperation(r) \/ StartParticipants(r) \/ UpdateParticipants(r)
                    \/ CountShares(r) \/ RemoveParticipant(r) \/ CommitParticipants(r) \/ Abort(r)
             PROVE  /\ overlapped' \in BOOLEAN
                    /\ \/ Rests(r) \/ Refers(r) \/ Removes(r)
                       \/ Records(r) \/ Erases(r) \/ Replaces(r)
  BY DEF Next
<1> USE DEF Shape
<1>0. req[r] \in RequestState /\ Placed(req[r], created)
  OBVIOUS
<1>a. ASSUME NEW s \in RequestState, Placed(s, created'), req' = [req EXCEPT ![r] = s]
      PROVE  Moved(r) /\ req'[r] = s
  BY <1>a DEF Moved, Others, Placed
<1>b. ASSUME Finish(r), created \subseteq created'
      PROVE  Moved(r) /\ Referred(r)' = {} /\ req'[r].gone = {} /\ req'[r].added = {}
  BY <1>a, <1>b, IdleState DEF Finish, Idle, Referred
<1>c. ASSUME RollBack(r), UNCHANGED rows
      PROVE  Rests(r)
  <2>1. Finish(r) /\ created' = created /\ created \subseteq People
    BY <1>c DEF RollBack, rows
  <2>2. Moved(r) /\ Referred(r)' = {} /\ req'[r].gone = {}
    BY <1>b, <2>1
  <2> QED
    BY <1>c, <2>1, <2>2 DEF rows, Rests
<1>o. Arrival => overlapped' \in BOOLEAN
  BY DEF Arrival
<1>1. ASSUME NEW kind \in {"create", "update"}, NEW o \in Ops, StartExpense(r, kind, o)
      PROVE  Rests(r) /\ overlapped' \in BOOLEAN
  <2> PICK e \in Expenses :
         req' = [req EXCEPT ![r] = [Idle EXCEPT !.kind = kind, !.pc = "write", !.op = o,
                                                !.payer = e.payer, !.amount = e.amount,
                                                !.shares = e.shares]]
    BY <1>1 DEF StartExpense
  <2> DEFINE s == [Idle EXCEPT !.kind = kind, !.pc = "write", !.op = o, !.payer = e.payer,
                               !.amount = e.amount, !.shares = e.shares]
  <2>1. /\ UNCHANGED rows /\ overlapped' \in BOOLEAN
    BY <1>1, <1>o DEF StartExpense
  <2>2. /\ e.payer \in People /\ e.amount \in Nat /\ e.shares \in Shares
    BY InputsAssumption DEF Shares
  <2>3. s \in RequestState /\ Placed(s, created') /\ s.pc = "write" /\ s.gone = {}
    BY <1>1, <2>1, <2>2, IdleState DEF Idle, RequestState, Points, Placed, rows
  <2>4. Moved(r) /\ req'[r] = s
    BY <1>a, <2>3
  <2> QED
    BY <2>1, <2>3, <2>4 DEF Rests, Referred, rows
<1>2. CASE StartCreate(r) \/ StartUpdate(r)
  BY <1>1, <1>2 DEF StartCreate, StartUpdate, Recorded
<1>3. CASE WriteExpense(r)
  <2>1. UNCHANGED rows /\ overlapped' \in BOOLEAN
    BY <1>3 DEF WriteExpense
  <2>2. CASE RollBack(r)
    BY <1>c, <2>1, <2>2
  <2>3. CASE ~RollBack(r)
    <3>1. /\ req[r].pc = "write"
          /\ \A p \in {req[r].payer} \union DOMAIN req[r].shares : CanRefer(r, p)
          /\ {req[r].payer} \union DOMAIN req[r].shares \subseteq Participants
          /\ req' = [req EXCEPT ![r] = [req[r] EXCEPT !.pc = "commit"]]
      BY <1>3, <2>3 DEF WriteExpense
    <3> DEFINE s == [req[r] EXCEPT !.pc = "commit"]
    <3>2. /\ s \in RequestState /\ Placed(s, created')
          /\ s.pc = "commit" /\ s.kind \in {"create", "update"} /\ s.gone = req[r].gone
          /\ s.payer = req[r].payer /\ s.shares = req[r].shares
      BY <1>0, <2>1, <3>1 DEF RequestState, Points, Placed, rows
    <3>3. Moved(r) /\ req'[r] = s
      BY <1>a, <3>1, <3>2
    <3>4. Referred(r)' = {req[r].payer} \union DOMAIN req[r].shares
      BY <3>2, <3>3 DEF Referred
    <3> QED
      BY <2>1, <3>1, <3>2, <3>3, <3>4 DEF Refers
  <2> QED
    BY <2>2, <2>3
<1>4. CASE CommitExpense(r)
  <2>1. Moved(r) /\ Referred(r)' = {} /\ req'[r].gone = {}
    BY <1>4, <1>b DEF CommitExpense
  <2>2. /\ req[r].op \in Ops /\ req[r].payer \in People /\ req[r].amount \in Nat
        /\ req[r].shares \in Shares
        /\ Referred(r) = {req[r].payer} \union DOMAIN req[r].shares
    BY <1>0, <1>4 DEF CommitExpense, RequestState, Placed, Referred
  <2> QED
    BY <1>4, <2>1, <2>2 DEF CommitExpense, NewShares, Records
<1>5. CASE DeleteOperation(r)
  BY <1>5, <1>o DEF DeleteOperation, Erases, Recorded
<1>6. CASE StartParticipants(r)
  <2> PICK keep \in SUBSET members :
         req' = [req EXCEPT ![r] = [Idle EXCEPT !.kind = "participants", !.pc = "update",
                                                !.keep = keep, !.todo = members \ keep]]
    BY <1>6 DEF StartParticipants
  <2> DEFINE s == [Idle EXCEPT !.kind = "participants", !.pc = "update",
                               !.keep = keep, !.todo = members \ keep]
  <2>1. UNCHANGED rows /\ overlapped' \in BOOLEAN
    BY <1>6, <1>o DEF StartParticipants
  <2>2. s \in RequestState /\ Placed(s, created') /\ s.kind = "participants" /\ s.gone = {}
    BY IdleState DEF Idle, RequestState, Points, Placed
  <2>3. Moved(r) /\ req'[r] = s
    BY <1>a, <2>2
  <2> QED
    BY <2>1, <2>2, <2>3 DEF Rests, Referred, rows
\* To the next participant or to the commit, nothing else being changed.
<1>g. ASSUME NEW s \in RequestState, s.kind = "participants", s.added \subseteq created' \ Strangers, GoOn(r, s)
      PROVE  Moved(r) /\ req'[r].gone = s.gone /\ Referred(r)' = {}
  <2>1. CASE req' = [req EXCEPT ![r] = [s EXCEPT !.pc = "commit", !.next = None]]
    <3> DEFINE t == [s EXCEPT !.pc = "commit", !.next = None]
    <3>1. t \in RequestState /\ Placed(t, created') /\ t.kind = "participants" /\ t.gone = s.gone
      BY <1>g DEF RequestState, Points, Placed
    <3> QED
      BY <1>a, <2>1, <3>1 DEF Referred
  <2>2. ASSUME NEW p \in s.todo,
               req' = [req EXCEPT ![r] = [s EXCEPT !.pc = "count", !.next = p, !.todo = @ \ {p}]]
        PROVE  Moved(r) /\ req'[r].gone = s.gone /\ Referred(r)' = {}
    <3> DEFINE t == [s EXCEPT !.pc = "count", !.next = p, !.todo = @ \ {p}]
    <3>1. t \in RequestState /\ Placed(t, created') /\ t.kind = "participants" /\ t.gone = s.gone
      BY <1>g DEF RequestState, Points, Placed
    <3> QED
      BY <1>a, <2>2, <3>1 DEF Referred
  <2> QED
    BY <1>g, <2>1, <2>2 DEF GoOn
<1>7. CASE UpdateParticipants(r)
  <2>0. UNCHANGED <<members, payer, amount, shares, overlapped>>
    BY <1>7 DEF UpdateParticipants
  <2>1. CASE RollBack(r) /\ UNCHANGED created
    BY <1>c, <2>0, <2>1 DEF rows
  <2>2. ASSUME NEW new \in SUBSET (People \ created), GiveId(new),
               GoOn(r, [req[r] EXCEPT !.added = new])
        PROVE  Rests(r)
    <3>1. created' = created \union new
      BY <2>2 DEF GiveId
    <3> DEFINE s == [req[r] EXCEPT !.added = new]
    <3>2. s \in RequestState /\ s.kind = "participants" /\ s.gone = req[r].gone /\ s.added = new
      BY <1>0, <1>7 DEF UpdateParticipants, RequestState, Placed
    <3>3. Moved(r) /\ req'[r].gone = s.gone /\ Referred(r)' = {}
      BY <1>g, <2>2, <3>1, <3>2
    <3> QED
      BY <2>0, <3>1, <3>2, <3>3 DEF Rests
  <2> QED
    BY <1>7, <2>0, <2>1, <2>2 DEF UpdateParticipants
<1>8. CASE CountShares(r)
  <2>1. UNCHANGED rows /\ overlapped' \in BOOLEAN
    BY <1>8 DEF CountShares
  <2>2. CASE RollBack(r)
    BY <1>c, <2>1, <2>2
  <2>3. CASE req' = [req EXCEPT ![r].pc = "remove"]
    <3> DEFINE s == [req[r] EXCEPT !.pc = "remove"]
    <3>1. s \in RequestState /\ Placed(s, created') /\ s.kind = "participants" /\ s.gone = req[r].gone
      BY <1>0, <1>8, <2>1 DEF CountShares, RequestState, Points, Placed, rows
    <3>2. Moved(r) /\ req'[r] = s
      BY <1>a, <2>3, <3>1
    <3> QED
      BY <2>1, <3>1, <3>2 DEF Rests, Referred, rows
  <2> QED
    BY <1>8, <2>1, <2>2, <2>3 DEF CountShares
<1>9. CASE RemoveParticipant(r)
  <2> DEFINE p == req[r].next
  <2>1. UNCHANGED rows /\ overlapped' \in BOOLEAN
    BY <1>9 DEF RemoveParticipant
  <2>2. CASE RollBack(r)
    BY <1>c, <2>1, <2>2
  <2>3. CASE ~RollBack(r)
    <3> DEFINE s == [req[r] EXCEPT !.gone = @ \union {p}]
    <3>1. /\ req[r].pc = "remove" /\ p \in People
          /\ ~HasPaid(p) /\ GoOn(r, s)
          /\ \A q \in Others(r) : p \notin Referred(q)
      BY <1>0, <1>9, <2>3 DEF RemoveParticipant, Placed, CanDelete
    <3>2. /\ s \in RequestState /\ s.kind = "participants"
          /\ s.gone = req[r].gone \union {p} /\ s.added \subseteq created' \ Strangers
      BY <1>0, <2>1, <3>1 DEF RequestState, Placed, rows
    <3>3. Moved(r) /\ req'[r].gone = s.gone /\ Referred(r)' = {}
      BY <1>g, <3>1, <3>2
    <3> QED
      BY <2>1, <3>1, <3>2, <3>3 DEF Removes
  <2> QED
    BY <2>2, <2>3
<1>10. CASE CommitParticipants(r)
  <2>1. Moved(r) /\ Referred(r)' = {} /\ req'[r].gone = {}
    BY <1>10, <1>b DEF CommitParticipants
  <2>2. Referred(r) = {}
    BY <1>10 DEF CommitParticipants, Referred
  <2> QED
    BY <1>10, <2>1, <2>2 DEF CommitParticipants, Replaces
<1>11. CASE Abort(r)
  BY <1>11, <1>c DEF Abort
<1> QED
  BY <1>2, <1>3, <1>4, <1>5, <1>6, <1>7, <1>8, <1>9, <1>10, <1>11
  DEF CommitExpense, UpdateParticipants, CommitParticipants, Abort

-----------------------------------------------------------------------------
LEMMA WithoutIsShares ==
    ASSUME NEW f \in Shares, NEW S
    PROVE  Without(f, S) \in Shares /\ DOMAIN Without(f, S) = DOMAIN f \ S
<1> PICK T \in SUBSET People : f \in [T -> Nat]
  BY DEF Shares
<1>1. Without(f, S) \in [T \ S -> Nat]
  BY DEF Without
<1>2. T \ S \in SUBSET People
  OBVIOUS
<1> QED
  BY <1>1, <1>2 DEF Shares, Without

LEMMA ShapeStep == Shape /\ [Next]_vars => Shape'
<1> SUFFICES ASSUME Shape, [Next]_vars PROVE Shape'
  OBVIOUS
<1> USE DEF Shape
<1>m. ASSUME NEW r \in Requests, Moved(r), created \subseteq created'
      PROVE  req' \in [Requests -> RequestState] /\ \A q \in Requests : Placed(req'[q], created')
  BY <1>m DEF Moved, Others, Placed
<1>1. CASE UNCHANGED vars
  BY <1>1 DEF vars, rows
<1>2. ASSUME NEW r \in Requests, overlapped' \in BOOLEAN, Rests(r) \/ Refers(r) \/ Removes(r)
      PROVE  Shape'
  BY <1>2, <1>m DEF Rests, Refers, Removes, rows
<1>3. ASSUME NEW r \in Requests, overlapped' \in BOOLEAN, Records(r) PROVE Shape'
  BY <1>3, <1>m DEF Records
<1>4. ASSUME NEW r \in Requests, overlapped' \in BOOLEAN, Erases(r) PROVE Shape'
  BY <1>4, NoSharesIsOne DEF Erases
<1>5. ASSUME NEW r \in Requests, overlapped' \in BOOLEAN, Replaces(r) PROVE Shape'
  <2>1. req[r].added \subseteq created \ Strangers
    BY DEF Placed
  <2>2. members' \union Strangers \subseteq created' /\ members' \intersect Strangers = {}
    BY <1>5, <2>1 DEF Replaces
  <2>3. shares' \in [Ops -> Shares]
    BY <1>5, WithoutIsShares DEF Replaces
  <2> QED
    BY <1>5, <1>m, <2>2, <2>3 DEF Replaces
<1> QED
  BY <1>1, <1>2, <1>3, <1>4, <1>5, LedgerSteps

LEMMA ReferencesStep ==
    ASSUME LedgerInv, [Next]_vars
    PROVE  ReferredStay' /\ GonePaidNothing' /\ ReferencesStand'
<1>0. Shape /\ ReferredStay /\ GonePaidNothing /\ ReferencesStand
  BY DEF LedgerInv
<1> DEFINE Goal == ReferredStay /\ GonePaidNothing /\ ReferencesStand
<1> USE DEF Others, HasPaid, Recorded, Participants
<1>m. ASSUME NEW r \in Requests, Moved(r)
      PROVE  \A q \in Requests : q # r => req'[q] = req[q] /\ Referred(q)' = Referred(q)
  BY <1>m DEF Moved, Referred
<1>1. CASE UNCHANGED vars
  BY <1>0, <1>1 DEF vars, rows, ReferredStay, GonePaidNothing, ReferencesStand, Referred
<1>2. ASSUME NEW r \in Requests, Rests(r) PROVE Goal'
  BY <1>0, <1>2, <1>m DEF Rests, ReferredStay, GonePaidNothing, ReferencesStand
<1>3. ASSUME NEW r \in Requests, Refers(r) PROVE Goal'
  BY <1>0, <1>3, <1>m DEF Refers, CanRefer, rows, ReferredStay, GonePaidNothing,
     ReferencesStand
<1>4. ASSUME NEW r \in Requests, Removes(r) PROVE Goal'
  BY <1>0, <1>4, <1>m DEF Removes, rows, ReferredStay, GonePaidNothing, ReferencesStand
<1>5. ASSUME NEW r \in Requests, Records(r) PROVE Goal'
  <2>0. /\ \A o \in Ops : /\ payer'[o] = IF o = req[r].op THEN req[r].payer ELSE payer[o]
                          /\ shares'[o] = IF o = req[r].op THEN req[r].shares ELSE shares[o]
        /\ members' = members /\ Referred(r) = {req[r].payer} \union DOMAIN req[r].shares
        /\ Referred(r)' = {} /\ req'[r].gone = {}
    BY <1>0, <1>5 DEF Records, Shape
  <2>1. ReferredStay'
    BY <1>0, <1>5, <1>m, <2>0 DEF Records, ReferredStay
  \* Nobody is deleting the payer.
  <2>2. GonePaidNothing'
    BY <1>0, <1>5, <1>m, <2>0 DEF Records, ReferredStay, GonePaidNothing
  <2>3. ReferencesStand'
    BY <1>0, <2>0 DEF ReferredStay, ReferencesStand
  <2> QED
    BY <2>1, <2>2, <2>3
<1>6. ASSUME NEW r \in Requests, Erases(r) PROVE Goal'
  <2> PICK o \in Ops : /\ payer' = [payer EXCEPT ![o] = None]
                       /\ shares' = [shares EXCEPT ![o] = NoShares]
    BY <1>6 DEF Erases
  <2>0. \A i \in Ops : /\ payer'[i] = IF i = o THEN None ELSE payer[i]
                       /\ i # o => shares'[i] = shares[i]
    BY <1>0 DEF Shape
  <2>1. members' = members /\ req' = req
    BY <1>6 DEF Erases
  <2>2. \A p \in People : ~HasPaid(p) => ~HasPaid(p)'
    BY <2>0, InputsAssumption
  <2>3. \A q \in Requests : req[q].gone \subseteq People
    BY <1>0 DEF Shape, RequestState
  <2>4. ReferredStay' /\ GonePaidNothing'
    BY <1>0, <2>1, <2>2, <2>3 DEF ReferredStay, GonePaidNothing, Referred
  <2>5. ReferencesStand'
    BY <1>0, <2>0, <2>1 DEF ReferencesStand
  <2> QED
    BY <2>4, <2>5
<1>7. ASSUME NEW r \in Requests, Replaces(r) PROVE Goal'
  <2>0. /\ payer' = payer /\ Referred(r)' = {} /\ req'[r].gone = {}
        /\ members \ req[r].gone \subseteq members'
        /\ \A o \in Ops : DOMAIN shares'[o] = DOMAIN shares[o] \ req[r].gone
    BY <1>0, <1>7, WithoutIsShares DEF Replaces, Shape
  <2>1. ReferredStay'
    BY <1>0, <1>7, <1>m, <2>0 DEF Replaces, ReferredStay
  <2>2. GonePaidNothing'
    BY <1>0, <1>7, <1>m, <2>0 DEF Replaces, GonePaidNothing
  \* Those who leave have paid nothing, and their shares go with them.
  <2>3. ReferencesStand'
    BY <1>0, <2>0 DEF GonePaidNothing, ReferencesStand
  <2> QED
    BY <2>1, <2>2, <2>3
<1> QED
  BY <1>0, <1>1, <1>2, <1>3, <1>4, <1>5, <1>6, <1>7, LedgerSteps

LEMMA LedgerInvariant == Spec => []LedgerInv
<1>1. Init => LedgerInv
  <2> SUFFICES ASSUME Init PROVE LedgerInv
    OBVIOUS
  <2>1. Shape
    BY IdleState, NoSharesIsOne, InputsAssumption DEF Init, Shape
  <2>2. ReferredStay /\ GonePaidNothing /\ ReferencesStand
    BY DEF Init, Idle, ReferredStay, Referred, GonePaidNothing, ReferencesStand, Recorded
  <2> QED
    BY <2>1, <2>2 DEF LedgerInv
<1>2. LedgerInv /\ [Next]_vars => LedgerInv'
  BY ShapeStep, ReferencesStep DEF LedgerInv
<1> QED
  BY <1>1, <1>2, PTL DEF Spec

-----------------------------------------------------------------------------
\* The tables and the requests keep their types, and members have ids given to them.
THEOREM TypeCorrect == Spec => []TypeOK
<1>1. LedgerInv => TypeOK
  BY DEF LedgerInv, Shape, TypeOK, RequestState, Idle, Shares
<1> QED
  BY <1>1, LedgerInvariant, PTL

\* Every payer and every holder of a share has a row of participant, in this project or
\* in another one: balances miss nobody who left, however requests interleave.
THEOREM NoReferenceDangles == Spec => []ReferencesStand
<1>1. LedgerInv => ReferencesStand
  BY DEF LedgerInv
<1> QED
  BY <1>1, LedgerInvariant, PTL

\* Nobody who has paid leaves, whatever was recorded since the participants were
\* read and since the payers were checked.
THEOREM NoPayerLeaves == Spec => PayersStay
<1> DEFINE Stay == \A p \in members \ members' : ~HasPaid(p)
<1>1. LedgerInv /\ [Next]_vars => [Stay]_vars
  <2> SUFFICES ASSUME LedgerInv, [Next]_vars PROVE Stay
    OBVIOUS
  <2>1. CASE members' = members
    BY <2>1
  <2>2. ASSUME NEW r \in Requests, Replaces(r) PROVE Stay
    BY <2>2 DEF Replaces, LedgerInv, GonePaidNothing
  <2> QED
    BY <2>1, <2>2, LedgerSteps
    DEF LedgerInv, vars, rows, Rests, Refers, Removes, Records, Erases
<1> QED
  BY <1>1, LedgerInvariant, PTL DEF Spec, PayersStay

-----------------------------------------------------------------------------
(* The shares of an expense and its amount. *)

\* What a client has to see to; the server does not check it.
SharesFit   == \A e \in Expenses : SumFunction(e.shares) <= e.amount
SharesAddUp == \A e \in Expenses : SumFunction(e.shares) = e.amount

ShareSum(f) == Sum(f, DOMAIN f)

LEMMA SharesDomain ==
    ASSUME NEW f \in Shares
    PROVE  /\ IsFiniteSet(DOMAIN f) /\ DOMAIN f \subseteq People
           /\ \A p \in DOMAIN f : f[p] \in Nat
           /\ ShareSum(f) = SumFunction(f) /\ ShareSum(f) \in Int
<1> PICK T \in SUBSET People : f \in [T -> Nat]
  BY DEF Shares
<1>1. IsFiniteSet(DOMAIN f) /\ \A p \in DOMAIN f : f[p] \in Int
  BY InputsAssumption, FS_Subset
<1>2. ShareSum(f) \in Int
  BY <1>1, SumType DEF ShareSum
<1>3. ShareSum(f) = SumFunction(f)
  BY Zenon DEF ShareSum, SumFunction, Sum
<1> QED
  BY <1>1, <1>2, <1>3

LEMMA WithoutIsLess ==
    ASSUME NEW f \in Shares, NEW S
    PROVE  /\ ShareSum(Without(f, S)) <= ShareSum(f)
           /\ DOMAIN f \intersect S = {} => ShareSum(Without(f, S)) = ShareSum(f)
<1> DEFINE T == DOMAIN f \ S
           g == Without(f, S)
<1>1. DOMAIN g = T /\ \A p \in T : g[p] = f[p] /\ f[p] \in Int
  BY SharesDomain DEF Without
<1>2. IsFiniteSet(DOMAIN f) /\ T \in SUBSET (DOMAIN f) /\ IsFiniteSet(T)
  BY SharesDomain, FS_Difference
<1>3. Sum(g, T) = Sum(f, T)
  <2> HIDE DEF T, g
  <2> QED
    BY <1>1, <1>2, SumSame
<1>4. Sum(f, T) <= Sum(f, DOMAIN f)
  <2> HIDE DEF T
  <2> QED
    BY <1>2, SharesDomain, SumPartLess
<1>5. DOMAIN f \intersect S = {} => Sum(f, T) = Sum(f, DOMAIN f)
  <2>1. DOMAIN f \intersect S = {} => T = DOMAIN f
    OBVIOUS
  <2> QED
    BY <2>1, Zenon
<1>6. ShareSum(g) = Sum(f, T)
  <2>1. ShareSum(g) = Sum(g, T)
    BY <1>1, Zenon DEF ShareSum
  <2> QED
    BY <1>3, <2>1
<1> HIDE DEF T, g
<1> QED
  BY <1>4, <1>5, <1>6 DEF g, ShareSum

\* The shares recorded never outgrow the amounts.
WithinInv == \A o \in Recorded : ShareSum(shares[o]) <= amount[o]

LEMMA WithinStep ==
    ASSUME SharesFit, LedgerInv, WithinInv, [Next]_vars
    PROVE  WithinInv'
<1> USE DEF LedgerInv, Shape
<1> SUFFICES ASSUME NEW o \in Ops, payer'[o] # None
             PROVE  ShareSum(shares'[o]) <= amount'[o]
  BY DEF WithinInv, Recorded
<1>0. payer[o] # None => ShareSum(shares[o]) <= amount[o]
  BY DEF WithinInv, Recorded
<1>1. CASE UNCHANGED <<payer, amount, shares>>
  BY <1>0, <1>1
<1>2. ASSUME NEW r \in Requests, Records(r)
      PROVE  ShareSum(shares'[o]) <= amount'[o]
  <2>1. CASE o = req[r].op
    <3>1. req[r].kind \in {"create", "update"}
      BY <1>2 DEF Records, Referred
    <3>2. PICK e \in Expenses : req[r].amount = e.amount /\ req[r].shares = e.shares
      BY <3>1 DEF Placed
    <3>3. ShareSum(e.shares) <= e.amount
      BY <1>2, <3>2, SharesDomain DEF SharesFit, Records
    <3>4. shares'[o] = e.shares /\ amount'[o] = e.amount
      BY <1>2, <2>1, <3>2 DEF Records
    <3> QED
      BY <3>3, <3>4
  <2>2. CASE o # req[r].op
    BY <1>0, <1>2, <2>2 DEF Records
  <2> QED
    BY <2>1, <2>2
<1>3. ASSUME NEW r \in Requests, Erases(r)
      PROVE  ShareSum(shares'[o]) <= amount'[o]
  BY <1>0, <1>3 DEF Erases
<1>4. ASSUME NEW r \in Requests, Replaces(r)
      PROVE  ShareSum(shares'[o]) <= amount'[o]
  <2>1. /\ amount'[o] = amount[o] /\ amount[o] \in Nat /\ payer[o] # None
        /\ shares'[o] = Without(shares[o], req[r].gone) /\ shares[o] \in Shares
    BY <1>4 DEF Replaces
  <2>2. ShareSum(shares[o]) \in Int /\ ShareSum(shares'[o]) \in Int
    BY <2>1, SharesDomain, WithoutIsShares
  <2> QED
    BY <1>0, <2>1, <2>2, WithoutIsLess
<1> QED
  BY <1>1, <1>2, <1>3, <1>4, LedgerSteps DEF vars, rows, Rests, Refers, Removes

\* As long as clients send shares that do not exceed the amount, those recorded do
\* not either: an update replaces all of the old ones, however updates interleave.
THEOREM SharesNeverOutgrow == ASSUME SharesFit PROVE Spec => []SharesWithinAmount
<1>1. Init => WithinInv
  BY DEF Init, WithinInv, Recorded
<1>2. LedgerInv /\ WithinInv /\ [Next]_vars => WithinInv'
  BY WithinStep
<1>3. LedgerInv /\ WithinInv => SharesWithinAmount
  BY SharesDomain DEF LedgerInv, Shape, WithinInv, SharesWithinAmount, Recorded
<1> QED
  BY <1>1, <1>2, <1>3, LedgerInvariant, PTL DEF Spec

-----------------------------------------------------------------------------
(* The balances, as long as requests come one after the other. *)

InTransit(r) == req[r].pc # "idle"

Alone == \A q, r \in Requests : InTransit(q) /\ InTransit(r) => q = r

\* Whom a transaction is removing has no share: nobody has recorded one since.
Counted(r) == /\ req[r].pc = "remove" => ~HasShare(req[r].next)
              /\ \A p \in req[r].gone : ~HasShare(p)

AddsUp == \A o \in Recorded : ShareSum(shares[o]) = amount[o]

SerialInv == ~overlapped => Alone /\ AddsUp /\ \A r \in Requests : InTransit(r) => Counted(r)

LEMMA SerialQuiet ==
    ASSUME Alone, AddsUp, NEW r \in Requests, InTransit(r),
           UNCHANGED <<payer, amount, shares>>,
           \A q \in Requests : q # r => req'[q] = req[q],
           InTransit(r)' => Counted(r)'
    PROVE  SerialInv'
<1>1. AddsUp' = AddsUp
  BY DEF AddsUp, Recorded
<1>2. \A q \in Requests : InTransit(q)' => q = r
  BY DEF Alone, InTransit
<1> QED
  BY <1>1, <1>2 DEF SerialInv, Alone

LEMMA SerialStep ==
    ASSUME SharesAddUp, LedgerInv, SerialInv, [Next]_vars
    PROVE  SerialInv'
<1> SUFFICES ASSUME ~overlapped'
             PROVE  SerialInv'
  BY DEF SerialInv
<1> USE DEF LedgerInv, Shape
<1>1. CASE UNCHANGED vars
  BY <1>1 DEF vars, rows, SerialInv, Alone, InTransit, AddsUp, Recorded, Counted, HasShare
<1>2. ASSUME NEW r \in Requests,
             \/ StartCreate(r) \/ StartUpdate(r) \/ WriteExpense(r) \/ CommitExpense(r)
             \/ DeleteOperation(r) \/ StartParticipants(r) \/ UpdateParticipants(r)
             \/ CountShares(r) \/ RemoveParticipant(r) \/ CommitParticipants(r) \/ Abort(r)
      PROVE  SerialInv'
  <2>0. req[r] \in RequestState /\ Placed(req[r], created)
    OBVIOUS
  <2>a. Arrival => ~overlapped /\ \A q \in Requests : ~InTransit(q)
    BY DEF Arrival, InFlight, InTransit
  \* An arrival.
  <2>b. ASSUME NEW s, req' = [req EXCEPT ![r] = s], s.pc # "remove", s.gone = {}, Arrival,
               UNCHANGED rows
        PROVE  SerialInv'
    <3>1. \A q \in Requests : InTransit(q)' => q = r
      BY <2>a, <2>b DEF InTransit
    <3>2. Counted(r)'
      BY <2>b DEF Counted
    <3>3. AddsUp'
      BY <2>a, <2>b DEF SerialInv, AddsUp, Recorded, rows
    <3> QED
      BY <3>1, <3>2, <3>3 DEF SerialInv, Alone
  \* A statement.
  <2>c. ASSUME UNCHANGED <<payer, amount, shares, overlapped>>, InTransit(r),
               NEW s, req' = [req EXCEPT ![r] = s],
               Counted(r) /\ s.pc # "idle" => /\ s.pc = "remove" => ~HasShare(s.next)
                                             /\ \A p \in s.gone : ~HasShare(p)
        PROVE  SerialInv'
    <3>1. Alone /\ AddsUp /\ Counted(r)
      BY <2>c DEF SerialInv
    <3>2. req'[r] = s /\ \A q \in Requests : q # r => req'[q] = req[q]
      BY <2>c
    <3>3. \A p : HasShare(p)' = HasShare(p)
      BY <2>c DEF HasShare, Recorded
    <3>4. InTransit(r)' => Counted(r)'
      BY <2>c, <3>1, <3>2, <3>3 DEF InTransit, Counted
    <3> QED
      BY <2>c, <3>1, <3>2, <3>4, SerialQuiet
  <2>d. ASSUME RollBack(r), UNCHANGED <<payer, amount, shares, overlapped>>, InTransit(r)
        PROVE  SerialInv'
    BY <2>c, <2>d DEF RollBack, Finish, Idle
  <2>e. ASSUME NEW s \in RequestState, GoOn(r, s), InTransit(r),
               UNCHANGED <<payer, amount, shares, overlapped>>,
               Counted(r) => \A p \in s.gone : ~HasShare(p)
        PROVE  SerialInv'
    <3>1. CASE req' = [req EXCEPT ![r] = [s EXCEPT !.pc = "commit", !.next = None]]
      <4> DEFINE t == [s EXCEPT !.pc = "commit", !.next = None]
      <4>1. t.pc = "commit" /\ t.gone = s.gone
        BY DEF RequestState
      <4> HIDE DEF t
      <4> QED
        BY <2>c, <2>e, <3>1, <4>1 DEF t
    <3>2. ASSUME NEW p \in s.todo,
                 req' = [req EXCEPT ![r] = [s EXCEPT !.pc = "count", !.next = p,
                                                    !.todo = @ \ {p}]]
          PROVE  SerialInv'
      <4> DEFINE t == [s EXCEPT !.pc = "count", !.next = p, !.todo = @ \ {p}]
      <4>1. t.pc = "count" /\ t.gone = s.gone
        BY DEF RequestState
      <4> HIDE DEF t
      <4> QED
        BY <2>c, <2>e, <3>2, <4>1 DEF t
    <3> QED
      BY <2>e, <3>1, <3>2 DEF GoOn
  \* The end of a transaction that has written.
  <2>f. ASSUME Finish(r), InTransit(r), UNCHANGED overlapped, AddsUp'
        PROVE  SerialInv'
    <3>1. Alone
      BY <2>f DEF SerialInv
    <3>2. \A q \in Requests : ~InTransit(q)'
      BY <2>f, <3>1 DEF Finish, Idle, Alone, InTransit
    <3> QED
      BY <2>f, <3>2 DEF SerialInv, Alone
  <2>1. ASSUME NEW kind \in {"create", "update"}, NEW o \in Ops, StartExpense(r, kind, o)
        PROVE  SerialInv'
    <3> PICK e \in Expenses :
           req' = [req EXCEPT ![r] = [Idle EXCEPT !.kind = kind, !.pc = "write", !.op = o,
                                                  !.payer = e.payer, !.amount = e.amount,
                                                  !.shares = e.shares]]
      BY <2>1 DEF StartExpense
    <3> DEFINE s == [Idle EXCEPT !.kind = kind, !.pc = "write", !.op = o, !.payer = e.payer,
                                 !.amount = e.amount, !.shares = e.shares]
    <3>1. s.pc = "write" /\ s.gone = {}
      BY DEF Idle
    <3> HIDE DEF s
    <3> QED
      BY <2>1, <2>b, <3>1 DEF StartExpense, s
  <2>2. CASE StartCreate(r) \/ StartUpdate(r)
    BY <2>1, <2>2 DEF StartCreate, StartUpdate, Recorded
  <2>3. CASE WriteExpense(r)
    <3>1. UNCHANGED <<payer, amount, shares, overlapped>> /\ InTransit(r)
      BY <2>3 DEF WriteExpense, rows, InTransit
    <3>2. CASE req' = [req EXCEPT ![r].pc = "commit"]
      <4> DEFINE s == [req[r] EXCEPT !.pc = "commit"]
      <4>1. s.pc = "commit" /\ s.gone = req[r].gone /\ req' = [req EXCEPT ![r] = s]
        BY <2>0, <3>2 DEF RequestState
      <4> HIDE DEF s
      <4> QED
        BY <2>c, <3>1, <4>1 DEF Counted
    <3> QED
      BY <2>3, <2>d, <3>1, <3>2 DEF WriteExpense
  <2>4. CASE CommitExpense(r)
    <3>1. InTransit(r) /\ Finish(r) /\ UNCHANGED overlapped
      BY <2>4 DEF CommitExpense, InTransit
    <3>2. /\ req[r].op \in Ops /\ req[r].shares \in Shares
          /\ ShareSum(req[r].shares) = req[r].amount
      <4>1. req[r].kind \in {"create", "update"} /\ req[r].shares \in Shares
        BY <2>0, <2>4 DEF CommitExpense, RequestState
      <4> QED
        BY <2>0, <4>1, SharesDomain DEF Placed, SharesAddUp
    <3>3. ASSUME NEW o \in Ops, payer'[o] # None
          PROVE  ShareSum(shares'[o]) = amount'[o]
      <4>1. CASE o = req[r].op
        <5>1. shares'[o] = req[r].shares /\ amount'[o] = req[r].amount
          BY <2>4, <3>2, <4>1 DEF CommitExpense, NewShares
        <5> QED
          BY <3>2, <5>1
      <4>2. CASE o # req[r].op
        <5>1. /\ payer'[o] = payer[o] /\ shares'[o] = shares[o] /\ amount'[o] = amount[o]
          BY <2>4, <4>2 DEF CommitExpense
        <5> QED
          BY <3>1, <3>3, <5>1 DEF SerialInv, AddsUp, Recorded
      <4> QED
        BY <4>1, <4>2
    <3>4. AddsUp'
      BY <3>3 DEF AddsUp, Recorded
    <3> QED
      BY <2>f, <3>1, <3>4
  <2>5. CASE DeleteOperation(r)
    <3> PICK o \in Ops : /\ payer' = [payer EXCEPT ![o] = None]
                         /\ amount' = [amount EXCEPT ![o] = 0]
                         /\ shares' = [shares EXCEPT ![o] = NoShares]
      BY <2>5 DEF DeleteOperation, Recorded
    <3>1. ~overlapped /\ \A q \in Requests : ~InTransit(q)'
      BY <2>5, <2>a DEF DeleteOperation, InTransit
    <3>2. AddsUp'
      BY <3>1 DEF SerialInv, AddsUp, Recorded
    <3> QED
      BY <3>1, <3>2 DEF SerialInv, Alone
  <2>6. CASE StartParticipants(r)
    <3> PICK keep \in SUBSET members :
           req' = [req EXCEPT ![r] = [Idle EXCEPT !.kind = "participants", !.pc = "update",
                                                  !.keep = keep, !.todo = members \ keep]]
      BY <2>6 DEF StartParticipants
    <3> DEFINE s == [Idle EXCEPT !.kind = "participants", !.pc = "update",
                                 !.keep = keep, !.todo = members \ keep]
    <3>1. s.pc = "update" /\ s.gone = {}
      BY DEF Idle
    <3> HIDE DEF s
    <3> QED
      BY <2>6, <2>b, <3>1 DEF StartParticipants, s
  <2>7. CASE UpdateParticipants(r)
    <3>1. UNCHANGED <<payer, amount, shares, overlapped>> /\ InTransit(r)
      BY <2>7 DEF UpdateParticipants, InTransit
    <3>2. ASSUME NEW new \in SUBSET (People \ created), GoOn(r, [req[r] EXCEPT !.added = new])
          PROVE  SerialInv'
      <4> DEFINE s == [req[r] EXCEPT !.added = new]
      <4>1. s \in RequestState /\ s.gone = req[r].gone
        BY <2>0 DEF RequestState
      <4> HIDE DEF s
      <4> QED
        BY <2>e, <3>1, <3>2, <4>1 DEF s, Counted
    <3> QED
      BY <2>7, <2>d, <3>1, <3>2 DEF UpdateParticipants
  <2>8. CASE CountShares(r)
    <3>1. UNCHANGED <<payer, amount, shares, overlapped>> /\ InTransit(r)
      BY <2>8 DEF CountShares, rows, InTransit
    <3>2. CASE ~HasShare(req[r].next) /\ req' = [req EXCEPT ![r].pc = "remove"]
      <4> DEFINE s == [req[r] EXCEPT !.pc = "remove"]
      <4>1. s.next = req[r].next /\ s.gone = req[r].gone /\ req' = [req EXCEPT ![r] = s]
        BY <2>0, <3>2 DEF RequestState
      <4> HIDE DEF s
      <4> QED
        BY <2>c, <3>1, <3>2, <4>1 DEF Counted
    <3> QED
      BY <2>8, <2>d, <3>1, <3>2 DEF CountShares
  <2>9. CASE RemoveParticipant(r)
    <3> DEFINE s == [req[r] EXCEPT !.gone = @ \union {req[r].next}]
    <3>1. UNCHANGED <<payer, amount, shares, overlapped>> /\ InTransit(r) /\ req[r].pc = "remove"
      BY <2>9 DEF RemoveParticipant, rows, InTransit
    <3>2. CASE GoOn(r, s)
      <4>1. s \in RequestState /\ s.gone = req[r].gone \union {req[r].next}
        BY <2>0, <3>1 DEF RequestState, Placed
      <4> HIDE DEF s
      <4> QED
        BY <2>e, <3>1, <3>2, <4>1 DEF Counted
    <3> QED
      BY <2>9, <2>d, <3>1, <3>2 DEF RemoveParticipant
  <2>10. CASE CommitParticipants(r)
    <3>1. InTransit(r) /\ Finish(r) /\ UNCHANGED <<payer, amount, overlapped>>
      BY <2>10 DEF CommitParticipants, InTransit
    <3>2. Counted(r) /\ AddsUp
      BY <3>1 DEF SerialInv
    <3>3. ASSUME NEW o \in Recorded
          PROVE  ShareSum(shares'[o]) = amount[o]
      <4>1. DOMAIN shares[o] \intersect req[r].gone = {}
        BY <3>2 DEF Counted, HasShare
      <4>2. shares[o] \in Shares /\ shares'[o] = Without(shares[o], req[r].gone)
        BY <2>10 DEF CommitParticipants, Recorded
      <4> QED
        BY <3>2, <4>1, <4>2, WithoutIsLess DEF AddsUp
    <3>4. AddsUp'
      BY <3>1, <3>3 DEF AddsUp, Recorded
    <3> QED
      BY <2>f, <3>1, <3>4
  <2>11. CASE Abort(r)
    BY <2>11, <2>d DEF Abort, rows, InTransit
  <2> QED
    BY <1>2, <2>2, <2>3, <2>4, <2>5, <2>6, <2>7, <2>8, <2>9, <2>10, <2>11
<1> QED
  BY <1>1, <1>2 DEF Next

\* What a person has paid and owes, expense by expense.
PaidIn(p, o) == IF payer[o] = p THEN amount[o] ELSE 0
OwedIn(p, o) == IF o \in Recorded /\ p \in DOMAIN shares[o] THEN shares[o][p] ELSE 0
Due(p, o)    == PaidIn(p, o) - OwedIn(p, o)

LEMMA DueTypes ==
    ASSUME Shape, NEW p \in People, NEW o \in Ops
    PROVE  PaidIn(p, o) \in Int /\ OwedIn(p, o) \in Int /\ Due(p, o) \in Int
<1>1. PaidIn(p, o) \in Int
  BY DEF Shape, PaidIn
<1>2. OwedIn(p, o) \in Int
  <2>1. shares[o] \in Shares
    BY DEF Shape
  <2> QED
    BY <2>1, SharesDomain DEF OwedIn
<1> QED
  BY <1>1, <1>2 DEF Due

\* What a person has paid and owes is what is due for every expense.
LEMMA DueByExpense ==
    ASSUME Shape, NEW p \in People
    PROVE  /\ Paid(p) - Owed(p) = Sum([o \in Ops |-> Due(p, o)], Ops)
           /\ Paid(p) - Owed(p) \in Int
<1> DEFINE u == [o \in Ops |-> Due(p, o)]
           v == [o \in Ops |-> PaidIn(p, o)]
           w == [o \in Ops |-> OwedIn(p, o)]
           P == {o \in Recorded : payer[o] = p}
           H == {o \in Recorded : p \in DOMAIN shares[o]}
           g == [o \in H |-> shares[o][p]]
<1>0. IsFiniteSet(Ops) /\ P \in SUBSET Ops /\ H \in SUBSET Ops
  BY InputsAssumption DEF Recorded
<1>1. Sum(v, Ops) = Paid(p)
  <2>1. \A o \in Ops : v[o] \in Int /\ v[o] = IF o \in P THEN amount[o] ELSE 0
    BY DueTypes, InputsAssumption DEF PaidIn, Recorded
  <2>2. Sum(v, Ops) = Sum(amount, P)
    <3> HIDE DEF v, P
    <3> QED
      BY <1>0, <2>1, SumPart
  <2> QED
    BY <2>2 DEF Paid, Sum
<1>2. Sum(w, Ops) = Owed(p)
  <2>1. \A o \in Ops : w[o] \in Int /\ w[o] = IF o \in H THEN g[o] ELSE 0
    BY DueTypes DEF OwedIn
  <2>2. Sum(w, Ops) = Sum(g, H)
    <3> HIDE DEF w, H, g
    <3> QED
      BY <1>0, <2>1, SumPart
  <2>3. Owed(p) = SumFunctionOnSet(g, DOMAIN g)
    BY DEF Owed, SumFunction
  <2>4. DOMAIN g = H
    OBVIOUS
  <2> HIDE DEF g, H
  <2> QED
    BY <2>2, <2>3, <2>4 DEF Sum
<1>3. /\ \A o \in Ops : v[o] \in Int /\ w[o] \in Int /\ u[o] \in Int /\ v[o] = u[o] + w[o]
  BY DueTypes DEF Due
<1>4. Sum(v, Ops) = Sum(u, Ops) + Sum(w, Ops)
  <2> HIDE DEF u, v, w
  <2> QED
    BY <1>0, <1>3, SumPlus
<1>5. Sum(u, Ops) \in Int /\ Sum(w, Ops) \in Int
  <2> HIDE DEF u, v, w
  <2> QED
    BY <1>0, <1>3, SumType
<1> DEFINE x == Sum(u, Ops)
           y == Sum(w, Ops)
<1>6. x \in Int /\ y \in Int
  BY <1>5
<1>7. Paid(p) - Owed(p) = (x + y) - y
  <2> HIDE DEF u, v, w
  <2> QED
    BY <1>1, <1>2, <1>4, Zenon
<1> HIDE DEF x, y
<1>8. (x + y) - y = x
  BY <1>6
<1> QED
  BY <1>6, <1>7, <1>8 DEF x

\* What the shares of an expense take is what its payer gave.
LEMMA ExpenseEvensOut ==
    ASSUME Shape, AddsUp, NEW o \in Ops
    PROVE  Sum([p \in People |-> Due(p, o)], People) = 0
<1> DEFINE u == [p \in People |-> Due(p, o)]
           v == [p \in People |-> PaidIn(p, o)]
           w == [p \in People |-> OwedIn(p, o)]
<1>0. IsFiniteSet(People)
  BY InputsAssumption
<1>1. CASE o \notin Recorded
  <2>1. \A p \in People : u[p] = 0
    BY <1>1, InputsAssumption DEF Due, PaidIn, OwedIn, Recorded
  <2> HIDE DEF u
  <2> QED
    BY <1>0, <2>1, SumZero DEF u
<1>2. CASE o \in Recorded
  <2>1. /\ payer[o] \in People /\ amount[o] \in Nat /\ shares[o] \in Shares
        /\ ShareSum(shares[o]) = amount[o]
    BY <1>2 DEF Shape, Recorded, AddsUp
  <2>2. Sum(v, People) = amount[o]
    <3> DEFINE a == [p \in People |-> amount[o]]
               T == {payer[o]}
    <3>1. T \in SUBSET People /\ \A p \in People : v[p] \in Int /\ v[p] = IF p \in T THEN a[p] ELSE 0
      BY <2>1, DueTypes DEF PaidIn
    <3>2. Sum(v, People) = Sum(a, T)
      <4> HIDE DEF v, a, T
      <4> QED
        BY <1>0, <3>1, SumPart
    <3>3. a[payer[o]] = amount[o] /\ amount[o] \in Int
      BY <2>1
    <3>4. Sum(a, T) = amount[o]
      <4>1. ASSUME NEW x, a[x] = amount[o]
            PROVE  Sum(a, {x}) = amount[o]
        <5> HIDE DEF a
        <5> QED
          BY <3>3, <4>1, SumSingle
      <4> HIDE DEF a
      <4> QED
        BY <3>3, <4>1
    <3> QED
      BY <3>2, <3>4
  <2>3. Sum(w, People) = amount[o]
    <3> DEFINE f == shares[o]
    <3>1. /\ DOMAIN f \in SUBSET People
          /\ \A p \in People : w[p] \in Int /\ w[p] = IF p \in DOMAIN f THEN f[p] ELSE 0
      BY <1>2, <2>1, DueTypes, SharesDomain DEF OwedIn
    <3>2. Sum(w, People) = Sum(f, DOMAIN f)
      <4> HIDE DEF w, f
      <4> QED
        BY <1>0, <3>1, SumPart
    <3> QED
      BY <2>1, <3>2 DEF ShareSum
  <2>4. \A p \in People : v[p] \in Int /\ w[p] \in Int /\ u[p] \in Int /\ v[p] = u[p] + w[p]
    BY DueTypes DEF Due
  <2>5. Sum(v, People) = Sum(u, People) + Sum(w, People)
    <3> HIDE DEF u, v, w
    <3> QED
      BY <1>0, <2>4, SumPlus
  <2>6. Sum(u, People) \in Int
    <3> HIDE DEF u, v, w
    <3> QED
      BY <1>0, <2>4, SumType
  <2>7. Sum(u, People) = 0
    <3> HIDE DEF u, v, w
    <3> QED
      BY <2>1, <2>2, <2>3, <2>5, <2>6
  <2> QED
    BY <2>7
<1> QED
  BY <1>1, <1>2

\* All that was paid was for somebody.
LEMMA DuesEvenOut ==
    ASSUME Shape, AddsUp
    PROVE  Sum([p \in People |-> Paid(p) - Owed(p)], People) = 0
<1> DEFINE m == [p \in People |-> [o \in Ops |-> Due(p, o)]]
           b == [p \in People |-> Sum([o \in Ops |-> m[p][o]], Ops)]
           e == [o \in Ops |-> Sum([p \in People |-> m[p][o]], People)]
<1>0. IsFiniteSet(People) /\ IsFiniteSet(Ops)
  BY InputsAssumption
<1>1. \A p \in People, o \in Ops : m[p][o] = Due(p, o) /\ m[p][o] \in Int
  BY DueTypes
<1>2. Sum(b, People) = Sum(e, Ops)
  <2> HIDE DEF m
  <2> QED
    BY <1>0, <1>1, SumExchange
<1>3. Sum(e, Ops) = 0
  <2>1. ASSUME NEW o \in Ops
        PROVE  e[o] = 0
    <3>1. [p \in People |-> m[p][o]] = [p \in People |-> Due(p, o)]
      OBVIOUS
    <3> HIDE DEF m
    <3> QED
      BY <3>1, ExpenseEvensOut
  <2> HIDE DEF e
  <2> QED
    BY <1>0, <2>1, SumZero
<1>4. b = [p \in People |-> Paid(p) - Owed(p)]
  <2>1. ASSUME NEW p \in People
        PROVE  Sum([o \in Ops |-> m[p][o]], Ops) = Paid(p) - Owed(p)
    <3>1. [o \in Ops |-> m[p][o]] = [o \in Ops |-> Due(p, o)]
      OBVIOUS
    <3> HIDE DEF m
    <3> QED
      BY <3>1, DueByExpense
  <2> HIDE DEF m
  <2> QED
    BY <2>1
<1> HIDE DEF b, e, m
<1> QED
  BY <1>2, <1>3, <1>4

\* Whoever is not a member and not a stranger has neither paid nor shared.
LEMMA NobodyElse ==
    ASSUME Shape, ReferencesStand, NEW p \in People, p \notin Participants
    PROVE  Paid(p) - Owed(p) = 0
<1> DEFINE u == [o \in Ops |-> Due(p, o)]
<1>1. \A o \in Ops : u[o] = 0
  BY InputsAssumption DEF Due, PaidIn, OwedIn, ReferencesStand, Recorded
<1>2. Sum(u, Ops) = 0
  <2> HIDE DEF u
  <2> QED
    BY <1>1, SumZero, InputsAssumption
<1> QED
  BY <1>2, DueByExpense

LEMMA BalancesEvenOut ==
    ASSUME Shape, ReferencesStand, AddsUp
    PROVE  SumFunction([p \in People |-> Balance(p)]) + Missed = 0
<1> DEFINE all    == [p \in People |-> Paid(p) - Owed(p)]
           listed == [p \in People |-> Balance(p)]
           rest   == [p \in People |-> IF p \in Strangers THEN Paid(p) - Owed(p) ELSE 0]
           missed == [p \in Strangers |-> Paid(p) - Owed(p)]
<1>0. IsFiniteSet(People) /\ Strangers \in SUBSET People
  BY InputsAssumption
<1>1. \A p \in People : listed[p] \in Int /\ rest[p] \in Int /\ all[p] = listed[p] + rest[p]
  <2> SUFFICES ASSUME NEW p \in People
               PROVE  listed[p] \in Int /\ rest[p] \in Int /\ all[p] = listed[p] + rest[p]
    OBVIOUS
  <2> DEFINE d == Paid(p) - Owed(p)
  <2>1. d \in Int
    BY DueByExpense
  <2>2. all[p] = d /\ listed[p] = (IF p \in members THEN d ELSE 0)
                  /\ rest[p] = (IF p \in Strangers THEN d ELSE 0)
    BY DEF Balance
  <2>3. p \in members => p \notin Strangers
    BY DEF Shape
  <2>4. p \notin members /\ p \notin Strangers => d = 0
    BY NobodyElse DEF Participants
  <2> HIDE DEF d, all, listed, rest
  <2> QED
    BY <2>1, <2>2, <2>3, <2>4
<1>2. Sum(all, People) = Sum(listed, People) + Sum(rest, People)
  <2> HIDE DEF all, listed, rest
  <2> QED
    BY <1>0, <1>1, SumPlus
<1>3. Sum(rest, People) = Sum(missed, Strangers)
  <2>1. \A p \in People : rest[p] \in Int /\ rest[p] = IF p \in Strangers THEN missed[p] ELSE 0
    BY <1>1
  <2> HIDE DEF rest, missed
  <2> QED
    BY <1>0, <2>1, SumPart
<1>4. Sum(listed, People) = SumFunction(listed) /\ Sum(missed, Strangers) = Missed
  <2>1. DOMAIN listed = People /\ DOMAIN missed = Strangers
    OBVIOUS
  <2>2. Missed = SumFunction(missed)
    BY Zenon DEF Missed
  <2> HIDE DEF listed, missed
  <2> QED
    BY <2>1, <2>2, Zenon DEF SumFunction, Sum
<1>5. Sum(all, People) = 0
  BY DuesEvenOut
<1> HIDE DEF all, rest, missed
<1> QED
  BY <1>2, <1>3, <1>4, <1>5 DEF listed

\* As long as the shares that clients send add up to the amounts and requests come one
\* after the other, the balances of the project sum to zero but for what participants of
\* other projects have paid and owe in it.
THEOREM SerialBalancesEvenOut == ASSUME SharesAddUp PROVE Spec => []SerialBalancesComplete
<1>1. Init => SerialInv
  BY DEF Init, SerialInv, Alone, InTransit, Idle, AddsUp, Recorded
<1>2. LedgerInv /\ SerialInv /\ [Next]_vars => SerialInv'
  BY SerialStep
<1>3. LedgerInv /\ SerialInv => SerialBalancesComplete
  BY BalancesEvenOut DEF LedgerInv, SerialInv, SerialBalancesComplete
<1> QED
  BY <1>1, <1>2, <1>3, LedgerInvariant, PTL DEF Spec
=============================================================================
