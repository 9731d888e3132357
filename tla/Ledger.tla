------------------------------- MODULE Ledger -------------------------------
(***************************************************************************)
(* Who paid and who owes in one project: its participants, its operations  *)
(* and their shares.  services/participants.service.ts, the tables that    *)
(* services/operations.service.ts writes, and the balances that            *)
(* services/balance.service.ts derives from them.                          *)
(*                                                                         *)
(* As in BudgetAlerts a handler is a transaction at READ COMMITTED that    *)
(* keeps its writes to itself until it commits.  What foreign keys do is   *)
(* part of the statements: a row that refers to a participant takes a      *)
(* KEY SHARE lock on it, which a DELETE of the participant waits for; the  *)
(* DELETE is refused while the participant has paid an operation           *)
(* (onDelete: Restrict) and takes the participant's shares with it         *)
(* (onDelete: Cascade).                                                    *)
(*                                                                         *)
(* The row of a participant and its link to the project come and go in one *)
(* transaction, so `members' stands for both.  The foreign keys of an      *)
(* operation ask for a row of participant, not for a link to the project:  *)
(* `Strangers' are the rows of other projects, which stay here.  What      *)
(* operations of other projects do to the members is to refuse a removal,  *)
(* which Abort covers.  Alerts, which operations also touch, are in        *)
(* BudgetAlerts.                                                           *)
(***************************************************************************)
EXTENDS Integers, FiniteSets, Functions

CONSTANTS People,      \* ids of participants
          Founders,    \* the participants the project was created with
          Strangers,   \* participants of other projects
          Ops,         \* ids of operations
          Expenses,    \* what a client submits: [payer, amount, shares]
          Requests,    \* slots for the requests being served
          None         \* no participant, no operation

Shares == UNION {[S -> Nat] : S \in SUBSET People}

ASSUME InputsAssumption ==
    /\ Founders \subseteq People /\ Strangers \subseteq People \ Founders
    /\ \A e \in Expenses : /\ e.payer \in People /\ e.amount \in Nat \ {0}
                           /\ DOMAIN e.shares \subseteq People
                           /\ e.shares \in [DOMAIN e.shares -> Nat]
    /\ None \notin People \union Ops
    /\ IsFiniteSet(People) /\ IsFiniteSet(Ops)

VARIABLES members,   \* rows of participant linked to the project
          created,   \* ids of participants given so far
          payer,     \* payer[o]: payer of the operation, None when it has no row
          amount,    \* amount[o]
          shares,    \* shares[o]: repartitionAmount by participant
          req,       \* the requests being served
          overlapped \* history: two requests have been in flight at the same time

rows == <<members, created, payer, amount, shares>>
vars == <<rows, req, overlapped>>

InFlight == {r \in Requests : req[r].pc # "idle"}

NoShares == [p \in {} |-> 0]

\* op, payer, amount, shares: the operation being written.  keep, next, todo, gone: the
\* participants a PUT keeps, the one at hand, those still to remove, those removed.
\* added: the one it creates.
Idle == [kind |-> "none", pc |-> "idle", op |-> None, payer |-> None, amount |-> 0,
         shares |-> NoShares, keep |-> {}, todo |-> {}, next |-> None, gone |-> {},
         added |-> {}]

Points == {"idle", "write", "update", "count", "remove", "commit"}

\* The tables and the requests have their types, and a participant of the project
\* has an id that was given to it and to nobody else.
TypeOK ==
    /\ members \union Strangers \subseteq created /\ created \subseteq People
    /\ members \intersect Strangers = {}
    /\ payer \in [Ops -> People \union {None}]
    /\ amount \in [Ops -> Nat]
    /\ \A o \in Ops : /\ DOMAIN shares[o] \subseteq People
                      /\ \A p \in DOMAIN shares[o] : shares[o][p] \in Nat
    /\ overlapped \in BOOLEAN
    /\ \A r \in Requests :
          /\ DOMAIN req[r] = DOMAIN Idle
          /\ req[r].kind \in {"none", "create", "update", "participants"}
          /\ req[r].pc \in Points
          /\ req[r].op \in Ops \union {None}
          /\ (req[r].keep \union req[r].todo \union req[r].gone \union req[r].added) \subseteq People
          /\ req[r].next \in People \union {None}

Init == /\ members = Founders
        /\ created = Founders \union Strangers
        /\ payer = [o \in Ops |-> None]
        /\ amount = [o \in Ops |-> 0]
        /\ shares = [o \in Ops |-> NoShares]
        /\ req = [r \in Requests |-> Idle]
        /\ overlapped = FALSE

-----------------------------------------------------------------------------
(* computeProjectBalances *)

Recorded == {o \in Ops : payer[o] # None}

Paid(p) == SumFunctionOnSet(amount, {o \in Recorded : payer[o] = p})

Owed(p) == SumFunction([o \in {o \in Recorded : p \in DOMAIN shares[o]} |-> shares[o][p]])

Balance(p) == IF p \in members THEN Paid(p) - Owed(p) ELSE 0

-----------------------------------------------------------------------------
(* Row locks. *)

\* Participants referred to by what a transaction wrote: KEY SHARE.
Referred(r) == IF req[r].kind \in {"create", "update"} /\ req[r].pc = "commit"
               THEN {req[r].payer} \union DOMAIN req[r].shares ELSE {}

\* Participants a transaction has renamed: a DELETE or a second UPDATE waits.
Renamed(r) == IF req[r].kind = "participants" /\ req[r].pc # "update" THEN req[r].keep ELSE {}

Others(r) == Requests \ {r}

OpFree(r, o) == \A q \in Others(r) : req[q].pc = "commit" => req[q].op # o

\* p can be referred to: nobody is deleting it.
CanRefer(r, p) == \A q \in Others(r) : p \notin req[q].gone

CanRename(r, p) == CanRefer(r, p) /\ \A q \in Others(r) : p \notin Renamed(q)

CanDelete(r, p) == CanRename(r, p) /\ \A q \in Others(r) : p \notin Referred(q)

-----------------------------------------------------------------------------
(* POST and PATCH /operations.  The payer and the holders of the shares    *)
(* are whatever ids the client sends: that the project belongs to the user *)
(* is checked, not that they belong to the project.                        *)

Arrival == overlapped' = (overlapped \/ InFlight # {})

StartExpense(r, kind, o) ==
    /\ req[r].pc = "idle"
    /\ \E e \in Expenses :
          req' = [req EXCEPT ![r] = [Idle EXCEPT !.kind = kind, !.pc = "write", !.op = o,
                                                 !.payer = e.payer, !.amount = e.amount,
                                                 !.shares = e.shares]]
    /\ Arrival
    /\ UNCHANGED rows

StartCreate(r) ==
    \E o \in Ops : /\ payer[o] = None
                   /\ \A q \in Requests : req[q].op # o
                   /\ StartExpense(r, "create", o)

StartUpdate(r) == \E o \in Recorded : StartExpense(r, "update", o)

Finish(r) == req' = [req EXCEPT ![r] = Idle]

\* An exception: the transaction leaves nothing behind.
RollBack(r) == Finish(r)

\* The rows of participant.
Participants == members \union Strangers

\* The operation, the removal of its old shares and the INSERT of the new ones.
\* Foreign keys refuse whoever has no row: gone, or not there yet.
WriteExpense(r) ==
    LET refs == {req[r].payer} \union DOMAIN req[r].shares IN
    /\ req[r].pc = "write"
    /\ OpFree(r, req[r].op)
    /\ \A p \in refs : CanRefer(r, p)
    /\ \/ /\ refs \subseteq Participants
          /\ req[r].kind = "update" => req[r].op \in Recorded
          /\ req' = [req EXCEPT ![r].pc = "commit"]
       \/ /\ ~(refs \subseteq Participants) \/ (req[r].kind = "update" /\ req[r].op \notin Recorded)
          /\ RollBack(r)
    /\ UNCHANGED <<rows, overlapped>>

\* Faulty variant: the old shares are not deleted before the new ones come.
NewSharesMerged(r) ==
    LET old == shares[req[r].op]
        new == req[r].shares
    IN  [p \in DOMAIN old \union DOMAIN new |-> IF p \in DOMAIN new THEN new[p] ELSE old[p]]

\* operationParticipant.deleteMany, then the shares of the request.
NewShares(r) == req[r].shares

CommitExpense(r) ==
    /\ req[r].pc = "commit" /\ req[r].kind \in {"create", "update"}
    /\ payer' = [payer EXCEPT ![req[r].op] = req[r].payer]
    /\ amount' = [amount EXCEPT ![req[r].op] = req[r].amount]
    /\ shares' = [shares EXCEPT ![req[r].op] = NewShares(r)]
    /\ Finish(r)
    /\ UNCHANGED <<members, created, overlapped>>

\* DELETE /operations takes the shares with it.  What the transaction does next
\* concerns the alerts only.
DeleteOperation(r) ==
    /\ req[r].pc = "idle"
    /\ \E o \in Recorded :
          /\ OpFree(r, o)
          /\ payer' = [payer EXCEPT ![o] = None]
          /\ amount' = [amount EXCEPT ![o] = 0]
          /\ shares' = [shares EXCEPT ![o] = NoShares]
    /\ Arrival
    /\ UNCHANGED <<members, created, req>>

-----------------------------------------------------------------------------
(* PUT /projects/:id/participants *)

\* The current participants are read here, before the transaction: those the
\* client does not send back are to be removed.
StartParticipants(r) ==
    /\ req[r].pc = "idle"
    /\ \E keep \in SUBSET members :
          req' = [req EXCEPT ![r] = [Idle EXCEPT !.kind = "participants", !.pc = "update",
                                                 !.keep = keep, !.todo = members \ keep]]
    /\ Arrival
    /\ UNCHANGED rows

\* On to the next participant to remove, in the order the rows came, or to COMMIT.
GoOn(r, s) ==
    \/ /\ s.todo = {}
       /\ req' = [req EXCEPT ![r] = [s EXCEPT !.pc = "commit", !.next = None]]
    \/ \E p \in s.todo :
          req' = [req EXCEPT ![r] = [s EXCEPT !.pc = "count", !.next = p, !.todo = @ \ {p}]]

\* Faulty variant: an id can be given again.
GiveIdTwice(new) == created' = created

GiveId(new) == created' = created \union new

\* Renames those that stay and creates those that are new: here one at most.
UpdateParticipants(r) ==
    /\ req[r].pc = "update"
    /\ \A p \in req[r].keep : CanRename(r, p)
    /\ \/ /\ ~(req[r].keep \subseteq members)
          /\ RollBack(r)
          /\ UNCHANGED created
       \/ /\ req[r].keep \subseteq members
          /\ \E new \in SUBSET (People \ created) :
                /\ Cardinality(new) <= 1
                /\ GiveId(new)
                /\ GoOn(r, [req[r] EXCEPT !.added = new])
    /\ UNCHANGED <<members, payer, amount, shares, overlapped>>

\* Faulty variant: only the shares in what the participant paid are counted.
HasShareInOwn(p) == \E o \in Recorded : payer[o] = p /\ p \in DOMAIN shares[o]

HasShare(p) == \E o \in Recorded : p \in DOMAIN shares[o]
HasPaid(p)  == \E o \in Recorded : payer[o] = p

\* A participant with shares is not deleted: 400, and everything is undone.
CountShares(r) ==
    /\ req[r].pc = "count"
    /\ \/ HasShare(req[r].next) /\ RollBack(r)
       \/ ~HasShare(req[r].next) /\ req' = [req EXCEPT ![r].pc = "remove"]
    /\ UNCHANGED <<rows, overlapped>>

\* Faulty variant: the foreign key of the payer does not restrict the DELETE.
RemovePayer(r) ==
    /\ req[r].pc = "remove"
    /\ CanDelete(r, req[r].next)
    /\ \/ req[r].next \notin members /\ RollBack(r)
       \/ /\ req[r].next \in members
          /\ GoOn(r, [req[r] EXCEPT !.gone = @ \union {req[r].next}])
    /\ UNCHANGED <<rows, overlapped>>

\* The two DELETEs.  They fail when another request has removed the participant
\* or when it has paid an operation.
RemoveParticipant(r) ==
    LET p == req[r].next IN
    /\ req[r].pc = "remove"
    /\ CanDelete(r, p)
    /\ \/ (p \notin members \/ HasPaid(p)) /\ RollBack(r)
       \/ /\ p \in members /\ ~HasPaid(p)
          /\ GoOn(r, [req[r] EXCEPT !.gone = @ \union {p}])
    /\ UNCHANGED <<rows, overlapped>>

Without(f, S) == [p \in DOMAIN f \ S |-> f[p]]

CommitParticipants(r) ==
    /\ req[r].pc = "commit" /\ req[r].kind = "participants"
    /\ members' = (members \ req[r].gone) \union req[r].added
    /\ shares' = [o \in Ops |-> Without(shares[o], req[r].gone)]
    /\ Finish(r)
    /\ UNCHANGED <<created, payer, amount, overlapped>>

-----------------------------------------------------------------------------
\* A database error, a deadlock victim, an expired transaction, a crash.
Abort(r) ==
    /\ req[r].pc # "idle"
    /\ RollBack(r)
    /\ UNCHANGED <<rows, overlapped>>

Next == \E r \in Requests :
           \/ StartCreate(r)
           \/ StartUpdate(r)
           \/ WriteExpense(r)
           \/ CommitExpense(r)
           \/ DeleteOperation(r)
           \/ StartParticipants(r)
           \/ UpdateParticipants(r)
           \/ CountShares(r)
           \/ RemoveParticipant(r)
           \/ CommitParticipants(r)
           \/ Abort(r)

Spec == Init /\ [][Next]_vars

-----------------------------------------------------------------------------
(* Properties *)

\* "La somme des balances doit toujours être égale à 0".
BalancesSumToZero == SumFunction([p \in People |-> Balance(p)]) = 0

\* What computeProjectBalances does not list: the part of participants of other projects.
Missed == SumFunction([p \in Strangers |-> Paid(p) - Owed(p)])

\* As long as requests come one after the other, removing participants takes no share
\* away: the balances sum to zero but for what participants of other projects have paid
\* and owe, and to zero as soon as no operation refers to one.
SerialBalancesComplete ==
    overlapped \/ SumFunction([p \in People |-> Balance(p)]) + Missed = 0

\* Every payer and every holder of a share is there: nobody to whom an operation refers
\* has left, so whom computeProjectBalances does not list belongs to another project.
ReferencesStand ==
    \A o \in Recorded : {payer[o]} \union DOMAIN shares[o] \subseteq Participants

\* The shares of an operation never add up to more than its amount: an update
\* replaces the old shares whatever runs at the same time.
SharesWithinAmount ==
    \A o \in Recorded : SumFunction(shares[o]) <= amount[o]

\* Nobody who has paid leaves, whatever was recorded after the participants were read.
PayersStay == [][\A p \in members \ members' : ~HasPaid(p)]_vars
=============================================================================
