------------------------------ MODULE Accounts ------------------------------
(***************************************************************************)
(* Registration and login: services/auth.service.ts as called by           *)
(* controllers/auth.controller.ts.                                         *)
(*                                                                         *)
(* A registration looks for the email, hashes the password, and opens a    *)
(* transaction that creates the user with a demo project; the session is   *)
(* opened after the commit.  The transaction runs at READ COMMITTED: its   *)
(* rows are seen by nobody before Commit, but the ids it takes are gone    *)
(* from the sequences at once, and an INSERT that meets a unique value     *)
(* another open transaction has written waits for that transaction.        *)
(* Statements on one table are one step.                                   *)
(***************************************************************************)
EXTENDS Tables, FiniteSetsExt

CONSTANTS Requests,      \* requests that can be in flight, each with a password of its own
          Emails,        \* addresses people register with
          MaxAttempts    \* bound: requests that are started

ASSUME MaxAttemptsAssumption == MaxAttempts \in Nat

VARIABLES req,        \* the requests being served
          signedUp,   \* history: <<email, password>> of the registrations answered 201
          attempts    \* how many requests were started

accountVars == <<req, signedUp, attempts>>

\* The await a request is at.
Points == {"idle", "find", "user", "participant", "project", "alert",
           "operation", "commit", "session", "credentials"}

InTransaction == {"participant", "project", "alert", "operation", "commit"}

\* The demo project: the amounts of its expenses, split between three people.
DemoPeople  == 3
DemoAmounts == <<180, 90, 45>>

\* The rows of table t in a demo project.
DemoRows(t) == IF t = "participant" THEN DemoPeople
               ELSE IF t = "operation" THEN Len(DemoAmounts) ELSE 1

Nothing == [t \in Serial |-> <<>>]

\* new: whether the session is that of a registration; taken: its ids.
State(pc, email, password, new, taken) ==
    [pc |-> pc, email |-> email, password |-> password, new |-> new, taken |-> taken]

Idle == [pc |-> "idle"]

AccountsInit == /\ req = [r \in Requests |-> Idle]
                /\ signedUp = {}
                /\ attempts = 0

AccountsOK == /\ \A r \in Requests : req[r].pc \in Points
              /\ signedUp \subseteq (Emails \X Requests)

Open(r) == req[r].pc \in InTransaction

\* The ids of table t that open transactions have inserted.
Held(t) == UNION {{req[r].taken[t][i] : i \in DOMAIN req[r].taken[t]} :
                     r \in {q \in Requests : Open(q)}}

Go(r, pc) == req' = [req EXCEPT ![r].pc = pc]

\* The answer is sent; in a transaction, everything it wrote is undone.
Answer(r) == req' = [req EXCEPT ![r] = Idle]

-----------------------------------------------------------------------------
(* POST /register *)

Register(r) ==
    /\ req[r].pc = "idle"
    /\ attempts < MaxAttempts
    /\ attempts' = attempts + 1
    /\ \E e \in Emails :
          req' = [req EXCEPT ![r] = State("find", e, r, TRUE, Nothing)]
    /\ UNCHANGED <<tables, signedUp>>

\* An account with that email is a 409; otherwise the password is hashed.
FindUser(r) ==
    /\ req[r].pc = "find"
    /\ \/ req[r].email \in DOMAIN account /\ Answer(r)
       \/ req[r].email \notin DOMAIN account /\ Go(r, "user")
    /\ UNCHANGED <<tables, signedUp, attempts>>

\* Faulty variant: the address is locked as soon as it is found to be free.
EmailClaimed(r) ==
    \E q \in Requests \ {r} :
       (Open(q) \/ req[q].pc = "user") /\ req[q].email = req[r].email

EmailWritten(r) == \E q \in Requests \ {r} : Open(q) /\ req[q].email = req[r].email

\* The INSERT of r meets an email, or an id of its sequence, that another open
\* transaction has inserted.
Waits(r) ==
    \/ req[r].pc = "user" /\ EmailWritten(r)
    \/ \E t \in Serial : /\ req[r].pc = t
                        /\ \E i \in 1..DemoRows(t) : NextIds(t, DemoRows(t))[i] \in Held(t)

\* Faulty variant: the user is upserted, so the second registration goes on.
CreateUserAnyway(r) ==
    /\ req[r].pc = "user"
    /\ Go(r, "participant")
    /\ UNCHANGED <<tables, signedUp, attempts>>

\* The unique index on email: a 500 when the address was taken meanwhile.
CreateUser(r) ==
    /\ req[r].pc = "user"
    /\ ~Waits(r)
    /\ \/ req[r].email \in DOMAIN account /\ Answer(r)
       \/ req[r].email \notin DOMAIN account /\ Go(r, "participant")
    /\ UNCHANGED <<tables, signedUp, attempts>>

\* INSERTs into table t with ids of its sequence.  Those before the first that
\* fails have taken their ids, and so has that one.
InsertRows(r, t, refused, next) ==
    LET n   == DemoRows(t)
        ids == NextIds(t, n)
        bad == {i \in 1..n : ids[i] \in Ids[t] \/ i \in refused}
    IN  /\ req[r].pc = t
        /\ ~Waits(r)
        /\ \/ /\ bad = {}
              /\ sequence' = [sequence EXCEPT ![t] = @ + n]
              /\ req' = [req EXCEPT ![r].taken[t] = ids, ![r].pc = next]
           \/ /\ bad # {}
              /\ sequence' = [sequence EXCEPT ![t] = @ + Min(bad)]
              /\ Answer(r)
        /\ UNCHANGED <<rows, signedUp, attempts>>

CreateParticipants(r) == InsertRows(r, "participant", {}, "project")

\* With its budget, whose unique key is the new project.
CreateProject(r) == InsertRows(r, "project", {}, "alert")

CreateAlert(r) == InsertRows(r, "alert", {}, "operation")

\* The foreign key of the category refuses an expense when the seeding script
\* has not created that category.
CreateOperations(r) ==
    InsertRows(r, "operation",
               {i \in DOMAIN DemoCategories : DemoCategories[i] > categories}, "commit")

\* Faulty variant: the shares are those of the first two people.
SharersButOne(people) == {people[i] : i \in 1..(DemoPeople - 1)}

Sharers(people) == {people[i] : i \in DOMAIN people}

Commit(r) ==
    LET people == req[r].taken["participant"]
        ops    == req[r].taken["operation"]
        proj   == req[r].taken["project"][1]
        email  == req[r].email
        Index(o) == CHOOSE i \in DOMAIN ops : ops[i] = o
        OpIds  == {ops[i] : i \in DOMAIN ops}
    IN  /\ req[r].pc = "commit"
        /\ account' = [e \in DOMAIN account \union {email} |->
                         IF e = email THEN req[r].password ELSE account[e]]
        /\ participant' = Added([p \in {people[i] : i \in DOMAIN people} |-> email], participant)
        /\ project' = Added(Row(proj, email), project)
        /\ linked' = linked \union {<<proj, people[i]>> : i \in DOMAIN people}
        /\ operation' = Added([o \in OpIds |-> [project |-> proj, amount |-> DemoAmounts[Index(o)]]],
                              operation)
        /\ share' = Added([s \in OpIds \X Sharers(people) |-> DemoAmounts[Index(s[1])] \div DemoPeople],
                          share)
        /\ alert' = Added(Row(req[r].taken["alert"][1], email), alert)
        /\ Go(r, "session")
        /\ UNCHANGED <<categories, sequence, signedUp, attempts>>

\* createRefreshToken (the session itself is modelled in Sessions), then 201 or 200.
OpenSession(r) ==
    /\ req[r].pc = "session"
    /\ signedUp' = IF req[r].new THEN signedUp \union {<<req[r].email, req[r].password>>}
                   ELSE signedUp
    /\ Answer(r)
    /\ UNCHANGED <<tables, attempts>>

(* POST /login *)

Login(r) ==
    /\ req[r].pc = "idle"
    /\ attempts < MaxAttempts
    /\ attempts' = attempts + 1
    /\ \E e \in Emails, p \in Requests :
          req' = [req EXCEPT ![r] = State("credentials", e, p, FALSE, Nothing)]
    /\ UNCHANGED <<tables, signedUp>>

\* findUnique and argon2.verify: 401 unless the account has that password.
CheckCredentials(r) ==
    /\ req[r].pc = "credentials"
    /\ IF req[r].email \in DOMAIN account /\ account[req[r].email] = req[r].password
       THEN Go(r, "session")
       ELSE Answer(r)
    /\ UNCHANGED <<tables, signedUp, attempts>>

\* A database call fails, the transaction expires, or the process dies.  What
\* is committed stays: an account may be left without the session it was promised.
Abort(r) ==
    /\ req[r].pc # "idle"
    /\ Answer(r)
    /\ UNCHANGED <<tables, signedUp, attempts>>

Serve(r) == \/ FindUser(r)
            \/ CreateUser(r)
            \/ CreateParticipants(r)
            \/ CreateProject(r)
            \/ CreateAlert(r)
            \/ CreateOperations(r)
            \/ Commit(r)
            \/ OpenSession(r)
            \/ CheckCredentials(r)

AccountStep(r) == Register(r) \/ Login(r) \/ Serve(r) \/ Abort(r)
=============================================================================
