----------------------------- MODULE Deployment -----------------------------
(***************************************************************************)
(* A database from its first day: people register and log in (Accounts)    *)
(* while the operator runs the seeding script (Seed), in any order, on the *)
(* same tables and the same sequences.                                     *)
(***************************************************************************)
EXTENDS Accounts, Seed

VARIABLE order  \* history: how the script and the registrations followed each other

vars == <<tables, accountVars, seedVars, order>>

\* "seeding": no registration has taken an id; "open": the first one came after
\* the script was through, which has not written since; "mixed": otherwise.
Orders == {"seeding", "open", "mixed"}

TypeOK == TablesOK /\ AccountsOK /\ SeedOK /\ order \in Orders

Init == TablesInit /\ AccountsInit /\ SeedInit /\ order = "seeding"

\* An INSERT of an id that an open transaction has inserted waits for its end.
ScriptWaits ==
    \/ /\ Step.do \in {"participant", "project", "operation"}
       /\ Upserted(Step.do, Step.key) \in Held(Step.do)
    \/ Step.do = "alert" /\ Step.key \in Held("alert")

\* How a step of a request moves the history, the script not moving.
Follows ==
    /\ order' = IF sequence' = sequence THEN order
                ELSE IF order = "open" \/ (order = "seeding" /\ finished /\ todo = <<>>)
                     THEN "open" ELSE "mixed"
    /\ UNCHANGED seedVars

ScriptStep ==
    /\ SeedStep
    /\ (todo # <<>> /\ todo' = Tail(todo)) => ~ScriptWaits
    /\ order' = IF order = "open" THEN "mixed" ELSE order
    /\ UNCHANGED accountVars

Next == ScriptStep \/ \E r \in Requests : AccountStep(r) /\ Follows

Spec == Init /\ [][Next]_vars

-----------------------------------------------------------------------------
(* Properties *)

SumOf(o) == LET parts == {s \in DOMAIN share : s[1] = o}
            IN  SumFunctionOnSet(share, parts)

Registered == {e \in Emails : e \in DOMAIN account}

DemoOf(e) == {j \in DOMAIN project : project[j] = e}

\* One transaction creates the account and its demo project: whatever fails, waits
\* or races, an account comes with one demo project, its three people, its alert
\* and its three expenses, and as long as the script came first each expense is
\* shared out to the last cent among those three.
AccountIsWhole ==
    \A e \in Registered :
       /\ Cardinality({a \in DOMAIN alert : alert[a] = e}) = 1
       /\ \E j \in DemoOf(e) :
             LET people == {p \in DOMAIN participant : <<j, p>> \in linked}
                 ops    == {o \in DOMAIN operation : operation[o].project = j}
             IN  /\ DemoOf(e) = {j}
                 /\ order # "mixed" =>
                       /\ Cardinality(people) = 3
                       /\ Cardinality(ops) = 3
                       /\ \A o \in ops :
                             /\ SumOf(o) = operation[o].amount
                             /\ \A s \in DOMAIN share : s[1] = o => s[2] \in people

\* Two registrations may both find the email free.  Whoever is told 201 keeps
\* the account: its password is never that of another registration.
WinnerOwnsAccount ==
    \A e \in Emails, p \in Requests :
       <<e, p>> \in signedUp => e \in DOMAIN account /\ account[e] = p

\* The script looks for people by keys that are not the ids it creates them with,
\* and refers to them by the row its upsert gave back.  However often it dies and
\* is run again, there is one row per person and each name means its own row,
\* until a registration gets in its way.
PeopleStayApart ==
    order = "seeding" =>
       /\ \A i \in DOMAIN person : participant[person[i]] = People[i]
       /\ \A p, q \in DOMAIN participant : participant[p] = participant[q] => p = q

\* "Reset all sequences to avoid conflicts with explicit IDs": once the script is
\* through, no INSERT of the application meets an id that is taken already.
IdsAreFresh ==
    (finished /\ todo = <<>> /\ order # "mixed") =>
       \A t \in Serial : \A i \in Ids[t] : i <= sequence[t]

Busy == {r \in Requests : req[r].pc # "idle"}

\* A registration waits for whoever has written its email, or an id it was given
\* too, and the script for whoever has written the id it gets.  However these waits
\* follow each other, one of the requests in flight can go on: nobody has to be
\* rolled back to let the others through.
SomebodyCanGoOn ==
    (Busy # {} \/ (todo # <<>> /\ ScriptWaits)) => \E r \in Busy : ~Waits(r)
=============================================================================
