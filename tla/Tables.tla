------------------------------- MODULE Tables -------------------------------
(***************************************************************************)
(* The rows that registrations and the seeding script both write, as they  *)
(* are committed, and the sequences their ids come from                    *)
(* (prisma/schema.prisma).  A table is a function from the ids of its rows *)
(* to the columns that matter.  A sequence moves when an id is taken, and  *)
(* does not come back when the transaction that took it is rolled back.    *)
(***************************************************************************)
EXTENDS Integers, Sequences, FiniteSets

VARIABLES account,      \* app_user: password by email
          categories,   \* category: how many rows, their ids being 1, 2, ...
          participant,  \* participant: name by id
          project,      \* project: email of the owner by id
          linked,       \* project_participant: pairs of ids
          operation,    \* operation: [project, amount] by id
          share,        \* operation_participant: amount by <<operation, participant>>
          alert,        \* alert and app_user_alert: email of the user by id
          sequence      \* last id taken, by table

rows   == <<account, categories, participant, project, linked, operation, share, alert>>
tables == <<rows, sequence>>

Serial == {"participant", "project", "operation", "alert"}

Ids == [participant |-> DOMAIN participant, project |-> DOMAIN project,
        operation |-> DOMAIN operation, alert |-> DOMAIN alert]

Empty == [x \in {} |-> 0]

TablesInit ==
    /\ account = Empty
    /\ categories = 0
    /\ participant = Empty
    /\ project = Empty
    /\ linked = {}
    /\ operation = Empty
    /\ share = Empty
    /\ alert = Empty
    /\ sequence = [t \in Serial |-> 0]

\* The categories the expenses of a demo project are filed under, by id.
DemoCategories == <<1, 2, 6>>

\* Every row refers to rows that exist, and amounts are positive.
TablesOK ==
    /\ categories \in 0..6
    /\ linked \subseteq (DOMAIN project) \X (DOMAIN participant)
    /\ \A o \in DOMAIN operation : /\ operation[o].project \in DOMAIN project
                                   /\ operation[o].amount > 0
    /\ DOMAIN share \subseteq (DOMAIN operation) \X (DOMAIN participant)
    /\ \A j \in DOMAIN project : project[j] \in DOMAIN account
    /\ \A a \in DOMAIN alert : alert[a] \in DOMAIN account
    /\ sequence \in [Serial -> Nat]

Row(id, columns) == [x \in {id} |-> columns]

\* The rows of two tables; of two rows with the same id, the first.
Added(table, new) ==
    [x \in (DOMAIN table) \union (DOMAIN new) |-> IF x \in DOMAIN table THEN table[x] ELSE new[x]]

\* The next n ids of a table.
NextIds(t, n) == [i \in 1..n |-> sequence[t] + i]
=============================================================================
