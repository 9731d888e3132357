-------------------------------- MODULE Seed --------------------------------
(***************************************************************************)
(* The seeding script prisma/seed.ts (`npm run db:seed').  It runs upsert  *)
(* after upsert, each committed by itself: `where' looks for a row by a    *)
(* fixed id, and when there is none `create' inserts one, whose id is NOT  *)
(* that one but the next of the sequence (only alerts are given theirs).   *)
(* The rest of the script refers to the row found or created.  At the end  *)
(* the sequences are set to the largest id of their tables, one after the  *)
(* other.  The script may die anywhere, and may be run again.              *)
(***************************************************************************)
EXTENDS Tables, SequencesExt

CONSTANTS People,     \* the participants, in the order of their keys
          Projects,   \* the projects, as Project records of SeedData
          MaxRuns     \* bound: how often the script is started

Split == [key : Nat \ {0}, payer : STRING, amount : Nat \ {0}, shares : Seq(Nat)]

\* Everybody has a name of their own, the people of a project are among them, and
\* an expense says what each of these has to bear.
ASSUME PlanAssumption ==
    /\ MaxRuns \in Nat
    /\ People \in Seq(STRING) /\ IsInjective(People)
    /\ Projects \in Seq([owner : STRING, people : Seq(STRING), alert : Nat, expenses : Seq(Split)])
    /\ \A j \in DOMAIN Projects :
          /\ ToSet(Projects[j].people) \subseteq ToSet(People)
          /\ \A e \in DOMAIN Projects[j].expenses :
                Len(Projects[j].expenses[e].shares) = Len(Projects[j].people)

VARIABLES todo,      \* the statements the script has still to run
          person,    \* pSteve.id, pAurore.id, ...: the rows of the participants
          current,   \* projectMilan.id, ...: the row of the project being seeded
          created,   \* created.id: the row of the expense being seeded
          runs,      \* how often the script was started
          finished   \* the script has come to its end once

seedVars == <<todo, person, current, created, runs, finished>>

-----------------------------------------------------------------------------
(* The statements, one after the other. *)

\* key: the id that is looked for; who: a name; amount: of an expense or a share.
Do(what, key, who, amount) == [do |-> what, key |-> key, who |-> who, amount |-> amount]

\* seedOperation: the expense, then the shares of those who have one.
ExpenseScript(people, expense) ==
    <<Do("operation", expense.key, expense.payer, expense.amount)>> \o
    FlattenSeq([i \in DOMAIN people |->
                   IF expense.shares[i] = 0 THEN <<>>
                   ELSE <<Do("share", 0, people[i], expense.shares[i])>>])

ProjectScript(j) ==
    LET proj == Projects[j] IN
    <<Do("project", j, proj.owner, 0)>>
      \o [i \in DOMAIN proj.people |-> Do("link", 0, proj.people[i], 0)]
      \o FlattenSeq([e \in DOMAIN proj.expenses |-> ExpenseScript(proj.people, proj.expenses[e])])
      \o (IF proj.alert = 0 THEN <<>> ELSE <<Do("alert", proj.alert, proj.owner, 0)>>)

\* Faulty variant: the owner of the first project has no account.
OwnersButFirst == {Projects[j].owner : j \in (DOMAIN Projects) \ {1}}

Owners == {Projects[j].owner : j \in DOMAIN Projects}

\* The sequences in the order they are reset; those of users and budgets do not matter.
Resets == <<"alert", "participant", "project", "operation">>

Script ==
    <<Do("categories", 0, "", 0), Do("users", 0, "", 0)>>
      \o [i \in DOMAIN People |-> Do("participant", i, People[i], 0)]
      \o FlattenSeq([j \in DOMAIN Projects |-> ProjectScript(j)])
      \o [i \in DOMAIN Resets |-> Do("reset", 0, Resets[i], 0)]

Step == Head(todo)

At(what) == todo # <<>> /\ Step.do = what

PersonOf(name) == person[CHOOSE i \in DOMAIN People : People[i] = name]

SeedInit == /\ todo = <<>>
            /\ person = <<>>
            /\ current = 0
            /\ created = 0
            /\ runs = 0
            /\ finished = FALSE

SeedOK == /\ person \in Seq(DOMAIN participant)
          /\ Len(person) <= Len(People)
          /\ current \in (DOMAIN project) \union {0}
          /\ created \in (DOMAIN operation) \union {0}

-----------------------------------------------------------------------------
Start ==
    /\ todo = <<>>
    /\ runs < MaxRuns
    /\ runs' = runs + 1
    /\ todo' = Script
    /\ UNCHANGED <<tables, person, current, created, finished>>

\* The process ends, and its local variables with it.
Stop == /\ todo' = <<>>
        /\ person' = <<>>
        /\ current' = 0
        /\ created' = 0

\* The six upserts of the categories run together, found by colour, so a second
\* run adds those that are missing.  Of the counts on the way, those the demo
\* project cannot tell apart are skipped.
SeedCategories ==
    /\ At("categories")
    /\ \/ categories < 6 /\ UNCHANGED todo
          /\ categories' = Min({n \in ToSet(DemoCategories) : n > categories})
       \/ categories = 6 /\ todo' = Tail(todo) /\ UNCHANGED categories
    /\ UNCHANGED <<account, participant, project, linked, operation, share, alert,
                   sequence, person, current, created, runs, finished>>

SeedUsers ==
    /\ At("users")
    /\ account' = [e \in DOMAIN account \union Owners |->
                     IF e \in DOMAIN account THEN account[e] ELSE "password123"]
    /\ todo' = Tail(todo)
    /\ UNCHANGED <<categories, participant, project, linked, operation, share, alert,
                   sequence, person, current, created, runs, finished>>

\* Faulty variant: create without looking first.
FoundNever(t, key) == FALSE

\* upsert({ where: { id: key }, update: {}, create: row }) on a table: the row
\* it comes back with, and whether that is a new one.
Found(t, key) == key \in Ids[t]

NewId(t) == sequence[t] + 1

Upserted(t, key) == IF Found(t, key) THEN key ELSE NewId(t)

\* The id that create takes may belong to a row already: the script dies.
CanCreate(t, key) == Found(t, key) \/ NewId(t) \notin Ids[t]

TakeId(t, key) ==
    sequence' = IF Found(t, key) THEN sequence ELSE [sequence EXCEPT ![t] = @ + 1]

\* The key itself is kept when there is a row with it: update is empty.
SeedParticipant ==
    /\ At("participant")
    /\ CanCreate("participant", Step.key)
    /\ LET id == Upserted("participant", Step.key) IN
       /\ participant' = Added(participant, Row(id, Step.who))
       /\ person' = Append(person, id)
    /\ TakeId("participant", Step.key)
    /\ todo' = Tail(todo)
    /\ UNCHANGED <<account, categories, project, linked, operation, share, alert,
                   current, created, runs, finished>>

\* With the budget, which is found by the project's id.
SeedProject ==
    /\ At("project")
    /\ CanCreate("project", Step.key)
    /\ current' = Upserted("project", Step.key)
    /\ project' = Added(project, Row(current', Step.who))
    /\ TakeId("project", Step.key)
    /\ todo' = Tail(todo)
    /\ UNCHANGED <<account, categories, participant, linked, operation, share, alert,
                   person, created, runs, finished>>

SeedLink ==
    /\ At("link")
    /\ linked' = linked \union {<<current, PersonOf(Step.who)>>}
    /\ todo' = Tail(todo)
    /\ UNCHANGED <<account, categories, participant, project, operation, share, alert,
                   sequence, person, current, created, runs, finished>>

SeedOperation ==
    /\ At("operation")
    /\ CanCreate("operation", Step.key)
    /\ created' = Upserted("operation", Step.key)
    /\ operation' = Added(operation, Row(created', [project |-> current, amount |-> Step.amount]))
    /\ TakeId("operation", Step.key)
    /\ todo' = Tail(todo)
    /\ UNCHANGED <<account, categories, participant, project, linked, share, alert,
                   person, current, runs, finished>>

SeedShare ==
    /\ At("share")
    /\ share' = Added(share, Row(<<created, PersonOf(Step.who)>>, Step.amount))
    /\ todo' = Tail(todo)
    /\ UNCHANGED <<account, categories, participant, project, linked, operation, alert,
                   sequence, person, current, created, runs, finished>>

\* seedAlert gives the id, so the sequence does not move.
SeedAlert ==
    /\ At("alert")
    /\ alert' = Added(alert, Row(Step.key, Step.who))
    /\ todo' = Tail(todo)
    /\ UNCHANGED <<account, categories, participant, project, linked, operation, share,
                   sequence, person, current, created, runs, finished>>

\* Faulty variant: the sequence of alert is forgotten.
AllButAlert(t) == IF t = "alert" THEN sequence[t]
                  ELSE CHOOSE m \in Ids[t] : \A i \in Ids[t] : i <= m

\* setval to the largest id; setval of NULL does nothing.
LastId(t) == IF Ids[t] = {} THEN sequence[t]
             ELSE CHOOSE m \in Ids[t] : \A i \in Ids[t] : i <= m

\* The setval of one sequence; after the last one the script ends.
ResetSequences ==
    /\ At("reset")
    /\ sequence' = [sequence EXCEPT ![Step.who] = LastId(Step.who)]
    /\ \/ Len(todo) > 1 /\ todo' = Tail(todo) /\ UNCHANGED <<person, current, created, finished>>
       \/ Len(todo) = 1 /\ Stop /\ finished' = TRUE
    /\ UNCHANGED <<rows, runs>>

\* The script fails, or is stopped, between two statements; what it wrote stays.
Crash ==
    /\ todo # <<>>
    /\ Stop
    /\ UNCHANGED <<tables, runs, finished>>

Upsert == \/ SeedCategories
          \/ SeedUsers
          \/ SeedParticipant
          \/ SeedProject
          \/ SeedLink
          \/ SeedOperation
          \/ SeedShare
          \/ SeedAlert
          \/ ResetSequences

SeedStep == Start \/ Upsert \/ Crash
=============================================================================
