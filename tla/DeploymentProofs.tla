-------------------------- MODULE DeploymentProofs --------------------------
(***************************************************************************)
(* What registrations and the seeding script make of the tables they share *)
(* for every set of requests, emails, people and projects: whose an        *)
(* account is, that rows refer to rows, that names and ids stay apart, and *)
(* that an account comes with the whole of its demo project.               *)
(***************************************************************************)
EXTENDS Deployment, SumTheorems

\* A request that is being served knows what it came with.
Served(r) ==
    /\ req[r] = State(req[r].pc, req[r].email, req[r].password, req[r].new, req[r].taken)
    /\ req[r].pc \in Points \ {"idle"}
    /\ req[r].email \in Emails
    /\ req[r].password \in Requests
    /\ req[r].pc = "credentials" => ~req[r].new

Shape == /\ DOMAIN req = Requests
         /\ \A r \in Requests : req[r] = Idle \/ Served(r)

\* The registration is committed and waits for its session.
Won(r) == req[r].pc = "session" /\ req[r].new

\* No two open transactions have written the same email.
Alone == \A r, q \in Requests : Open(r) /\ Open(q) /\ req[r].email = req[q].email => r = q

\* While a transaction has written an email, nobody has won it.
Unclaimed ==
    \A r \in Requests : Open(r) =>
       /\ \A p \in Requests : <<req[r].email, p>> \notin signedUp
       /\ \A q \in Requests : Won(q) => req[q].email # req[r].email

WinnersKeep ==
    \A r \in Requests : Won(r) => /\ req[r].email \in DOMAIN account
                                  /\ account[req[r].email] = req[r].password

WinnerInv == Shape /\ Alone /\ Unclaimed /\ WinnersKeep /\ WinnerOwnsAccount

-----------------------------------------------------------------------------
(* What a step does to accounts and requests. *)

Others(r) == DOMAIN req' = Requests /\ \A q \in Requests : q # r => req'[q] = req[q]

\* The seeding script adds accounts and changes none.
Seeds == /\ UNCHANGED <<req, signedUp>>
         /\ \A e \in DOMAIN account : e \in DOMAIN account' /\ account'[e] = account[e]

Ends(r) == Others(r) /\ req'[r] = Idle /\ UNCHANGED <<account, signedUp>>

\* A request arrives, or goes on without having written anything, or to its next INSERT.
Moves(r) == /\ Others(r) /\ Served(r)'
            /\ ~Won(r)'
            /\ Open(r)' => Open(r) /\ req'[r].email = req[r].email
            /\ UNCHANGED <<account, signedUp>>

\* The INSERT of the user.
Claims(r) == /\ Others(r) /\ Served(r)'
             /\ ~EmailWritten(r)
             /\ req[r].email \notin DOMAIN account
             /\ req'[r].email = req[r].email /\ ~Won(r)'
             /\ UNCHANGED <<account, signedUp>>

Commits(r) == /\ Others(r) /\ Served(r)' /\ Open(r)
              /\ req'[r].email = req[r].email /\ ~Open(r)'
              /\ \A e \in DOMAIN account : e \in DOMAIN account'
              /\ \A e \in DOMAIN account : e # req[r].email => account'[e] = account[e]
              /\ req[r].email \in DOMAIN account'
              /\ account'[req[r].email] = req'[r].password
              /\ UNCHANGED signedUp

\* 201, or 200 to a login.
Answers(r) == /\ Others(r) /\ req'[r] = Idle
              /\ \/ Won(r) /\ signedUp' = signedUp \union {<<req[r].email, req[r].password>>}
                 \/ UNCHANGED signedUp
              /\ UNCHANGED account

LEMMA AccountSteps ==
    ASSUME Shape, [Next]_vars
    PROVE  Seeds \/ \E r \in Requests : Ends(r) \/ Moves(r) \/ Claims(r) \/ Commits(r) \/ Answers(r)
<1>1. CASE UNCHANGED vars
  BY <1>1 DEF vars, tables, rows, accountVars, Seeds
<1>2. CASE ScriptStep
  <2>1. UNCHANGED account \/ SeedUsers
    BY <1>2 DEF ScriptStep, SeedStep, Start, Upsert, Crash, SeedCategories, SeedParticipant,
       SeedProject, SeedLink, SeedOperation, SeedShare, SeedAlert, ResetSequences, tables, rows
  <2>2. UNCHANGED accountVars
    BY <1>2 DEF ScriptStep
  <2> QED
    BY <2>1, <2>2 DEF SeedUsers, Seeds, accountVars
<1>3. ASSUME NEW r \in Requests, AccountStep(r)
      PROVE  Ends(r) \/ Moves(r) \/ Claims(r) \/ Commits(r) \/ Answers(r)
  <2> USE DEF Shape
  <2>a. ASSUME NEW s, req' = [req EXCEPT ![r] = s]
        PROVE  Others(r) /\ req'[r] = s
    BY <2>a DEF Others
  <2>b. ASSUME Answer(r) PROVE Others(r) /\ req'[r] = Idle
    BY <2>a, <2>b DEF Answer
  \* Go only changes the point.
  <2>c. ASSUME NEW pc \in Points \ {"idle"}, req[r].pc # "idle", Go(r, pc),
               pc = "credentials" => ~req[r].new
        PROVE  /\ Others(r) /\ Served(r)'
               /\ req'[r].pc = pc /\ req'[r].email = req[r].email
               /\ req'[r].password = req[r].password /\ req'[r].new = req[r].new
    <3>1. Served(r)
      BY <2>c DEF Idle
    <3>2. Others(r) /\ req'[r] = [req[r] EXCEPT !.pc = pc]
      BY <2>c DEF Go, Others
    <3>3. req'[r] = State(pc, req[r].email, req[r].password, req[r].new, req[r].taken)
      BY <3>1, <3>2 DEF Served, State
    <3> QED
      BY <2>c, <3>1, <3>2, <3>3 DEF Served, State
  <2> USE DEF tables, rows
  <2>1. CASE Register(r)
    <3> PICK e \in Emails : req' = [req EXCEPT ![r] = State("find", e, r, TRUE, Nothing)]
      BY <2>1 DEF Register
    <3>1. Others(r) /\ req'[r] = State("find", e, r, TRUE, Nothing)
      BY <2>a
    <3> QED
      BY <2>1, <3>1 DEF Register, Moves, Served, State, Points, Won, Open, InTransaction
  <2>2. CASE Login(r)
    <3> PICK e \in Emails, p \in Requests :
           req' = [req EXCEPT ![r] = State("credentials", e, p, FALSE, Nothing)]
      BY <2>2 DEF Login
    <3>1. Others(r) /\ req'[r] = State("credentials", e, p, FALSE, Nothing)
      BY <2>a
    <3> QED
      BY <2>2, <3>1 DEF Login, Moves, Served, State, Points, Won, Open, InTransaction
  <2>3. CASE FindUser(r)
    <3>1. CASE Answer(r)
      BY <2>3, <2>b, <3>1 DEF FindUser, Ends
    <3>2. CASE Go(r, "user")
      BY <2>3, <2>c, <3>2 DEF FindUser, Moves, Points, Won, Open, InTransaction
    <3> QED
      BY <2>3, <3>1, <3>2 DEF FindUser
  <2>4. CASE CreateUser(r)
    <3>1. CASE Answer(r)
      BY <2>4, <2>b, <3>1 DEF CreateUser, Ends
    <3>2. CASE Go(r, "participant") /\ req[r].email \notin DOMAIN account
      BY <2>4, <2>c, <3>2 DEF CreateUser, Waits, Claims, Points, Won
    <3> QED
      BY <2>4, <3>1, <3>2 DEF CreateUser
  <2>5. ASSUME NEW t \in InTransaction, NEW refused, NEW next \in InTransaction,
               InsertRows(r, t, refused, next)
        PROVE  Ends(r) \/ Moves(r)
    <3>1. CASE Answer(r)
      BY <2>5, <2>b, <3>1 DEF InsertRows, Ends
    <3>2. CASE ~Answer(r)
      <4>1. /\ req[r].pc = t
            /\ req' = [req EXCEPT ![r].taken[t] = NextIds(t, DemoRows(t)), ![r].pc = next]
            /\ UNCHANGED <<account, signedUp>>
        BY <2>5, <3>2 DEF InsertRows
      <4>2. Served(r) /\ Open(r)
        BY <2>5, <4>1 DEF Idle, InTransaction, Open
      <4>3. Others(r)
        BY <4>1 DEF Others
      <4>4. req'[r] = State(next, req[r].email, req[r].password, req[r].new, req'[r].taken)
        BY <4>1, <4>2 DEF Served, State
      <4> QED
        BY <2>5, <4>1, <4>2, <4>3, <4>4 DEF Moves, Served, State, Points, InTransaction, Won, Open
    <3> QED
      BY <3>1, <3>2
  <2>6. CASE CreateParticipants(r) \/ CreateProject(r) \/ CreateAlert(r) \/ CreateOperations(r)
    BY <2>5, <2>6 DEF CreateParticipants, CreateProject, CreateAlert, CreateOperations,
       InTransaction
  <2>7. CASE Commit(r)
    <3>1. /\ req[r].pc = "commit" /\ Go(r, "session") /\ UNCHANGED signedUp
          /\ account' = [e \in DOMAIN account \union {req[r].email} |->
                           IF e = req[r].email THEN req[r].password ELSE account[e]]
      BY <2>7 DEF Commit
    <3>2. /\ Others(r) /\ Served(r)' /\ req'[r].pc = "session"
          /\ req'[r].email = req[r].email /\ req'[r].password = req[r].password
      BY <2>c, <3>1 DEF Points
    <3> QED
      BY <3>1, <3>2 DEF Commits, Open, InTransaction
  <2>8. CASE OpenSession(r)
    BY <2>8, <2>b DEF OpenSession, Answers, Won
  <2>9. CASE CheckCredentials(r)
    <3>1. CASE Answer(r)
      BY <2>9, <2>b, <3>1 DEF CheckCredentials, Ends
    <3>2. CASE Go(r, "session")
      <4>1. ~req[r].new
        BY <2>9 DEF CheckCredentials, Idle, Served
      <4> QED
        BY <2>9, <2>c, <3>2, <4>1 DEF CheckCredentials, Moves, Points, Won, Open, InTransaction
    <3> QED
      BY <2>9, <3>1, <3>2 DEF CheckCredentials
  <2>10. CASE Abort(r)
    BY <2>10, <2>b DEF Abort, Ends
  <2> QED
    BY <1>3, <2>1, <2>2, <2>3, <2>4, <2>6, <2>7, <2>8, <2>9, <2>10 DEF AccountStep, Serve
<1> QED
  BY <1>1, <1>2, <1>3 DEF Next

-----------------------------------------------------------------------------
\* The INSERT of the user waits for whoever has written the email, and is refused
\* when the account is there: that is why nobody else can have won it.
LEMMA WinnerStep ==
    ASSUME WinnerInv, [Next]_vars
    PROVE  WinnerInv'
<1> USE DEF WinnerInv
<1>s. ASSUME NEW r \in Requests, Others(r), req'[r] = Idle \/ Served(r)'
      PROVE  Shape'
  BY <1>s DEF Shape, Others, Served
<1>i. \A r \in Requests : req'[r] = Idle => ~Open(r)' /\ ~Won(r)'
  BY DEF Idle, Open, InTransaction, Won
<1>1. CASE Seeds
  BY <1>1 DEF Seeds, Shape, Served, Alone, Open, Unclaimed, WinnersKeep, Won, WinnerOwnsAccount
<1>2. ASSUME NEW r \in Requests, Ends(r) PROVE WinnerInv'
  BY <1>2, <1>s, <1>i DEF Ends, Others, Alone, Open, Unclaimed, WinnersKeep, Won, WinnerOwnsAccount
<1>3. ASSUME NEW r \in Requests, Moves(r) PROVE WinnerInv'
  BY <1>3, <1>s DEF Moves, Others, Alone, Open, Unclaimed, WinnersKeep, Won, WinnerOwnsAccount
<1>4. ASSUME NEW r \in Requests, Claims(r) PROVE WinnerInv'
  BY <1>4, <1>s DEF Claims, Others, EmailWritten, Alone, Open, Unclaimed, WinnersKeep, Won,
     WinnerOwnsAccount, Served
<1>5. ASSUME NEW r \in Requests, Commits(r) PROVE WinnerInv'
  BY <1>5, <1>s DEF Commits, Others, Alone, Open, Unclaimed, WinnersKeep, Won, WinnerOwnsAccount
<1>6. ASSUME NEW r \in Requests, Answers(r) PROVE WinnerInv'
  BY <1>6, <1>s, <1>i DEF Answers, Others, Alone, Open, Unclaimed, WinnersKeep, Won,
     WinnerOwnsAccount
<1> QED
  BY <1>1, <1>2, <1>3, <1>4, <1>5, <1>6, AccountSteps

\* Two registrations may both find the email free: whoever is told 201 keeps the
\* account, for every number of requests, and however the script runs beside them.
THEOREM WinnersOwnTheirAccounts == Spec => []WinnerOwnsAccount
<1>1. Init => WinnerInv
  BY DEF Init, AccountsInit, WinnerInv, Shape, Alone, Unclaimed, WinnersKeep, WinnerOwnsAccount,
     Open, InTransaction, Won, Idle
<1>2. WinnerInv /\ [Next]_vars => WinnerInv'
  BY WinnerStep
<1>3. WinnerInv => WinnerOwnsAccount
  BY DEF WinnerInv
<1> QED
  BY <1>1, <1>2, <1>3, PTL DEF Spec

-----------------------------------------------------------------------------
(* The seeding script: what is in it, and in which order. *)

\* What FlattenSeq computes.
Builds(f, seqs, k) == f = [i \in 1..k |-> IF i = 1 THEN seqs[i] ELSE f[i - 1] \o seqs[i]]

LEMMA BuildsExists ==
    ASSUME NEW seqs, NEW n \in Nat, n # 0
    PROVE  \E f : Builds(f, seqs, n)
<1> DEFINE N == {k \in Nat : k # 0 /\ ~\E f : Builds(f, seqs, k)}
<1> SUFFICES ASSUME N # {}
             PROVE  FALSE
  OBVIOUS
<1>1. PICK k \in N : \A m \in N : k <= m
  <2> HIDE DEF N
  <2>1. N \in SUBSET Nat
    BY DEF N
  <2> QED
    BY <2>1, SmallestNumber
<1>2. CASE k = 1
  <2>1. Builds([i \in 1..1 |-> seqs[i]], seqs, 1)
    BY DEF Builds
  <2> QED
    BY <1>1, <1>2, <2>1
<1>3. CASE k # 1
  <2>1. k - 1 \in Nat /\ k - 1 # 0 /\ k - 1 \notin N
    BY <1>1, <1>3
  <2>2. PICK f : Builds(f, seqs, k - 1)
    BY <2>1
  <2> DEFINE g == [i \in 1..k |-> IF i = k THEN f[k - 1] \o seqs[k] ELSE f[i]]
  <2>3. ASSUME NEW i \in 1..k
        PROVE  g[i] = IF i = 1 THEN seqs[i] ELSE g[i - 1] \o seqs[i]
    <3>1. CASE i = k
      <4>1. k - 1 \in 1..k /\ k - 1 # k
        BY <1>1, <2>1
      <4>2. g[k - 1] = f[k - 1]
        BY <4>1
      <4>3. g[k] = f[k - 1] \o seqs[k]
        BY <3>1
      <4> HIDE DEF g
      <4> QED
        BY <1>3, <3>1, <4>2, <4>3
    <3>2. CASE i # k
      <4>1. i \in 1..(k - 1) /\ g[i] = f[i]
        BY <1>1, <3>2
      <4>2. f[i] = IF i = 1 THEN seqs[i] ELSE f[i - 1] \o seqs[i]
        BY <2>2, <4>1 DEF Builds
      <4>3. i # 1 => g[i - 1] = f[i - 1]
        BY <1>1, <4>1
      <4> QED
        BY <4>1, <4>2, <4>3
    <3> QED
      BY <3>1, <3>2
  <2>4. Builds(g, seqs, k)
    <3>1. g = [i \in 1..k |-> g[i]]
      OBVIOUS
    <3> HIDE DEF g
    <3> QED
      BY <2>3, <3>1 DEF Builds
  <2> QED
    BY <1>1, <2>4
<1> QED
  BY <1>2, <1>3

\* A set of sequences that is closed under concatenation holds what FlattenSeq
\* makes of sequences of the set.
LEMMA FlattenIn ==
    ASSUME NEW C, <<>> \in C, \A s, t \in C : s \o t \in C, NEW seqs \in Seq(C)
    PROVE  FlattenSeq(seqs) \in C
<1>1. CASE Len(seqs) = 0
  BY <1>1 DEF FlattenSeq
<1>2. CASE Len(seqs) # 0
  <2> DEFINE n == Len(seqs)
             f == CHOOSE f : Builds(f, seqs, n)
             N == {i \in 1..n : f[i] \notin C}
  <2>1. n \in Nat /\ n # 0
    BY <1>2
  <2>2. Builds(f, seqs, n)
    <3> HIDE DEF n
    <3> QED
      BY <2>1, BuildsExists
  <2>3. FlattenSeq(seqs) = f[n]
    BY <1>2, Zenon DEF FlattenSeq, Builds
  <2> HIDE DEF f
  <2>4. ASSUME N # {}
        PROVE  FALSE
    <3>1. N \in SUBSET Nat
      OBVIOUS
    <3>2. PICK i \in N : \A m \in N : i <= m
      <4> HIDE DEF N
      <4> QED
        BY <2>4, <3>1, SmallestNumber
    <3>3. f[i] = IF i = 1 THEN seqs[i] ELSE f[i - 1] \o seqs[i]
      BY <2>2, <3>2 DEF Builds
    <3>4. seqs[i] \in C
      BY <3>2
    <3>5. i # 1 => f[i - 1] \in C
      BY <2>1, <3>2
    <3> QED
      BY <3>2, <3>3, <3>4, <3>5
  <2>5. f[n] \in C
    BY <2>1, <2>4
  <2> QED
    BY <2>3, <2>5
<1> QED
  BY <1>1, <1>2

Kinds == {"categories", "users", "participant", "project", "link", "operation", "share",
          "alert", "reset"}

Names == STRING \union Serial \union {""}

Upserts == [do : Kinds, key : Nat, who : Names, amount : Nat]

LEMMA Doing ==
    ASSUME NEW what \in Kinds, NEW key \in Nat, NEW who \in Names, NEW amount \in Nat
    PROVE  /\ Do(what, key, who, amount) \in Upserts
           /\ Do(what, key, who, amount).do = what /\ Do(what, key, who, amount).key = key
           /\ Do(what, key, who, amount).who = who /\ Do(what, key, who, amount).amount = amount
BY DEF Do, Upserts

LEMMA Named == ASSUME NEW S \in Seq(STRING), NEW i \in DOMAIN S PROVE S[i] \in Names
<1>1. S[i] \in STRING
  OBVIOUS
<1> QED
  BY <1>1, Zenon DEF Names

After(w, n, what) == \E m \in 1..(n - 1) : w[m].do = what

\* The n-th upsert of w, one that comes after those of the participants.
Sound(w, n) ==
    /\ w[n].do \in {"project", "link", "operation", "share", "alert"}
    /\ w[n].do \in {"project", "alert"} => w[n].who \in Owners
    /\ w[n].do \in {"project", "operation", "alert"} => w[n].key # 0
    /\ w[n].do = "operation" => w[n].amount # 0
    /\ w[n].do \in {"link", "share"} => w[n].who \in ToSet(People)
    /\ w[n].do = "share" => After(w, n, "operation")

Shares      == {w \in Seq(Upserts) :
                  \A n \in DOMAIN w : w[n].do = "share" /\ w[n].who \in ToSet(People)}
SoundPart   == {w \in Seq(Upserts) : \A n \in DOMAIN w : Sound(w, n)}
ProjectPart == {w \in SoundPart :
                  \A n \in DOMAIN w : w[n].do = "project" \/ After(w, n, "project")}

LEMMA Listed ==
    ASSUME NEW S, NEW n \in Nat, NEW f \in [1..n -> S]
    PROVE  f \in Seq(S) /\ Len(f) = n
OBVIOUS

LEMMA ListedFew ==
    ASSUME NEW S, NEW a \in S, NEW b \in S
    PROVE  /\ <<a>> \in Seq(S) /\ Len(<<a>>) = 1 /\ <<a>>[1] = a
           /\ <<a, b>> \in Seq(S) /\ Len(<<a, b>>) = 2 /\ <<a, b>>[1] = a /\ <<a, b>>[2] = b
OBVIOUS

LEMMA Joined ==
    ASSUME NEW S, NEW s \in Seq(S), NEW t \in Seq(S)
    PROVE  /\ s \o t \in Seq(S)
           /\ Len(s \o t) = Len(s) + Len(t) /\ Len(s) \in Nat /\ Len(t) \in Nat
           /\ DOMAIN s = 1..Len(s) /\ DOMAIN t = 1..Len(t) /\ DOMAIN (s \o t) = 1..(Len(s) + Len(t))
           /\ \A n \in 1..Len(s) : (s \o t)[n] = s[n]
           /\ \A n \in 1..Len(t) : (s \o t)[Len(s) + n] = t[n]
           /\ \A n \in 1..(Len(s) + Len(t)) : n > Len(s) => (s \o t)[n] = t[n - Len(s)]
OBVIOUS

\* An upsert that has come before still has when more are added in front or behind.
LEMMA JoinedAfter ==
    ASSUME NEW s \in Seq(Upserts), NEW t \in Seq(Upserts), NEW what
    PROVE  /\ \A n \in 1..Len(s) : After(s, n, what) => After(s \o t, n, what)
           /\ \A n \in 1..Len(t) : After(t, n, what) => After(s \o t, Len(s) + n, what)
<1>1. ASSUME NEW n \in 1..Len(s), After(s, n, what)
      PROVE  After(s \o t, n, what)
  <2>1. PICK m \in 1..(n - 1) : s[m].do = what
    BY <1>1 DEF After
  <2>2. (s \o t)[m] = s[m]
    BY Joined
  <2> QED
    BY <2>1, <2>2 DEF After
<1>2. ASSUME NEW n \in 1..Len(t), After(t, n, what)
      PROVE  After(s \o t, Len(s) + n, what)
  <2>1. PICK m \in 1..(n - 1) : t[m].do = what
    BY <1>2 DEF After
  <2>2. (s \o t)[Len(s) + m] = t[m] /\ Len(s) + m \in 1..(Len(s) + n - 1)
    BY Joined
  <2> QED
    BY <2>1, <2>2 DEF After
<1> QED
  BY <1>1, <1>2

LEMMA JoinedParts ==
    /\ <<>> \in Shares /\ \A s, t \in Shares : s \o t \in Shares
    /\ <<>> \in SoundPart /\ \A s, t \in SoundPart : s \o t \in SoundPart
    /\ <<>> \in ProjectPart /\ \A s, t \in ProjectPart : s \o t \in ProjectPart
<1>1. <<>> \in Shares /\ <<>> \in SoundPart /\ <<>> \in ProjectPart
  BY DEF Shares, SoundPart, ProjectPart
<1>2. ASSUME NEW s \in Shares, NEW t \in Shares
      PROVE  s \o t \in Shares
  <2>1. s \in Seq(Upserts) /\ t \in Seq(Upserts)
    BY DEF Shares
  <2>2. ASSUME NEW n \in 1..(Len(s) + Len(t))
        PROVE  (s \o t)[n].do = "share" /\ (s \o t)[n].who \in ToSet(People)
    <3>1. CASE n <= Len(s)
      BY <2>1, <3>1, Joined DEF Shares
    <3>2. CASE n > Len(s)
      <4>1. n - Len(s) \in 1..Len(t)
        BY <2>1, <3>2, Joined
      <4> QED
        BY <2>1, <3>2, <4>1, Joined DEF Shares
    <3> QED
      BY <2>1, <3>1, <3>2, Joined
  <2>3. s \o t \in Seq(Upserts) /\ DOMAIN (s \o t) = 1..(Len(s) + Len(t))
    BY <2>1, Joined
  <2> QED
    BY <2>2, <2>3 DEF Shares
<1>3. ASSUME NEW s \in SoundPart, NEW t \in SoundPart
      PROVE  s \o t \in SoundPart
  <2>1. s \in Seq(Upserts) /\ t \in Seq(Upserts)
    BY DEF SoundPart
  <2>2. ASSUME NEW n \in 1..(Len(s) + Len(t))
        PROVE  Sound(s \o t, n)
    <3>1. CASE n <= Len(s)
      <4>1. n \in 1..Len(s) /\ n \in DOMAIN s /\ (s \o t)[n] = s[n]
        BY <2>1, <3>1, Joined
      <4>2. After(s, n, "operation") => After(s \o t, n, "operation")
        BY <2>1, <4>1, JoinedAfter
      <4>3. Sound(s, n)
        BY <4>1 DEF SoundPart
      <4> QED
        BY <4>1, <4>2, <4>3 DEF Sound
    <3>2. CASE n > Len(s)
      <4> DEFINE m == n - Len(s)
      <4>1. m \in 1..Len(t) /\ m \in DOMAIN t /\ (s \o t)[n] = t[m] /\ Len(s) + m = n
        BY <2>1, <3>2, Joined
      <4> HIDE DEF m
      <4>2. After(t, m, "operation") => After(s \o t, n, "operation")
        BY <2>1, <4>1, JoinedAfter
      <4>3. Sound(t, m)
        BY <4>1 DEF SoundPart
      <4> QED
        BY <4>1, <4>2, <4>3 DEF Sound
    <3> QED
      BY <2>1, <3>1, <3>2, Joined
  <2>3. s \o t \in Seq(Upserts) /\ DOMAIN (s \o t) = 1..(Len(s) + Len(t))
    BY <2>1, Joined
  <2> QED
    BY <2>2, <2>3 DEF SoundPart
<1>4. ASSUME NEW s \in ProjectPart, NEW t \in ProjectPart
      PROVE  s \o t \in ProjectPart
  <2>1. s \in Seq(Upserts) /\ t \in Seq(Upserts) /\ s \o t \in SoundPart
    BY <1>3 DEF ProjectPart, SoundPart
  <2>2. ASSUME NEW n \in 1..(Len(s) + Len(t))
        PROVE  (s \o t)[n].do = "project" \/ After(s \o t, n, "project")
    <3>1. CASE n <= Len(s)
      <4>1. n \in 1..Len(s) /\ n \in DOMAIN s /\ (s \o t)[n] = s[n]
        BY <2>1, <3>1, Joined
      <4> QED
        BY <2>1, <4>1, JoinedAfter DEF ProjectPart
    <3>2. CASE n > Len(s)
      <4> DEFINE m == n - Len(s)
      <4>1. m \in 1..Len(t) /\ m \in DOMAIN t /\ (s \o t)[n] = t[m] /\ Len(s) + m = n
        BY <2>1, <3>2, Joined
      <4> HIDE DEF m
      <4> QED
        BY <2>1, <4>1, JoinedAfter DEF ProjectPart
    <3> QED
      BY <2>1, <3>1, <3>2, Joined
  <2>3. DOMAIN (s \o t) = 1..(Len(s) + Len(t))
    BY <2>1, Joined
  <2> QED
    BY <2>1, <2>2, <2>3 DEF ProjectPart
<1> QED
  BY <1>1, <1>2, <1>3, <1>4

\* What the plan says of one project.
LEMMA Planned ==
    ASSUME NEW j \in DOMAIN Projects
    PROVE  /\ j \in Nat /\ j # 0
           /\ Projects[j].people \in Seq(STRING)
           /\ \A i \in DOMAIN Projects[j].people :
                 Projects[j].people[i] \in Names /\ Projects[j].people[i] \in ToSet(People)
           /\ Projects[j].owner \in Names /\ Projects[j].owner \in Owners
           /\ Projects[j].alert \in Nat
           /\ Projects[j].expenses \in Seq(Split)
           /\ \A e \in DOMAIN Projects[j].expenses :
                 /\ Projects[j].expenses[e] \in Split
                 /\ Projects[j].expenses[e].payer \in Names
                 /\ Len(Projects[j].expenses[e].shares) = Len(Projects[j].people)
<1>1. Projects[j] \in [owner : STRING, people : Seq(STRING), alert : Nat, expenses : Seq(Split)]
  <2> DEFINE P == [owner : STRING, people : Seq(STRING), alert : Nat, expenses : Seq(Split)]
  <2>1. Projects \in Seq(P)
    BY PlanAssumption
  <2> HIDE DEF P
  <2>2. Projects[j] \in P
    BY <2>1
  <2> QED
    BY <2>2 DEF P
<1>2. /\ ToSet(Projects[j].people) \subseteq ToSet(People)
      /\ \A e \in DOMAIN Projects[j].expenses :
            Len(Projects[j].expenses[e].shares) = Len(Projects[j].people)
  BY PlanAssumption
<1>3. j \in Nat /\ j # 0
  BY PlanAssumption
<1>4. \A i \in DOMAIN Projects[j].people : Projects[j].people[i] \in ToSet(Projects[j].people)
  BY DEF ToSet
<1>5. Projects[j].owner \in Owners
  BY DEF Owners
<1>6. Projects[j].owner \in Names
  <2>1. Projects[j].owner \in STRING
    BY <1>1
  <2> QED
    BY <2>1, Zenon DEF Names
<1>7. \A i \in DOMAIN Projects[j].people : Projects[j].people[i] \in Names
  BY <1>1, Named
<1>8. ASSUME NEW e \in DOMAIN Projects[j].expenses
      PROVE  Projects[j].expenses[e] \in Split /\ Projects[j].expenses[e].payer \in Names
  <2>1. Projects[j].expenses[e] \in Split
    BY <1>1
  <2>2. Projects[j].expenses[e].payer \in STRING
    BY <2>1 DEF Split
  <2> QED
    BY <2>1, <2>2, Zenon DEF Names
<1> QED
  BY <1>1, <1>2, <1>3, <1>4, <1>5, <1>6, <1>7, <1>8

LEMMA ExpensePart ==
    ASSUME NEW j \in DOMAIN Projects, NEW e \in DOMAIN Projects[j].expenses
    PROVE  ExpenseScript(Projects[j].people, Projects[j].expenses[e]) \in SoundPart
<1> DEFINE people  == Projects[j].people
           expense == Projects[j].expenses[e]
           parts   == [i \in DOMAIN people |->
                         IF expense.shares[i] = 0 THEN <<>>
                         ELSE <<Do("share", 0, people[i], expense.shares[i])>>]
           head    == <<Do("operation", expense.key, expense.payer, expense.amount)>>
           tail    == FlattenSeq(parts)
<1>1. /\ people \in Seq(STRING) /\ \A i \in DOMAIN people : people[i] \in ToSet(People)
      /\ \A i \in DOMAIN people : people[i] \in Names
      /\ expense \in Split /\ Len(expense.shares) = Len(people) /\ expense.payer \in Names
  BY Planned
<1> HIDE DEF people, expense
<1>2. parts \in Seq(Shares)
  <2>1. ASSUME NEW i \in DOMAIN people
        PROVE  parts[i] \in Shares
    <3>1. expense.shares[i] \in Nat
      BY <1>1 DEF Split
    <3>2. Do("share", 0, people[i], expense.shares[i]) \in Upserts
      BY <1>1, <3>1, Doing DEF Kinds
    <3> QED
      BY <1>1, <3>2 DEF Shares, Do
  <2>2. Len(people) \in Nat /\ parts \in [1..Len(people) -> Shares]
    <3> DOMAIN people = 1..Len(people) /\ Len(people) \in Nat
      BY <1>1
    <3> QED
      BY <2>1
  <2> HIDE DEF parts
  <2> QED
    BY <2>2, Listed
<1>3. tail \in Shares
  <2> HIDE DEF parts
  <2> QED
    BY <1>2, FlattenIn, JoinedParts
<1> HIDE DEF tail
<1>4. head[1] \in Upserts /\ head \in Seq(Upserts) /\ Len(head) = 1
  <2>1. expense.key \in Nat /\ expense.amount \in Nat
    BY <1>1 DEF Split
  <2>2. Do("operation", expense.key, expense.payer, expense.amount) \in Upserts
    BY <1>1, <2>1, Doing DEF Kinds
  <2> QED
    BY <2>2
<1>5. head[1].do = "operation" /\ head[1].key # 0 /\ head[1].amount # 0
  BY <1>1 DEF Split, Do
<1> HIDE DEF head
<1>6. tail \in Seq(Upserts)
  BY <1>3 DEF Shares
<1>7. /\ head \o tail \in Seq(Upserts) /\ DOMAIN (head \o tail) = 1..(1 + Len(tail))
      /\ Len(tail) \in Nat /\ (head \o tail)[1] = head[1]
      /\ \A n \in 1..(1 + Len(tail)) : n > 1 => (head \o tail)[n] = tail[n - 1]
  <2>1. /\ head \o tail \in Seq(Upserts) /\ DOMAIN (head \o tail) = 1..(Len(head) + Len(tail))
        /\ Len(tail) \in Nat
    <3>1. head \in Seq(Upserts)
      BY <1>4
    <3> QED
      BY <1>6, <3>1, Joined
  <2>2. \A n \in 1..(Len(head) + Len(tail)) : n > Len(head) => (head \o tail)[n] = tail[n - Len(head)]
    BY <1>4, <1>6, Joined
  <2>3. (head \o tail)[1] = head[1]
    <3>1. 1 \in 1..Len(head)
      BY <1>4
    <3> QED
      BY <1>4, <1>6, <3>1, Joined
  <2> QED
    BY <1>4, <2>1, <2>2, <2>3
<1>8. ASSUME NEW n \in 1..(1 + Len(tail))
      PROVE  Sound(head \o tail, n)
  <2>1. CASE n = 1
    BY <1>5, <1>7, <2>1 DEF Sound
  <2>2. CASE n > 1
    <3>1. n - 1 \in DOMAIN tail /\ (head \o tail)[n] = tail[n - 1]
      BY <1>6, <1>7, <2>2
    <3>2. (head \o tail)[n].do = "share" /\ (head \o tail)[n].who \in ToSet(People)
      BY <1>3, <3>1 DEF Shares
    <3>3. After(head \o tail, n, "operation")
      BY <1>5, <1>7, <2>2 DEF After
    <3> QED
      BY <3>2, <3>3 DEF Sound
  <2> QED
    BY <1>7, <2>1, <2>2
<1>9. head \o tail \in SoundPart
  BY <1>7, <1>8 DEF SoundPart
<1> QED
  BY <1>9 DEF ExpenseScript, people, expense, head, tail, parts

LEMMA ProjectParts ==
    ASSUME NEW j \in DOMAIN Projects
    PROVE  ProjectScript(j) \in ProjectPart
<1> DEFINE proj     == Projects[j]
           head     == <<Do("project", j, proj.owner, 0)>>
           links    == [i \in DOMAIN proj.people |-> Do("link", 0, proj.people[i], 0)]
           parts    == [e \in DOMAIN proj.expenses |-> ExpenseScript(proj.people, proj.expenses[e])]
           expenses == FlattenSeq(parts)
           last     == IF proj.alert = 0 THEN <<>> ELSE <<Do("alert", proj.alert, proj.owner, 0)>>
<1>1. /\ j \in Nat /\ j # 0
      /\ proj.people \in Seq(STRING) /\ \A i \in DOMAIN proj.people : proj.people[i] \in ToSet(People)
      /\ \A i \in DOMAIN proj.people : proj.people[i] \in Names
      /\ proj.owner \in Names /\ proj.alert \in Nat /\ proj.owner \in Owners
      /\ proj.expenses \in Seq(Split)
  BY Planned
<1>2. head \in SoundPart /\ Len(head) = 1 /\ head[1].do = "project"
  <2>1. Do("project", j, proj.owner, 0) \in Upserts
    BY <1>1, Doing DEF Kinds
  <2> QED
    BY <1>1, <2>1 DEF SoundPart, Sound, Do
<1>3. links \in SoundPart
  <2>1. \A i \in DOMAIN proj.people : Do("link", 0, proj.people[i], 0) \in Upserts
    BY <1>1, Doing DEF Kinds
  <2>2. links \in Seq(Upserts) /\ DOMAIN links = DOMAIN proj.people
    BY <1>1, <2>1
  <2>3. \A i \in DOMAIN links : Sound(links, i)
    BY <1>1, <2>2 DEF Sound, Do
  <2> QED
    BY <2>2, <2>3 DEF SoundPart
<1>4. expenses \in SoundPart
  <2>1. \A e \in DOMAIN proj.expenses : parts[e] \in SoundPart
    BY ExpensePart
  <2>2. parts \in Seq(SoundPart)
    <3>1. DOMAIN proj.expenses = 1..Len(proj.expenses) /\ Len(proj.expenses) \in Nat
      BY <1>1
    <3>2. parts \in [1..Len(proj.expenses) -> SoundPart]
      BY <2>1, <3>1
    <3> HIDE DEF parts
    <3> QED
      BY <3>1, <3>2, Listed
  <2> HIDE DEF parts
  <2> QED
    BY <2>2, FlattenIn, JoinedParts
<1>5. last \in SoundPart
  <2>1. Do("alert", proj.alert, proj.owner, 0) \in Upserts
    BY <1>1, Doing DEF Kinds
  <2> QED
    BY <1>1, <2>1 DEF SoundPart, Sound, Do
<1> DEFINE w == ((head \o links) \o expenses) \o last
<1>6. ProjectScript(j) = w
  BY DEF ProjectScript
<1> HIDE DEF head, links, expenses, last
<1>7. /\ head \o links \in SoundPart /\ (head \o links) \o expenses \in SoundPart
      /\ w \in SoundPart
  BY <1>2, <1>3, <1>4, <1>5, JoinedParts
<1>8. w[1] = head[1] /\ w \in Seq(Upserts)
  <2>1. /\ head \in Seq(Upserts) /\ links \in Seq(Upserts) /\ expenses \in Seq(Upserts)
        /\ last \in Seq(Upserts) /\ head \o links \in Seq(Upserts)
        /\ (head \o links) \o expenses \in Seq(Upserts) /\ w \in Seq(Upserts)
    BY <1>2, <1>3, <1>4, <1>5, <1>7 DEF SoundPart
  <2>2. (head \o links)[1] = head[1] /\ Len(head \o links) >= 1 /\ Len(head \o links) \in Nat
    BY <1>2, <2>1, Joined
  <2>3. /\ ((head \o links) \o expenses)[1] = (head \o links)[1]
        /\ Len((head \o links) \o expenses) >= 1 /\ Len((head \o links) \o expenses) \in Nat
    BY <2>1, <2>2, Joined
  <2>4. w[1] = ((head \o links) \o expenses)[1]
    <3> DEFINE v == (head \o links) \o expenses
    <3>1. v \in Seq(Upserts) /\ 1 \in 1..Len(v)
      BY <2>1, <2>3
    <3> HIDE DEF v
    <3>2. (v \o last)[1] = v[1]
      BY <2>1, <3>1, Joined
    <3> QED
      BY <3>2 DEF v
  <2> QED
    BY <2>1, <2>2, <2>3, <2>4
<1> HIDE DEF w
<1>9. \A n \in DOMAIN w : w[n].do = "project" \/ After(w, n, "project")
  <2>1. \A n \in DOMAIN w : n \in Nat /\ n >= 1
    BY <1>8
  <2> QED
    BY <1>2, <1>8, <2>1 DEF After
<1> QED
  BY <1>6, <1>7, <1>9 DEF ProjectPart

LEMMA ScriptShape ==
    /\ Script \in Seq(Upserts) /\ Len(Script) \in Nat
    /\ Len(People) \in Nat /\ Len(Script) >= Len(People) + 6
    /\ Script[1].do = "categories" /\ Script[2].do = "users"
    /\ \A n \in 3..(Len(People) + 2) :
          Script[n].do = "participant" /\ Script[n].key = n - 2 /\ Script[n].who = People[n - 2]
    /\ \A n \in (Len(People) + 3)..(Len(Script) - 4) :
          Sound(Script, n) /\ (Script[n].do = "project" \/ After(Script, n, "project"))
    /\ \A n \in 1..4 : /\ Script[Len(Script) - 4 + n].do = "reset"
                       /\ Script[Len(Script) - 4 + n].who = Resets[n]
<1> DEFINE A     == <<Do("categories", 0, "", 0), Do("users", 0, "", 0)>>
           B     == [i \in DOMAIN People |-> Do("participant", i, People[i], 0)]
           parts == [j \in DOMAIN Projects |-> ProjectScript(j)]
           F     == FlattenSeq(parts)
           R     == [i \in DOMAIN Resets |-> Do("reset", 0, Resets[i], 0)]
<1>1. /\ A \in Seq(Upserts) /\ Len(A) = 2
      /\ A[1].do = "categories" /\ A[2].do = "users"
  <2>1. Do("categories", 0, "", 0) \in Upserts /\ Do("users", 0, "", 0) \in Upserts
    BY Doing DEF Kinds, Names
  <2>2. Do("categories", 0, "", 0).do = "categories" /\ Do("users", 0, "", 0).do = "users"
    BY DEF Do
  <2> QED
    BY <2>1, <2>2, ListedFew, Zenon
<1>2. /\ B \in Seq(Upserts) /\ Len(B) = Len(People) /\ Len(People) \in Nat
      /\ \A i \in 1..Len(People) : B[i].do = "participant" /\ B[i].key = i /\ B[i].who = People[i]
  <2>1. People \in Seq(STRING)
    BY PlanAssumption
  <2>2. /\ DOMAIN People = 1..Len(People) /\ Len(People) \in Nat
        /\ \A i \in 1..Len(People) : People[i] \in Names
    BY <2>1, Named
  <2>3. \A i \in 1..Len(People) : B[i] = Do("participant", i, People[i], 0)
    BY <2>2
  <2>4. \A i \in 1..Len(People) : Do("participant", i, People[i], 0) \in Upserts
    BY <2>2, Doing DEF Kinds
  <2>5. B \in [1..Len(People) -> Upserts]
    BY <2>2, <2>3, <2>4
  <2> HIDE DEF B
  <2>6. B \in Seq(Upserts) /\ Len(B) = Len(People)
    BY <2>2, <2>5, Listed
  <2>7. ASSUME NEW i \in 1..Len(People)
        PROVE  B[i].do = "participant" /\ B[i].key = i /\ B[i].who = People[i]
    <3>1. B[i] = Do("participant", i, People[i], 0)
      BY <2>3
    <3> QED
      BY <3>1 DEF Do
  <2> QED
    BY <2>2, <2>6, <2>7
<1>3. F \in ProjectPart
  <2>1. parts \in Seq(ProjectPart)
    <3>1. DOMAIN Projects = 1..Len(Projects) /\ Len(Projects) \in Nat
      BY PlanAssumption
    <3>2. parts \in [1..Len(Projects) -> ProjectPart]
      BY <3>1, ProjectParts
    <3> HIDE DEF parts
    <3> QED
      BY <3>1, <3>2, Listed
  <2> HIDE DEF parts
  <2> QED
    BY <2>1, FlattenIn, JoinedParts
<1>4. /\ R \in Seq(Upserts) /\ Len(R) = 4
      /\ \A i \in 1..4 : R[i].do = "reset" /\ R[i].who = Resets[i]
  <2>1. DOMAIN Resets = 1..4
    BY DEF Resets
  <2>2. \A i \in 1..4 : Resets[i] \in Names
    <3>1. \A i \in 1..4 : Resets[i] \in Serial
      BY DEF Resets, Serial
    <3> QED
      BY <3>1, Zenon DEF Names
  <2>3. \A i \in 1..4 : R[i] = Do("reset", 0, Resets[i], 0)
    BY <2>1
  <2>4. \A i \in 1..4 : Do("reset", 0, Resets[i], 0) \in Upserts
    BY <2>2, Doing DEF Kinds
  <2>5. R \in [1..4 -> Upserts]
    BY <2>1, <2>3, <2>4
  <2> HIDE DEF R
  <2>6. R \in Seq(Upserts) /\ Len(R) = 4
    BY <2>5, Listed
  <2>7. ASSUME NEW i \in 1..4
        PROVE  R[i].do = "reset" /\ R[i].who = Resets[i]
    <3>1. R[i] = Do("reset", 0, Resets[i], 0)
      BY <2>3
    <3> QED
      BY <3>1 DEF Do
  <2> QED
    BY <2>6, <2>7
<1>5. Script = ((A \o B) \o F) \o R
  BY DEF Script
<1> HIDE DEF A, B, F, R
<1> DEFINE G == A \o B
           H == G \o F
           p == Len(People)
<1>6. F \in Seq(Upserts)
  BY <1>3 DEF ProjectPart, SoundPart
<1>7. /\ G \in Seq(Upserts) /\ Len(G) = p + 2
      /\ \A n \in 1..2 : G[n] = A[n]
      /\ \A n \in 1..p : G[2 + n] = B[n]
  <2>1. A \in Seq(Upserts) /\ B \in Seq(Upserts) /\ Len(A) = 2 /\ Len(B) = p /\ p \in Nat
    BY <1>1, <1>2
  <2>2. G \in Seq(Upserts) /\ Len(G) = Len(A) + Len(B)
    BY <2>1, Joined
  <2>3. \A n \in 1..Len(A) : G[n] = A[n]
    BY <2>1, Joined
  <2>4. \A n \in 1..Len(B) : G[Len(A) + n] = B[n]
    <3>1. A \in Seq(Upserts) /\ B \in Seq(Upserts)
      BY <2>1
    <3> QED
      BY <3>1, Joined
  <2> HIDE DEF G
  <2> QED
    BY <2>1, <2>2, <2>3, <2>4
<1> HIDE DEF G
<1>8. /\ H \in Seq(Upserts) /\ Len(H) = Len(G) + Len(F) /\ Len(F) \in Nat
      /\ \A n \in 1..Len(G) : H[n] = G[n]
      /\ \A n \in 1..Len(F) : H[Len(G) + n] = F[n]
  <2>1. H \in Seq(Upserts) /\ Len(H) = Len(G) + Len(F) /\ Len(F) \in Nat
    BY <1>6, <1>7, Joined
  <2>2. \A n \in 1..Len(G) : H[n] = G[n]
    BY <1>6, <1>7, Joined
  <2>3. \A n \in 1..Len(F) : H[Len(G) + n] = F[n]
    BY <1>6, <1>7, Joined
  <2> QED
    BY <2>1, <2>2, <2>3
<1>9. /\ \A n \in 1..Len(F) : Sound(H, Len(G) + n)
      /\ \A n \in 1..Len(F) : H[Len(G) + n].do = "project" \/ After(H, Len(G) + n, "project")
  <2> SUFFICES ASSUME NEW n \in 1..Len(F)
               PROVE  /\ Sound(H, Len(G) + n)
                      /\ H[Len(G) + n].do = "project" \/ After(H, Len(G) + n, "project")
    OBVIOUS
  <2>1. Sound(F, n) /\ (F[n].do = "project" \/ After(F, n, "project"))
    <3> n \in DOMAIN F
      BY <1>6
    <3> QED
      BY <1>3 DEF ProjectPart, SoundPart
  <2>2. /\ After(F, n, "operation") => After(H, Len(G) + n, "operation")
        /\ After(F, n, "project") => After(H, Len(G) + n, "project")
    BY <1>6, <1>7, JoinedAfter
  <2>3. H[Len(G) + n] = F[n]
    BY <1>8
  <2> HIDE DEF H
  <2> QED
    BY <2>1, <2>2, <2>3 DEF Sound
<1> HIDE DEF H
<1>10. /\ H \o R \in Seq(Upserts) /\ Len(H \o R) = Len(H) + 4 /\ Len(H) \in Nat
       /\ \A n \in 1..Len(H) : (H \o R)[n] = H[n]
       /\ \A n \in 1..4 : (H \o R)[Len(H) + n] = R[n]
  <2>1. H \in Seq(Upserts) /\ R \in Seq(Upserts) /\ Len(R) = 4
    BY <1>4, <1>8
  <2>2. H \o R \in Seq(Upserts) /\ Len(H \o R) = Len(H) + Len(R) /\ Len(H) \in Nat
    BY <2>1, Joined
  <2>3. /\ \A n \in 1..Len(H) : (H \o R)[n] = H[n]
        /\ \A n \in 1..4 : (H \o R)[Len(H) + n] = R[n]
    BY <2>1, Joined
  <2> QED
    BY <2>1, <2>2, <2>3
<1>11. \A n \in 1..Len(H) : /\ Sound(H, n) => Sound(Script, n)
                            /\ After(H, n, "project") => After(Script, n, "project")
  <2> SUFFICES ASSUME NEW n \in 1..Len(H)
               PROVE  /\ Sound(H, n) => Sound(Script, n)
                      /\ After(H, n, "project") => After(Script, n, "project")
    OBVIOUS
  <2>1. Script = H \o R
    BY <1>5 DEF G, H
  <2>2. /\ After(H, n, "operation") => After(Script, n, "operation")
        /\ After(H, n, "project") => After(Script, n, "project")
    BY <1>4, <1>8, <2>1, JoinedAfter
  <2>3. Script[n] = H[n]
    BY <1>10, <2>1
  <2> QED
    BY <2>2, <2>3 DEF Sound
<1>12. Script = H \o R
  BY <1>5 DEF G, H
<1>13. p \in Nat /\ Len(H) = p + 2 + Len(F) /\ Len(Script) = p + 6 + Len(F) /\ Len(F) \in Nat
  BY <1>2, <1>7, <1>8, <1>10, <1>12
<1>14. Script[1].do = "categories" /\ Script[2].do = "users"
  <2>1. 1 \in 1..Len(H) /\ 2 \in 1..Len(H) /\ 1 \in 1..Len(G) /\ 2 \in 1..Len(G)
    BY <1>7, <1>13
  <2> QED
    BY <1>1, <1>7, <1>8, <1>10, <1>12, <2>1
<1>15. ASSUME NEW n \in 3..(p + 2)
       PROVE  Script[n].do = "participant" /\ Script[n].key = n - 2 /\ Script[n].who = People[n - 2]
  <2>1. n - 2 \in 1..p /\ 2 + (n - 2) = n /\ n \in 1..Len(G) /\ n \in 1..Len(H)
    BY <1>7, <1>13
  <2>2. G[n] = B[n - 2]
    BY <1>7, <2>1
  <2>3. Script[n] = B[n - 2]
    BY <1>8, <1>10, <1>12, <2>1, <2>2
  <2> QED
    BY <1>2, <2>1, <2>3
<1>16. ASSUME NEW n \in (p + 3)..(Len(Script) - 4)
       PROVE  Sound(Script, n) /\ (Script[n].do = "project" \/ After(Script, n, "project"))
  <2> DEFINE m == n - (p + 2)
  <2>1. m \in 1..Len(F) /\ Len(G) + m = n /\ n \in 1..Len(H)
    BY <1>7, <1>13
  <2> HIDE DEF m
  <2>2. Sound(H, n) /\ (H[n].do = "project" \/ After(H, n, "project"))
    BY <1>9, <2>1
  <2>3. Script[n] = H[n]
    BY <1>10, <1>12, <2>1
  <2> QED
    BY <1>11, <2>1, <2>2, <2>3
<1>17. ASSUME NEW n \in 1..4
       PROVE  /\ Script[Len(Script) - 4 + n].do = "reset"
              /\ Script[Len(Script) - 4 + n].who = Resets[n]
  <2>1. Len(Script) - 4 + n = Len(H) + n
    BY <1>10, <1>12
  <2>2. Script[Len(H) + n] = R[n]
    BY <1>10, <1>12
  <2> QED
    BY <1>4, <2>1, <2>2
<1>18. /\ Script \in Seq(Upserts) /\ Len(Script) \in Nat
       /\ p \in Nat /\ Len(Script) >= p + 6
  BY <1>10, <1>12, <1>13
<1>19. /\ \A n \in 3..(p + 2) :
             Script[n].do = "participant" /\ Script[n].key = n - 2 /\ Script[n].who = People[n - 2]
       /\ \A n \in (p + 3)..(Len(Script) - 4) :
             Sound(Script, n) /\ (Script[n].do = "project" \/ After(Script, n, "project"))
  BY <1>15, <1>16
<1>20. \A n \in 1..4 : /\ Script[Len(Script) - 4 + n].do = "reset"
                       /\ Script[Len(Script) - 4 + n].who = Resets[n]
  BY <1>17
<1> QED
  BY <1>14, <1>18, <1>19, <1>20 DEF p

-----------------------------------------------------------------------------
(* Where the script is. *)

Running == todo # <<>>

\* How many upserts it has run.
Ran == Len(Script) - Len(todo)

TodoInv == /\ todo \in Seq(Upserts)
           /\ Len(todo) <= Len(Script)
           /\ \A i \in 1..Len(todo) : todo[i] = Script[Ran + i]

LEMMA Turn ==
    ASSUME TodoInv, Running
    PROVE  /\ Ran \in Nat /\ Ran + 1 \in 1..Len(Script)
           /\ Step = Script[Ran + 1] /\ Step \in Upserts
           /\ Step.do = "categories" => Ran = 0
           /\ Step.do = "users" => Ran = 1
           /\ Step.do = "participant" =>
                 /\ Ran >= 2 /\ Ran < Len(People) + 2
                 /\ Step.key = Ran - 1 /\ Step.who = People[Ran - 1]
           /\ Step.do \in {"project", "link", "operation", "share", "alert"} =>
                 /\ Ran >= Len(People) + 2
                 /\ Sound(Script, Ran + 1)
                 /\ Step.do = "project" \/ After(Script, Ran + 1, "project")
           /\ Step.do = "reset" <=> Ran + 4 >= Len(Script)
           /\ Step.do = "reset" => /\ Ran >= Len(People) + 2
                                  /\ Ran + 5 - Len(Script) \in 1..4
                                  /\ Step.who = Resets[Ran + 5 - Len(Script)]
<1>1. /\ Len(todo) \in Nat /\ Len(todo) # 0 /\ Len(Script) \in Nat /\ Len(todo) <= Len(Script)
      /\ Step = todo[1] /\ Len(People) \in Nat /\ Len(Script) >= Len(People) + 6
  BY ScriptShape DEF TodoInv, Running, Step
<1>2. Ran \in Nat /\ Ran + 1 \in 1..Len(Script)
  BY <1>1 DEF Ran
<1>3. Step = Script[Ran + 1] /\ Step \in Upserts
  BY <1>1 DEF TodoInv
<1> DEFINE n == Ran + 1
<1>4. CASE n = 1
  BY <1>1, <1>2, <1>3, <1>4, ScriptShape
<1>5. CASE n = 2
  BY <1>1, <1>2, <1>3, <1>5, ScriptShape
<1>6. CASE n \in 3..(Len(People) + 2)
  <2>1. Script[n].do = "participant" /\ Script[n].key = n - 2 /\ Script[n].who = People[n - 2]
    BY <1>6, ScriptShape
  <2>2. n - 2 = Ran - 1 /\ Ran >= 2 /\ Ran < Len(People) + 2 /\ Ran + 4 < Len(Script)
    BY <1>1, <1>2, <1>6
  <2> QED
    BY <1>2, <1>3, <2>1, <2>2
<1>7. CASE n \in (Len(People) + 3)..(Len(Script) - 4)
  <2>1. Sound(Script, n) /\ (Script[n].do = "project" \/ After(Script, n, "project"))
    BY <1>7, ScriptShape
  <2>2. Script[n].do \in {"project", "link", "operation", "share", "alert"}
    BY <2>1 DEF Sound
  <2>3. Ran >= Len(People) + 2 /\ Ran + 4 < Len(Script)
    BY <1>1, <1>2, <1>7
  <2> QED
    BY <1>2, <1>3, <2>1, <2>2, <2>3
<1>8. CASE n \in (Len(Script) - 3)..Len(Script)
  <2> DEFINE m == n + 4 - Len(Script)
  <2>1. m \in 1..4 /\ Len(Script) - 4 + m = n /\ m = Ran + 5 - Len(Script)
    BY <1>1, <1>2, <1>8
  <2>2. Ran >= Len(People) + 2 /\ Ran + 4 >= Len(Script)
    BY <1>1, <1>2, <1>8
  <2> HIDE DEF m
  <2>3. Script[n].do = "reset" /\ Script[n].who = Resets[m]
    BY <2>1, ScriptShape
  <2> QED
    BY <1>2, <1>3, <2>1, <2>2, <2>3
<1>9. \/ n = 1 \/ n = 2 \/ n \in 3..(Len(People) + 2)
      \/ n \in (Len(People) + 3)..(Len(Script) - 4) \/ n \in (Len(Script) - 3)..Len(Script)
  BY <1>1, <1>2
<1> QED
  BY <1>4, <1>5, <1>6, <1>7, <1>8, <1>9

LEMMA Turned ==
    ASSUME TodoInv, Running, Step.do # "reset" \/ Len(todo) > 1, todo' = Tail(todo)
    PROVE  TodoInv' /\ Running' /\ Ran' = Ran + 1
<1>0. Script' = Script
  OBVIOUS
<1>1. /\ Len(todo) \in Nat /\ Len(todo) # 0 /\ Len(Script) \in Nat /\ Len(todo) <= Len(Script)
      /\ Ran \in Nat
  BY Turn, ScriptShape DEF TodoInv, Running
<1>2. /\ todo' \in Seq(Upserts) /\ Len(todo') = Len(todo) - 1
      /\ \A i \in 1..(Len(todo) - 1) : todo'[i] = todo[i + 1]
  BY <1>1 DEF TodoInv
<1>3. Len(todo') # 0 /\ Ran' = Ran + 1
  <2>1. Ran = Len(Script) - Len(todo)
    BY DEF Ran
  <2>2. Ran' = Len(Script) - Len(todo')
    BY DEF Ran
  <2>3. Len(todo) # 1
    <3>1. Step.do # "reset" => Len(todo) > 4
      <4>1. Step.do = "reset" <=> Ran + 4 >= Len(Script)
        BY Turn
      <4> QED
        BY <1>1, <2>1, <4>1
    <3> QED
      BY <1>1, <3>1
  <2>4. Len(todo') = Len(todo) - 1
    BY <1>2
  <2>5. Len(todo') # 0
    BY <1>1, <2>3, <2>4
  <2>6. Ran' = Ran + 1
    BY <1>1, <2>1, <2>2, <2>4
  <2> QED
    BY <2>5, <2>6
<1>4. ASSUME NEW i \in 1..Len(todo')
      PROVE  todo'[i] = Script[Ran' + i]
  <2>1. i + 1 \in 1..Len(todo) /\ Ran' + i = Ran + (i + 1)
    BY <1>1, <1>2, <1>3
  <2>2. todo[i + 1] = Script[Ran + (i + 1)]
    BY <2>1 DEF TodoInv
  <2> QED
    BY <1>1, <1>2, <2>1, <2>2
<1>5. Len(todo') <= Len(Script)
  BY <1>1, <1>2
<1>6. todo' # <<>>
  BY <1>3
<1>7. TodoInv'
  BY <1>0, <1>2, <1>4, <1>5 DEF TodoInv
<1> QED
  BY <1>3, <1>6, <1>7 DEF Running

-----------------------------------------------------------------------------
(* What the script has in hand, and the tables, after each of its steps. *)

Positive(S) == IsFiniteSet(S) /\ S \subseteq Nat \ {0}

RowsInv == /\ TablesOK
           /\ Positive(DOMAIN participant)
           /\ Positive(DOMAIN project)
           /\ Positive(DOMAIN operation)
           /\ Positive(DOMAIN alert)

\* How many people the script has seen to after n upserts.
PeopleBy(n) == IF n <= 2 THEN 0 ELSE IF n <= Len(People) + 2 THEN n - 2 ELSE Len(People)

LocalsInv ==
    /\ SeedOK
    /\ ~Running => person = <<>> /\ current = 0 /\ created = 0
    /\ Running =>
          /\ Len(person) = PeopleBy(Ran)
          /\ Ran >= 2 => Owners \subseteq DOMAIN account
          /\ \A m \in 1..Ran : /\ Script[m].do = "project" => current # 0
                               /\ Script[m].do = "operation" => created # 0

ScriptInv == RowsInv /\ TodoInv /\ LocalsInv

LEMMA AddedRow ==
    ASSUME NEW table, NEW id, NEW columns
    PROVE  /\ DOMAIN Added(table, Row(id, columns)) = (DOMAIN table) \union {id}
           /\ \A x \in DOMAIN table : Added(table, Row(id, columns))[x] = table[x]
           /\ id \notin DOMAIN table => Added(table, Row(id, columns))[id] = columns
           /\ \A x \in DOMAIN Added(table, Row(id, columns)) :
                 \/ x \in DOMAIN table /\ Added(table, Row(id, columns))[x] = table[x]
                 \/ Added(table, Row(id, columns))[x] = columns
BY DEF Added, Row

LEMMA PositiveMore ==
    ASSUME NEW S, Positive(S), NEW id \in Nat, id # 0
    PROVE  Positive(S \union {id})
BY FS_AddElement DEF Positive

LEMMA IdsAre ==
    /\ Ids["participant"] = DOMAIN participant /\ Ids["project"] = DOMAIN project
    /\ Ids["operation"] = DOMAIN operation /\ Ids["alert"] = DOMAIN alert
BY DEF Ids

\* The row an upsert comes back with, and the sequence it may have moved.
LEMMA Taken ==
    ASSUME sequence \in [Serial -> Nat], NEW t \in Serial, Positive(Ids[t]),
           NEW key \in Nat, key # 0, TakeId(t, key)
    PROVE  /\ Upserted(t, key) \in Nat /\ Upserted(t, key) # 0
           /\ sequence' \in [Serial -> Nat]
           /\ key \in Ids[t] => Upserted(t, key) = key /\ sequence' = sequence
           /\ key \notin Ids[t] => /\ Upserted(t, key) = sequence[t] + 1
                                   /\ sequence' = [sequence EXCEPT ![t] = @ + 1]
BY DEF TakeId, Upserted, Found, NewId, Positive

\* One more upsert was run, and what the next ones refer to is there.
LEMMA LocalsStep ==
    ASSUME TodoInv, LocalsInv, Running, Step.do # "reset" \/ Len(todo) > 1, todo' = Tail(todo),
           SeedOK', Len(person') = PeopleBy(Ran + 1),
           Ran + 1 >= 2 => Owners \subseteq DOMAIN account',
           current # 0 \/ Step.do = "project" => current' # 0,
           created # 0 \/ Step.do = "operation" => created' # 0
    PROVE  TodoInv' /\ LocalsInv'
<1>1. TodoInv' /\ Running' /\ Ran' = Ran + 1
  BY Turned
<1>2. Ran \in Nat /\ Step = Script[Ran + 1]
  BY Turn
<1>3. ASSUME NEW m \in 1..(Ran + 1)
      PROVE  /\ Script[m].do = "project" => current' # 0
             /\ Script[m].do = "operation" => created' # 0
  <2>1. CASE m = Ran + 1
    BY <1>2, <2>1
  <2>2. CASE m # Ran + 1
    <3>1. m \in 1..Ran
      BY <1>2, <2>2
    <3> QED
      BY <3>1 DEF LocalsInv
  <2> QED
    BY <2>1, <2>2
<1> QED
  BY <1>1, <1>3 DEF LocalsInv

\* Upserts of one kind only move the people that are known.
LEMMA PeopleNext ==
    ASSUME TodoInv, LocalsInv, Running
    PROVE  /\ Step.do # "participant" => PeopleBy(Ran + 1) = PeopleBy(Ran)
           /\ Step.do = "participant" => /\ PeopleBy(Ran + 1) = PeopleBy(Ran) + 1
                                         /\ Len(person) = Step.key - 1
           /\ PeopleBy(Ran) \in Nat /\ PeopleBy(Ran) <= Len(People)
           /\ Step.do \in {"project", "link", "operation", "share", "alert"} =>
                 Len(person) = Len(People)
           /\ Step.do # "categories" /\ Step.do # "users" => Ran >= 2
<1>1. /\ Ran \in Nat /\ Len(People) \in Nat /\ Step \in Upserts
      /\ Step.do = "categories" => Ran = 0
      /\ Step.do = "users" => Ran = 1
      /\ Step.do = "participant" => Ran >= 2 /\ Ran < Len(People) + 2 /\ Step.key = Ran - 1
      /\ Step.do \in {"project", "link", "operation", "share", "alert"} => Ran >= Len(People) + 2
  BY Turn, ScriptShape
<1>2. Len(person) = PeopleBy(Ran)
  BY DEF LocalsInv
<1>3. Step.do \in Kinds
  BY <1>1 DEF Upserts
<1>4. CASE Step.do \in {"categories", "users"}
  BY <1>1, <1>2, <1>4 DEF PeopleBy
<1>5. CASE Step.do = "participant"
  BY <1>1, <1>2, <1>5 DEF PeopleBy
<1>6. CASE Step.do \in {"project", "link", "operation", "share", "alert"}
  BY <1>1, <1>2, <1>6 DEF PeopleBy
<1>7. CASE Step.do = "reset"
  <2>1. Ran >= Len(People) + 2
    BY <1>7, Turn
  <2>2. /\ PeopleBy(Ran) \in Nat /\ PeopleBy(Ran) <= Len(People)
        /\ PeopleBy(Ran + 1) = PeopleBy(Ran)
    BY <1>1, <2>1 DEF PeopleBy
  <2>3. Ran >= 2
    BY <1>1, <2>1
  <2> QED
    BY <1>7, <2>2, <2>3
<1> QED
  BY <1>3, <1>4, <1>5, <1>6, <1>7 DEF Kinds

\* Everybody the script names has a row by then.
LEMMA PersonFound ==
    ASSUME TodoInv, LocalsInv, Running, Step.do \in {"link", "share"}
    PROVE  PersonOf(Step.who) \in DOMAIN participant
<1>1. Step.who \in ToSet(People) /\ Len(person) = Len(People)
  BY Turn, PeopleNext DEF Sound
<1>2. \E i \in DOMAIN People : People[i] = Step.who
  BY <1>1 DEF ToSet
<1> DEFINE k == CHOOSE i \in DOMAIN People : People[i] = Step.who
<1>3. k \in DOMAIN People
  BY <1>2
<1> HIDE DEF k
<1>4. person \in Seq(DOMAIN participant) /\ People \in Seq(STRING)
  BY PlanAssumption DEF LocalsInv, SeedOK
<1>5. DOMAIN People = 1..Len(People) /\ DOMAIN person = 1..Len(person)
  BY <1>4
<1>6. k \in 1..Len(person)
  BY <1>1, <1>3, <1>5
<1>7. person[k] \in DOMAIN participant
  BY <1>4, <1>6
<1> QED
  BY <1>7 DEF PersonOf, k

\* The project, and the expense, of what is being seeded.
LEMMA CurrentFound ==
    ASSUME TodoInv, LocalsInv, Running
    PROVE  /\ Step.do \in {"link", "operation"} => current \in DOMAIN project
           /\ Step.do = "share" => created \in DOMAIN operation
           /\ Step.do \in {"project", "alert"} =>
                 Step.who \in Owners /\ Owners \subseteq DOMAIN account
<1>1. /\ Step = Script[Ran + 1] /\ Ran \in Nat /\ Len(People) \in Nat
      /\ Step.do \in {"project", "link", "operation", "share", "alert"} =>
            /\ Ran >= Len(People) + 2
            /\ Sound(Script, Ran + 1)
            /\ Step.do = "project" \/ After(Script, Ran + 1, "project")
  BY Turn, ScriptShape
<1>2. /\ current \in DOMAIN project \union {0} /\ created \in DOMAIN operation \union {0}
      /\ Ran >= 2 => Owners \subseteq DOMAIN account
      /\ \A m \in 1..Ran : /\ Script[m].do = "project" => current # 0
                           /\ Script[m].do = "operation" => created # 0
  BY DEF LocalsInv, SeedOK
<1>3. \A what : After(Script, Ran + 1, what) => \E m \in 1..Ran : Script[m].do = what
  BY <1>1 DEF After
<1>4. Step.do \in {"link", "operation"} => current \in DOMAIN project
  BY <1>1, <1>2, <1>3
<1>5. Step.do = "share" => created \in DOMAIN operation
  BY <1>1, <1>2, <1>3 DEF Sound
<1>6. Step.do \in {"project", "alert"} => Step.who \in Owners /\ Owners \subseteq DOMAIN account
  BY <1>1, <1>2 DEF Sound
<1> QED
  BY <1>4, <1>5, <1>6

\* A new row with an id of its own, in one table.
LEMMA PositiveRow ==
    ASSUME NEW table, Positive(DOMAIN table), NEW id \in Nat, id # 0, NEW columns
    PROVE  Positive(DOMAIN Added(table, Row(id, columns)))
<1>1. DOMAIN Added(table, Row(id, columns)) = (DOMAIN table) \union {id}
  BY AddedRow
<1>2. Positive((DOMAIN table) \union {id})
  BY PositiveMore
<1> QED
  BY <1>1, <1>2

\* The smallest of the counts that matter is one of them.
LEMMA LeastIn ==
    ASSUME NEW S \in SUBSET Nat, S # {}
    PROVE  Min(S) \in S /\ \A n \in S : Min(S) <= n
<1>1. \E n \in S : \A m \in S : n <= m
  BY SmallestNumber
<1> QED
  BY <1>1 DEF Min

LEMMA LastIdIs ==
    ASSUME NEW t \in Serial, Positive(Ids[t]), sequence[t] \in Nat
    PROVE  /\ LastId(t) \in Nat
           /\ \A i \in Ids[t] : i <= LastId(t)
           /\ Ids[t] # {} => LastId(t) \in Ids[t]
           /\ Ids[t] = {} => LastId(t) = sequence[t]
<1>1. CASE Ids[t] = {}
  BY <1>1 DEF LastId
<1>2. CASE Ids[t] # {}
  <2>1. Ids[t] \in SUBSET Nat /\ IsFiniteSet(Ids[t])
    BY DEF Positive
  <2>2. \E m \in Ids[t] : \A i \in Ids[t] : i <= m
    BY <1>2, <2>1, LargestNumber
  <2> QED
    BY <1>2, <2>1, <2>2 DEF LastId
<1> QED
  BY <1>1, <1>2

LEMMA ScriptKeeps ==
    ASSUME ScriptInv, SeedStep
    PROVE  ScriptInv'
<1> USE DEF ScriptInv
<1>0. /\ sequence \in [Serial -> Nat]
      /\ Running => Step.do \in Kinds /\ Step.key \in Nat /\ Ran \in Nat
      /\ Serial = {"participant", "project", "operation", "alert"}
  <2>1. Running => Step \in Upserts /\ Ran \in Nat
    BY Turn
  <2> QED
    BY <2>1 DEF RowsInv, TablesOK, Upserts, Serial
<1>k. Running => /\ Step.do \in {"project", "operation", "alert"} => Step.key # 0
                 /\ Step.do = "participant" => Step.key # 0
                 /\ Step.do = "operation" => Step.amount \in Nat /\ Step.amount > 0
  <2> SUFFICES ASSUME Running
               PROVE  /\ Step.do \in {"project", "operation", "alert"} => Step.key # 0
                      /\ Step.do = "participant" => Step.key # 0
                      /\ Step.do = "operation" => Step.amount \in Nat /\ Step.amount > 0
    OBVIOUS
  <2>1. Step \in Upserts /\ Step = Script[Ran + 1]
    BY Turn
  <2>2. Step.amount \in Nat
    BY <2>1 DEF Upserts
  <2>3. Step.do \in {"project", "operation", "alert"} => Step.key # 0
    BY <2>1, Turn DEF Sound
  <2>4. Step.do = "operation" => Step.amount # 0
    BY <2>1, Turn DEF Sound
  <2>5. Step.do = "participant" => Step.key = Ran - 1 /\ Ran >= 2
    BY Turn
  <2> QED
    BY <1>0, <2>2, <2>3, <2>4, <2>5
<1>1. CASE Start
  <2>1. UNCHANGED <<tables, person, current, created>> /\ todo' = Script /\ ~Running
    BY <1>1 DEF Start, Running
  <2>2. RowsInv'
    BY <2>1 DEF RowsInv, TablesOK, Positive, tables, rows
  <2>3. person = <<>> /\ current = 0 /\ created = 0
    BY <2>1 DEF LocalsInv
  <2>4. TodoInv' /\ Ran' = 0
    BY <2>1, ScriptShape DEF TodoInv, Ran
  <2>5. SeedOK'
    BY <2>1, <2>3, ScriptShape DEF SeedOK
  <2>6. Running'
    BY <2>1, ScriptShape DEF Running
  <2>7. LocalsInv'
    BY <2>1, <2>3, <2>4, <2>5, <2>6 DEF LocalsInv, PeopleBy
  <2> QED
    BY <2>2, <2>4, <2>7
<1>2. CASE Crash
  <2>1. UNCHANGED tables /\ todo' = <<>> /\ person' = <<>> /\ current' = 0 /\ created' = 0
    BY <1>2 DEF Crash, Stop
  <2>2. RowsInv'
    BY <2>1 DEF RowsInv, TablesOK, Positive, tables, rows
  <2> QED
    BY <2>1, <2>2, ScriptShape DEF TodoInv, LocalsInv, SeedOK, Running
<1>3. CASE SeedCategories
  <2>1. /\ Running /\ Step.do = "categories"
        /\ UNCHANGED <<account, participant, project, linked, operation, share, alert,
                       sequence, person, current, created>>
        /\ todo' = todo \/ todo' = Tail(todo)
    BY <1>3 DEF SeedCategories, At, Running
  <2>2. categories' \in 0..6
    <3>1. CASE categories < 6 /\ categories' = Min({n \in ToSet(DemoCategories) : n > categories})
      <4> DEFINE S == {n \in ToSet(DemoCategories) : n > categories}
      <4>1. ToSet(DemoCategories) = {1, 2, 6}
        BY DEF ToSet, DemoCategories
      <4>2. S \in SUBSET Nat /\ S # {} /\ S \subseteq 0..6
        BY <3>1, <4>1 DEF RowsInv, TablesOK
      <4> HIDE DEF S
      <4>3. Min(S) \in S
        BY <4>2, LeastIn
      <4> QED
        BY <3>1, <4>2, <4>3 DEF S
    <3> QED
      BY <1>3, <3>1 DEF SeedCategories, RowsInv, TablesOK
  <2>3. RowsInv'
    BY <2>1, <2>2 DEF RowsInv, TablesOK, Positive
  <2>4. SeedOK'
    BY <2>1 DEF LocalsInv, SeedOK
  <2>5. CASE todo' = todo
    <3>1. TodoInv' /\ Running' /\ Ran' = Ran
      BY <2>1, <2>5 DEF TodoInv, Running, Ran
    <3> QED
      BY <2>1, <2>3, <2>4, <3>1 DEF LocalsInv
  <2>6. CASE todo' = Tail(todo)
    <3>1. Len(person') = PeopleBy(Ran + 1)
      BY <2>1, PeopleNext DEF LocalsInv
    <3>2. Ran + 1 < 2
      BY <2>1, Turn
    <3>3. TodoInv' /\ LocalsInv'
      BY <1>0, <2>1, <2>4, <2>6, <3>1, <3>2, LocalsStep
    <3> QED
      BY <2>3, <3>3
  <2> QED
    BY <2>1, <2>5, <2>6
<1>4. CASE SeedUsers
  <2>1. /\ Running /\ Step.do = "users" /\ todo' = Tail(todo)
        /\ UNCHANGED <<categories, participant, project, linked, operation, share, alert,
                       sequence, person, current, created>>
        /\ DOMAIN account' = DOMAIN account \union Owners
    BY <1>4 DEF SeedUsers, At, Running
  <2>2. RowsInv'
    BY <2>1 DEF RowsInv, TablesOK, Positive
  <2>3. SeedOK'
    BY <2>1 DEF LocalsInv, SeedOK
  <2>4. Len(person') = PeopleBy(Ran + 1)
    BY <2>1, PeopleNext DEF LocalsInv
  <2>5. TodoInv' /\ LocalsInv'
    BY <2>1, <2>3, <2>4, LocalsStep
  <2> QED
    BY <2>2, <2>5
<1>5. CASE SeedParticipant
  <2> DEFINE id == Upserted("participant", Step.key)
  <2>1. /\ Running /\ Step.do = "participant" /\ todo' = Tail(todo)
        /\ participant' = Added(participant, Row(id, Step.who))
        /\ person' = Append(person, id)
        /\ TakeId("participant", Step.key)
        /\ UNCHANGED <<account, categories, project, linked, operation, share, alert,
                       current, created>>
    BY <1>5 DEF SeedParticipant, At, Running
  <2>2. id \in Nat /\ id # 0 /\ sequence' \in [Serial -> Nat]
    BY <1>0, <1>k, <2>1, IdsAre, Taken DEF RowsInv
  <2> HIDE DEF id
  <2>3. DOMAIN participant' = (DOMAIN participant) \union {id} /\ Positive(DOMAIN participant')
    BY <2>1, <2>2, AddedRow, PositiveRow DEF RowsInv
  <2>4. RowsInv'
    BY <2>1, <2>2, <2>3 DEF RowsInv, TablesOK, Positive
  <2>5. /\ person \in Seq(DOMAIN participant) /\ Len(person) = Step.key - 1
        /\ PeopleBy(Ran + 1) = PeopleBy(Ran) + 1 /\ Len(person) = PeopleBy(Ran)
        /\ Ran >= 2 /\ Ran < Len(People) + 2 /\ Step.key = Ran - 1 /\ Ran \in Nat
        /\ Len(People) \in Nat
    BY <2>1, PeopleNext, Turn, ScriptShape DEF LocalsInv, SeedOK
  <2>6. person' \in Seq(DOMAIN participant') /\ Len(person') = Len(person) + 1
    <3>1. person \in Seq(DOMAIN participant')
      BY <2>3, <2>5
    <3> QED
      BY <2>1, <2>3, <3>1
  <2>7. SeedOK'
    <3>1. Len(person') <= Len(People)
      BY <2>5, <2>6
    <3> QED
      BY <2>1, <2>6, <3>1 DEF LocalsInv, SeedOK
  <2>8. Len(person') = PeopleBy(Ran + 1)
    BY <2>5, <2>6
  <2>9. TodoInv' /\ LocalsInv'
    <3>1. Owners \subseteq DOMAIN account'
      BY <2>1, <2>5 DEF LocalsInv
    <3> QED
      BY <2>1, <2>7, <2>8, <3>1, LocalsStep
  <2> QED
    BY <2>4, <2>9
<1>6. CASE SeedProject
  <2> DEFINE id == Upserted("project", Step.key)
  <2>1. /\ Running /\ Step.do = "project" /\ todo' = Tail(todo)
        /\ current' = id
        /\ project' = Added(project, Row(id, Step.who))
        /\ TakeId("project", Step.key)
        /\ UNCHANGED <<account, categories, participant, linked, operation, share, alert,
                       person, created>>
    BY <1>6 DEF SeedProject, At, Running
  <2>2. id \in Nat /\ id # 0 /\ sequence' \in [Serial -> Nat]
    BY <1>0, <1>k, <2>1, IdsAre, Taken DEF RowsInv
  <2>3. Step.who \in Owners /\ Owners \subseteq DOMAIN account
    BY <2>1, CurrentFound
  <2> HIDE DEF id
  <2>4. /\ DOMAIN project' = (DOMAIN project) \union {id} /\ Positive(DOMAIN project')
        /\ \A j \in DOMAIN project' : project'[j] \in DOMAIN account
    <3>1. \A j \in DOMAIN project : project[j] \in DOMAIN account
      BY DEF RowsInv, TablesOK
    <3>2. Positive(DOMAIN project)
      BY DEF RowsInv
    <3>3. DOMAIN project' = (DOMAIN project) \union {id} /\ Positive(DOMAIN project')
      BY <2>1, <2>2, <3>2, AddedRow, PositiveRow
    <3>4. \A j \in DOMAIN project' :
             (j \in DOMAIN project /\ project'[j] = project[j]) \/ project'[j] = Step.who
      BY <2>1 DEF Added, Row
    <3> QED
      BY <2>1, <2>3, <3>1, <3>3, <3>4
  <2>5. RowsInv'
    BY <2>1, <2>2, <2>4 DEF RowsInv, TablesOK, Positive
  <2>6. SeedOK'
    BY <2>1, <2>4 DEF LocalsInv, SeedOK
  <2>7. Len(person') = PeopleBy(Ran + 1)
    BY <2>1, PeopleNext DEF LocalsInv
  <2>8. TodoInv' /\ LocalsInv'
    BY <2>1, <2>2, <2>3, <2>6, <2>7, LocalsStep
  <2> QED
    BY <2>5, <2>8
<1>7. CASE SeedLink
  <2>1. /\ Running /\ Step.do = "link" /\ todo' = Tail(todo)
        /\ linked' = linked \union {<<current, PersonOf(Step.who)>>}
        /\ UNCHANGED <<account, categories, participant, project, operation, share, alert,
                       sequence, person, current, created>>
    BY <1>7 DEF SeedLink, At, Running
  <2>2. current \in DOMAIN project /\ PersonOf(Step.who) \in DOMAIN participant
    BY <2>1, CurrentFound, PersonFound
  <2>3. RowsInv'
    BY <2>1, <2>2 DEF RowsInv, TablesOK, Positive
  <2>4. SeedOK'
    BY <2>1 DEF LocalsInv, SeedOK
  <2>5. Len(person') = PeopleBy(Ran + 1) /\ Ran >= 2
    BY <2>1, PeopleNext DEF LocalsInv
  <2>6. TodoInv' /\ LocalsInv'
    <3>1. Owners \subseteq DOMAIN account'
      BY <2>1, <2>5 DEF LocalsInv
    <3> QED
      BY <2>1, <2>4, <2>5, <3>1, LocalsStep
  <2> QED
    BY <2>3, <2>6
<1>8. CASE SeedOperation
  <2> DEFINE id == Upserted("operation", Step.key)
  <2>1. /\ Running /\ Step.do = "operation" /\ todo' = Tail(todo)
        /\ created' = id
        /\ operation' = Added(operation, Row(id, [project |-> current, amount |-> Step.amount]))
        /\ TakeId("operation", Step.key)
        /\ UNCHANGED <<account, categories, participant, project, linked, share, alert,
                       person, current>>
    BY <1>8 DEF SeedOperation, At, Running
  <2>2. id \in Nat /\ id # 0 /\ sequence' \in [Serial -> Nat]
    BY <1>0, <1>k, <2>1, IdsAre, Taken DEF RowsInv
  <2>3. current \in DOMAIN project
    BY <2>1, CurrentFound
  <2> HIDE DEF id
  <2>4. /\ DOMAIN operation' = (DOMAIN operation) \union {id} /\ Positive(DOMAIN operation')
        /\ \A o \in DOMAIN operation' : /\ operation'[o].project \in DOMAIN project
                                        /\ operation'[o].amount > 0
    <3> DEFINE new == [project |-> current, amount |-> Step.amount]
    <3>1. \A o \in DOMAIN operation : /\ operation[o].project \in DOMAIN project
                                      /\ operation[o].amount > 0
      BY DEF RowsInv, TablesOK
    <3>2. new.project \in DOMAIN project /\ new.amount > 0
      BY <1>k, <2>1, <2>3
    <3> HIDE DEF new
    <3>3. operation' = Added(operation, Row(id, new))
      BY <2>1 DEF new
    <3>4. Positive(DOMAIN operation)
      BY DEF RowsInv
    <3>5. DOMAIN operation' = (DOMAIN operation) \union {id} /\ Positive(DOMAIN operation')
      BY <2>2, <3>3, <3>4, AddedRow, PositiveRow
    <3>6. \A o \in DOMAIN operation' :
             (o \in DOMAIN operation /\ operation'[o] = operation[o]) \/ operation'[o] = new
      BY <3>3 DEF Added, Row
    <3> QED
      BY <3>1, <3>2, <3>5, <3>6
  <2>5. RowsInv'
    BY <2>1, <2>2, <2>4 DEF RowsInv, TablesOK, Positive
  <2>6. SeedOK'
    BY <2>1, <2>4 DEF LocalsInv, SeedOK
  <2>7. Len(person') = PeopleBy(Ran + 1) /\ Ran >= 2
    BY <2>1, PeopleNext DEF LocalsInv
  <2>8. TodoInv' /\ LocalsInv'
    <3>1. Owners \subseteq DOMAIN account'
      BY <2>1, <2>7 DEF LocalsInv
    <3> QED
      BY <2>1, <2>2, <2>6, <2>7, <3>1, LocalsStep
  <2> QED
    BY <2>5, <2>8
<1>9. CASE SeedShare
  <2>1. /\ Running /\ Step.do = "share" /\ todo' = Tail(todo)
        /\ share' = Added(share, Row(<<created, PersonOf(Step.who)>>, Step.amount))
        /\ UNCHANGED <<account, categories, participant, project, linked, operation, alert,
                       sequence, person, current, created>>
    BY <1>9 DEF SeedShare, At, Running
  <2>2. created \in DOMAIN operation /\ PersonOf(Step.who) \in DOMAIN participant
    BY <2>1, CurrentFound, PersonFound
  <2>3. DOMAIN share' = (DOMAIN share) \union {<<created, PersonOf(Step.who)>>}
    BY <2>1, AddedRow
  <2>4. RowsInv'
    BY <2>1, <2>2, <2>3 DEF RowsInv, TablesOK, Positive
  <2>5. SeedOK'
    BY <2>1 DEF LocalsInv, SeedOK
  <2>6. Len(person') = PeopleBy(Ran + 1) /\ Ran >= 2
    BY <2>1, PeopleNext DEF LocalsInv
  <2>7. TodoInv' /\ LocalsInv'
    <3>1. Owners \subseteq DOMAIN account'
      BY <2>1, <2>6 DEF LocalsInv
    <3> QED
      BY <2>1, <2>5, <2>6, <3>1, LocalsStep
  <2> QED
    BY <2>4, <2>7
<1>10. CASE SeedAlert
  <2>1. /\ Running /\ Step.do = "alert" /\ todo' = Tail(todo)
        /\ alert' = Added(alert, Row(Step.key, Step.who))
        /\ UNCHANGED <<account, categories, participant, project, linked, operation, share,
                       sequence, person, current, created>>
    BY <1>10 DEF SeedAlert, At, Running
  <2>2. Step.who \in Owners /\ Owners \subseteq DOMAIN account
    BY <2>1, CurrentFound
  <2>3. /\ DOMAIN alert' = (DOMAIN alert) \union {Step.key} /\ Positive(DOMAIN alert')
        /\ \A a \in DOMAIN alert' : alert'[a] \in DOMAIN account
    <3>1. \A a \in DOMAIN alert : alert[a] \in DOMAIN account
      BY DEF RowsInv, TablesOK
    <3>2. Positive(DOMAIN alert) /\ Step.key \in Nat /\ Step.key # 0
      BY <1>0, <1>k, <2>1 DEF RowsInv
    <3>3. DOMAIN alert' = (DOMAIN alert) \union {Step.key} /\ Positive(DOMAIN alert')
      BY <2>1, <3>2, AddedRow, PositiveRow
    <3>4. \A a \in DOMAIN alert' :
             (a \in DOMAIN alert /\ alert'[a] = alert[a]) \/ alert'[a] = Step.who
      BY <2>1 DEF Added, Row
    <3> QED
      BY <2>1, <2>2, <3>1, <3>3, <3>4
  <2>4. RowsInv'
    BY <2>1, <2>3 DEF RowsInv, TablesOK, Positive
  <2>5. SeedOK'
    BY <2>1 DEF LocalsInv, SeedOK
  <2>6. Len(person') = PeopleBy(Ran + 1) /\ Ran >= 2
    BY <2>1, PeopleNext DEF LocalsInv
  <2>7. TodoInv' /\ LocalsInv'
    BY <2>1, <2>2, <2>5, <2>6, LocalsStep
  <2> QED
    BY <2>4, <2>7
<1>11. CASE ResetSequences
  <2>1. /\ Running /\ Step.do = "reset" /\ UNCHANGED rows
        /\ sequence' = [sequence EXCEPT ![Step.who] = LastId(Step.who)]
    BY <1>11 DEF ResetSequences, At, Running
  <2>2. \A t \in Serial : LastId(t) \in Nat
    <3>1. \A t \in Serial : Positive(Ids[t])
      BY <1>0, IdsAre DEF RowsInv
    <3> QED
      BY <1>0, <3>1, LastIdIs
  <2>3. RowsInv'
    <3>1. sequence' \in [Serial -> Nat]
      BY <1>0, <2>1, <2>2
    <3> QED
      BY <2>1, <3>1 DEF RowsInv, TablesOK, Positive, rows
  <2>4. CASE todo' = <<>> /\ person' = <<>> /\ current' = 0 /\ created' = 0
    BY <2>1, <2>3, <2>4, ScriptShape DEF TodoInv, LocalsInv, SeedOK, Running
  <2>5. CASE Len(todo) > 1 /\ todo' = Tail(todo) /\ UNCHANGED <<person, current, created>>
    <3>1. SeedOK'
      BY <2>1, <2>5 DEF LocalsInv, SeedOK, rows
    <3>2. Len(person') = PeopleBy(Ran + 1) /\ Ran >= 2
      BY <2>1, <2>5, PeopleNext DEF LocalsInv
    <3>3. TodoInv' /\ LocalsInv'
      <4>1. Owners \subseteq DOMAIN account'
        BY <2>1, <3>2 DEF LocalsInv, rows
      <4> QED
        BY <2>1, <2>5, <3>1, <3>2, <4>1, LocalsStep
    <3> QED
      BY <2>3, <3>3
  <2> QED
    BY <1>11, <2>4, <2>5 DEF ResetSequences, Stop
<1> QED
  BY <1>1, <1>2, <1>3, <1>4, <1>5, <1>6, <1>7, <1>8, <1>9, <1>10, <1>11 DEF SeedStep, Upsert

-----------------------------------------------------------------------------
(* Which ids a registration has taken when, and what its steps do to tables. *)

LEMMA DemoRowsAre == \A t : DemoRows(t) = IF t \in {"participant", "operation"} THEN 3 ELSE 1
<1>1. Len(DemoAmounts) = 3
  BY DEF DemoAmounts
<1> QED
  BY <1>1 DEF DemoRows, DemoPeople

Inserted(pc, t) == \/ pc = "commit"
                   \/ pc = "operation" /\ t # "operation"
                   \/ pc = "alert" /\ t \in {"participant", "project"}
                   \/ pc = "project" /\ t = "participant"

CountAt(pc, t) == IF Inserted(pc, t) THEN DemoRows(t) ELSE 0

Numbers(ids, n) == /\ DOMAIN ids = 1..n
                   /\ \A i \in 1..n : ids[i] \in Nat /\ ids[i] # 0
                   /\ \A i, k \in 1..n : ids[i] = ids[k] => i = k

Registering(r) == Open(r) \/ req[r].pc \in {"find", "user"}

FilledFor(r) == /\ DOMAIN req[r].taken = Serial
                /\ \A t \in Serial : Numbers(req[r].taken[t], CountAt(req[r].pc, t))

Filled == \A r \in Requests : Registering(r) => FilledFor(r)

\* The ids an open transaction holds are nobody else's.
HeldApart ==
    \A r \in Requests : Open(r) =>
       \A t \in Serial : \A i \in DOMAIN req[r].taken[t] :
          /\ req[r].taken[t][i] \notin Ids[t]
          /\ \A q \in Requests : Open(q) /\ q # r =>
                \A k \in DOMAIN req[q].taken[t] : req[q].taken[t][k] # req[r].taken[t][i]

\* A step that touches no table.
Rests(r) == /\ Others(r) /\ UNCHANGED tables
            /\ req'[r].pc # "commit"
            /\ Registering(r)' => /\ FilledFor(r)'
                                  /\ req'[r].pc \in {"find", "user", "participant"}

Inserts(r, t) ==
    /\ Others(r) /\ UNCHANGED rows /\ Open(r) /\ Open(r)' /\ req[r].pc = t
    /\ sequence' = [sequence EXCEPT ![t] = @ + DemoRows(t)]
    /\ FilledFor(r)'
    /\ \A s \in Serial : s # t => req'[r].taken[s] = req[r].taken[s]
    /\ req'[r].taken[t] = [i \in 1..DemoRows(t) |-> sequence[t] + i]
    /\ \A i \in 1..DemoRows(t) : sequence[t] + i \notin Ids[t] /\ sequence[t] + i \notin Held(t)

Refused(r, t) ==
    /\ Others(r) /\ UNCHANGED rows /\ req'[r] = Idle /\ req[r].pc = t
    /\ \E k \in Nat : k # 0 /\ sequence' = [sequence EXCEPT ![t] = @ + k]

Committed(r) == Others(r) /\ Open(r) /\ ~Registering(r)' /\ Commit(r)

LEMMA IdleRests == \A r \in Requests : req'[r] = Idle => ~Registering(r)' /\ req'[r].pc # "commit"
BY DEF Idle, Registering, Open, InTransaction

\* Its INSERTs go from one table to the next.
LEMMA InsertStep ==
    ASSUME Shape, Filled, sequence \in [Serial -> Nat], NEW r \in Requests, NEW t \in Serial,
           NEW refused, NEW next,
           <<t, next>> \in {<<"participant", "project">>, <<"project", "alert">>,
                            <<"alert", "operation">>, <<"operation", "commit">>},
           InsertRows(r, t, refused, next)
    PROVE  Inserts(r, t) \/ Refused(r, t)
<1> DEFINE n == DemoRows(t)
           ids == NextIds(t, n)
           bad == {i \in 1..n : ids[i] \in Ids[t] \/ i \in refused}
<1>0. UNCHANGED rows /\ req[r].pc = t /\ n \in {1, 3}
  BY DemoRowsAre DEF InsertRows
<1>1. CASE Answer(r) /\ sequence' = [sequence EXCEPT ![t] = @ + Min(bad)] /\ bad # {}
  <2>1. bad \in SUBSET Nat /\ bad # {} /\ 0 \notin bad
    BY <1>1
  <2> HIDE DEF bad
  <2>2. Min(bad) \in Nat /\ Min(bad) # 0
    BY <2>1, LeastIn
  <2>3. Others(r) /\ req'[r] = Idle
    BY <1>1 DEF Answer, Others, Shape
  <2> QED
    BY <1>0, <1>1, <2>2, <2>3 DEF Refused
<1>2. CASE /\ bad = {} /\ sequence' = [sequence EXCEPT ![t] = @ + n]
           /\ req' = [req EXCEPT ![r].taken[t] = ids, ![r].pc = next]
  <2>1. Served(r) /\ Open(r) /\ Registering(r) /\ FilledFor(r)
    BY <1>0 DEF Shape, Idle, Serial, InTransaction, Open, Registering, Filled
  <2>2. /\ Others(r) /\ req'[r].pc = next
        /\ req'[r].taken = [req[r].taken EXCEPT ![t] = ids]
    BY <1>2, <2>1 DEF Others, Shape, Served, State
  <2>3. /\ \A s \in Serial : s # t => req'[r].taken[s] = req[r].taken[s]
        /\ req'[r].taken[t] = [i \in 1..n |-> sequence[t] + i]
        /\ DOMAIN req'[r].taken = Serial
    BY <2>1, <2>2 DEF FilledFor, NextIds
  <2>4. Open(r)'
    BY <2>2 DEF Open, InTransaction
  <2>5. \A i \in 1..n : sequence[t] + i \notin Ids[t] /\ sequence[t] + i \notin Held(t)
    BY <1>0, <1>2 DEF InsertRows, Waits, NextIds
  <2>6. ASSUME NEW s \in Serial PROVE Numbers(req'[r].taken[s], CountAt(next, s))
    <3>1. CASE s = t
      <4>1. CountAt(next, t) = n
        BY DEF CountAt, Inserted
      <4>2. Numbers(req'[r].taken[t], n)
        BY <2>3 DEF Numbers
      <4> QED
        BY <3>1, <4>1, <4>2
    <3>2. CASE s # t
      <4>1. CountAt(next, s) = CountAt(t, s)
        BY <3>2 DEF CountAt, Inserted, Serial
      <4> QED
        BY <1>0, <2>1, <2>3, <3>2, <4>1 DEF FilledFor
    <3> QED
      BY <3>1, <3>2
  <2>7. FilledFor(r)'
    BY <2>2, <2>3, <2>6 DEF FilledFor
  <2> QED
    BY <1>0, <1>2, <2>1, <2>2, <2>3, <2>4, <2>5, <2>7 DEF Inserts
<1> QED
  BY <1>1, <1>2 DEF InsertRows

LEMMA RequestSteps ==
    ASSUME Shape, Filled, sequence \in [Serial -> Nat], NEW r \in Requests, AccountStep(r)
    PROVE  \/ Rests(r) \/ Committed(r)
           \/ \E t \in Serial : Inserts(r, t) \/ Refused(r, t)
<1>a. ASSUME NEW s, req' = [req EXCEPT ![r] = s]
      PROVE  Others(r) /\ req'[r] = s
  BY <1>a DEF Others, Shape
<1>b. ASSUME Answer(r), UNCHANGED tables PROVE Rests(r)
  BY <1>a, <1>b, IdleRests DEF Answer, Rests
<1>c. ASSUME NEW pc, Go(r, pc), req[r].pc # "idle"
      PROVE  /\ Others(r) /\ req'[r].pc = pc /\ req'[r].taken = req[r].taken
  <2>1. Served(r)
    BY <1>c DEF Shape, Idle
  <2>2. req'[r] = [req[r] EXCEPT !.pc = pc]
    BY <1>c DEF Go, Shape
  <2> QED
    BY <1>c, <2>1, <2>2 DEF Served, State, Go, Others, Shape
\* Nothing is taken before the transaction.
<1>d. ASSUME req[r].pc \in {"find", "user"}, NEW pc \in {"user", "participant"}, Go(r, pc),
             UNCHANGED tables
      PROVE  Rests(r)
  <2>1. Others(r) /\ req'[r].pc = pc /\ req'[r].taken = req[r].taken
    BY <1>c, <1>d
  <2>2. FilledFor(r)
    BY <1>d DEF Filled, Registering
  <2>3. \A t \in Serial : CountAt(pc, t) = CountAt(req[r].pc, t)
    BY <1>d DEF CountAt, Inserted
  <2>4. FilledFor(r)'
    BY <2>1, <2>2, <2>3 DEF FilledFor
  <2> QED
    BY <1>d, <2>1, <2>4 DEF Rests
<1>e. ASSUME Others(r), req'[r].pc \in {"credentials", "session"}, UNCHANGED tables PROVE Rests(r)
  BY <1>e DEF Rests, Registering, Open, InTransaction
<1>1. CASE Register(r)
  <2> PICK e \in Emails : req' = [req EXCEPT ![r] = State("find", e, r, TRUE, Nothing)]
    BY <1>1 DEF Register
  <2>1. Others(r) /\ req'[r].pc = "find" /\ req'[r].taken = Nothing
    BY <1>a DEF State
  <2>2. \A t \in Serial : CountAt("find", t) = 0 /\ Numbers(<<>>, 0)
    BY DEF CountAt, Inserted, Numbers
  <2>3. FilledFor(r)'
    BY <2>1, <2>2 DEF FilledFor, Nothing
  <2> QED
    BY <1>1, <2>1, <2>3 DEF Register, Rests
<1>2. CASE Login(r)
  <2> PICK e \in Emails, p \in Requests :
         req' = [req EXCEPT ![r] = State("credentials", e, p, FALSE, Nothing)]
    BY <1>2 DEF Login
  <2>1. Others(r) /\ req'[r].pc = "credentials"
    BY <1>a DEF State
  <2> QED
    BY <1>2, <1>e, <2>1 DEF Login
<1>3. CASE FindUser(r)
  BY <1>3, <1>b, <1>d DEF FindUser
<1>4. CASE CreateUser(r)
  BY <1>4, <1>b, <1>d DEF CreateUser
<1>5. CASE CreateParticipants(r)
  BY <1>5, InsertStep DEF CreateParticipants, Serial
<1>6. CASE CreateProject(r)
  BY <1>6, InsertStep DEF CreateProject, Serial
<1>7. CASE CreateAlert(r)
  BY <1>7, InsertStep DEF CreateAlert, Serial
<1>8. CASE CreateOperations(r)
  BY <1>8, InsertStep DEF CreateOperations, Serial
<1>9. CASE Commit(r)
  <2>1. Go(r, "session") /\ req[r].pc = "commit"
    BY <1>9 DEF Commit
  <2>2. Others(r) /\ req'[r].pc = "session"
    BY <1>c, <2>1
  <2> QED
    BY <1>9, <2>1, <2>2 DEF Committed, Registering, Open, InTransaction
<1>10. CASE OpenSession(r)
  BY <1>10, <1>b DEF OpenSession
<1>11. CASE CheckCredentials(r)
  <2>1. req[r].pc = "credentials" /\ UNCHANGED tables /\ (Go(r, "session") \/ Answer(r))
    BY <1>11 DEF CheckCredentials
  <2> QED
    BY <2>1, <1>b, <1>c, <1>e
<1>12. CASE Abort(r)
  BY <1>12, <1>b DEF Abort
<1> QED
  BY <1>1, <1>2, <1>3, <1>4, <1>5, <1>6, <1>7, <1>8, <1>9, <1>10, <1>11, <1>12
     DEF AccountStep, Serve

\* What is taken by an open transaction is held.
LEMMA HeldHas ==
    ASSUME NEW q \in Requests, Open(q), NEW t, NEW i \in DOMAIN req[q].taken[t]
    PROVE  req[q].taken[t][i] \in Held(t)
BY DEF Held

\* The rows of one committed transaction.
Own(r, t) == {req[r].taken[t][i] : i \in DOMAIN req[r].taken[t]}

LEMMA AddedDomain ==
    ASSUME NEW f, NEW g
    PROVE  DOMAIN Added(f, g) = (DOMAIN f) \union DOMAIN g
BY DEF Added

LEMMA RowDomain ==
    ASSUME NEW id, NEW columns
    PROVE  DOMAIN Row(id, columns) = {id}
BY DEF Row

LEMMA CommitIds ==
    ASSUME Shape, Filled, NEW r \in Requests, Committed(r)
    PROVE  /\ FilledFor(r) /\ req[r].pc = "commit"
           /\ \A t \in Serial : /\ Ids'[t] = Ids[t] \union Own(r, t)
                                /\ Numbers(req[r].taken[t], DemoRows(t))
           /\ DOMAIN participant' = (DOMAIN participant) \union Own(r, "participant")
           /\ DOMAIN project' = (DOMAIN project) \union Own(r, "project")
           /\ DOMAIN operation' = (DOMAIN operation) \union Own(r, "operation")
           /\ DOMAIN alert' = (DOMAIN alert) \union Own(r, "alert")
           /\ Own(r, "project") = {req[r].taken["project"][1]}
           /\ Own(r, "alert") = {req[r].taken["alert"][1]}
<1>1. FilledFor(r) /\ req[r].pc = "commit"
  BY DEF Filled, Registering, Committed, Commit
<1>2. \A t \in Serial : Numbers(req[r].taken[t], DemoRows(t))
  BY <1>1 DEF FilledFor, CountAt, Inserted
<1>3. DOMAIN req[r].taken["project"] = 1..1 /\ DOMAIN req[r].taken["alert"] = 1..1
  BY <1>2, DemoRowsAre DEF Numbers, Serial
<1>4. /\ Own(r, "project") = {req[r].taken["project"][1]}
      /\ Own(r, "alert") = {req[r].taken["alert"][1]}
  BY <1>3 DEF Own
<1>5. DOMAIN participant' = (DOMAIN participant) \union Own(r, "participant")
  <2>1. participant' = Added([p \in Own(r, "participant") |-> req[r].email], participant)
    BY DEF Committed, Commit, Own
  <2> QED
    BY <2>1, AddedDomain
<1>6. DOMAIN project' = (DOMAIN project) \union Own(r, "project")
  <2> DEFINE f == Row(req[r].taken["project"][1], req[r].email)
  <2>1. project' = Added(f, project)
    BY DEF Committed, Commit
  <2>2. DOMAIN f = {req[r].taken["project"][1]}
    BY RowDomain
  <2> HIDE DEF f
  <2>3. DOMAIN Added(f, project) = (DOMAIN f) \union DOMAIN project
    BY AddedDomain
  <2> QED
    BY <1>4, <2>1, <2>2, <2>3
<1>7. DOMAIN operation' = (DOMAIN operation) \union Own(r, "operation")
  <2> DEFINE ops == req[r].taken["operation"]
             f == [o \in Own(r, "operation") |->
                      [project |-> req[r].taken["project"][1],
                       amount  |-> DemoAmounts[CHOOSE i \in DOMAIN ops : ops[i] = o]]]
  <2>1. operation' = Added(f, operation)
    BY DEF Committed, Commit, Own
  <2>2. DOMAIN f = Own(r, "operation")
    OBVIOUS
  <2> HIDE DEF f
  <2>3. DOMAIN Added(f, operation) = (DOMAIN f) \union DOMAIN operation
    BY AddedDomain
  <2> QED
    BY <2>1, <2>2, <2>3
<1>8. DOMAIN alert' = (DOMAIN alert) \union Own(r, "alert")
  <2> DEFINE f == Row(req[r].taken["alert"][1], req[r].email)
  <2>1. alert' = Added(f, alert)
    BY DEF Committed, Commit
  <2>2. DOMAIN f = {req[r].taken["alert"][1]}
    BY RowDomain
  <2> HIDE DEF f
  <2>3. DOMAIN Added(f, alert) = (DOMAIN f) \union DOMAIN alert
    BY AddedDomain
  <2> QED
    BY <1>4, <2>1, <2>2, <2>3
<1>9. \A t \in Serial : Ids'[t] = Ids[t] \union Own(r, t)
  BY <1>5, <1>6, <1>7, <1>8 DEF Ids, Serial
<1> QED
  BY <1>1, <1>2, <1>4, <1>5, <1>6, <1>7, <1>8, <1>9

\* The script inserts no id that an open transaction has inserted: it waits.
LEMMA ScriptIds ==
    ASSUME ScriptInv, ScriptStep
    PROVE  \A t \in Serial : \A i \in Ids'[t] : i \in Ids[t] \/ i \notin Held(t)
<1>1. \A t \in Serial : Ids[t] = IF t = "participant" THEN DOMAIN participant
                                 ELSE IF t = "project" THEN DOMAIN project
                                 ELSE IF t = "operation" THEN DOMAIN operation
                                 ELSE DOMAIN alert
  BY DEF Ids, Serial
<1>2. \A t \in Serial : Ids'[t] = IF t = "participant" THEN DOMAIN participant'
                                  ELSE IF t = "project" THEN DOMAIN project'
                                  ELSE IF t = "operation" THEN DOMAIN operation'
                                  ELSE DOMAIN alert'
  BY DEF Ids, Serial
<1>3. CASE UNCHANGED <<participant, project, operation, alert>>
  BY <1>1, <1>2, <1>3
<1>4. SeedStep /\ ((todo # <<>> /\ todo' = Tail(todo)) => ~ScriptWaits)
  BY DEF ScriptStep
<1>5. CASE SeedParticipant
  <2>1. /\ participant' = Added(participant, Row(Upserted("participant", Step.key), Step.who))
        /\ UNCHANGED <<project, operation, alert>> /\ Step.do = "participant"
        /\ todo # <<>> /\ todo' = Tail(todo)
    BY <1>5 DEF SeedParticipant, At
  <2>2. Upserted("participant", Step.key) \notin Held("participant")
    BY <1>4, <2>1 DEF ScriptWaits
  <2>3. DOMAIN participant' = DOMAIN participant \union {Upserted("participant", Step.key)}
    BY <2>1, AddedRow
  <2> QED
    BY <1>1, <1>2, <2>1, <2>2, <2>3
<1>6. CASE SeedProject
  <2>1. /\ project' = Added(project, Row(Upserted("project", Step.key), Step.who))
        /\ UNCHANGED <<participant, operation, alert>> /\ Step.do = "project"
        /\ todo # <<>> /\ todo' = Tail(todo)
    BY <1>6 DEF SeedProject, At
  <2>2. Upserted("project", Step.key) \notin Held("project")
    BY <1>4, <2>1 DEF ScriptWaits
  <2>3. DOMAIN project' = DOMAIN project \union {Upserted("project", Step.key)}
    BY <2>1, AddedRow
  <2> QED
    BY <1>1, <1>2, <2>1, <2>2, <2>3
<1>7. CASE SeedOperation
  <2> DEFINE c == [project |-> current, amount |-> Step.amount]
             id == Upserted("operation", Step.key)
  <2>1. /\ operation' = Added(operation, Row(id, c))
        /\ UNCHANGED <<participant, project, alert>> /\ Step.do = "operation"
        /\ todo # <<>> /\ todo' = Tail(todo)
    BY <1>7 DEF SeedOperation, At
  <2>2. id \notin Held("operation")
    BY <1>4, <2>1 DEF ScriptWaits
  <2> HIDE DEF c, id
  <2>3. DOMAIN operation' = DOMAIN operation \union {id}
    BY <2>1, AddedRow
  <2> QED
    BY <1>1, <1>2, <2>1, <2>2, <2>3
<1>8. CASE SeedAlert
  <2>1. /\ alert' = Added(alert, Row(Step.key, Step.who))
        /\ UNCHANGED <<participant, project, operation>> /\ Step.do = "alert"
        /\ todo # <<>> /\ todo' = Tail(todo)
    BY <1>8 DEF SeedAlert, At
  <2>2. Step.key \notin Held("alert")
    BY <1>4, <2>1 DEF ScriptWaits
  <2>3. DOMAIN alert' = DOMAIN alert \union {Step.key}
    BY <2>1, AddedRow
  <2>4. Ids["alert"] = DOMAIN alert /\ Ids'["alert"] = DOMAIN alert'
    BY DEF Ids
  <2>5. \A t \in Serial : t # "alert" => Ids'[t] = Ids[t]
    BY <1>1, <1>2, <2>1 DEF Serial
  <2> QED
    BY <2>2, <2>3, <2>4, <2>5
<1> QED
  BY <1>3, <1>4, <1>5, <1>6, <1>7, <1>8 DEF SeedStep, Upsert, Start, Crash, SeedCategories,
     SeedUsers, SeedLink, SeedShare, ResetSequences, tables, rows

-----------------------------------------------------------------------------
(* Nobody holds an id of somebody else. *)

RequestInv == Shape /\ Filled /\ HeldApart

LEMMA RequestsKeep ==
    ASSUME WinnerInv, ScriptInv, RequestInv, [Next]_vars
    PROVE  RequestInv'
<1> USE DEF RequestInv
<1>0. Shape' /\ DOMAIN req = Requests /\ sequence \in [Serial -> Nat]
  BY WinnerStep DEF WinnerInv, Shape, ScriptInv, RowsInv, TablesOK
<1>1. CASE UNCHANGED req /\ \A t \in Serial : \A i \in Ids'[t] : i \in Ids[t] \/ i \notin Held(t)
  <2>1. Filled'
    BY <1>1 DEF Filled, Registering, FilledFor, Open
  <2>2. HeldApart'
    <3> SUFFICES ASSUME NEW r \in Requests, Open(r), NEW t \in Serial,
                        NEW i \in DOMAIN req[r].taken[t]
                 PROVE  req[r].taken[t][i] \notin Ids'[t]
      BY <1>1 DEF HeldApart, Open
    <3> QED
      BY <1>1, HeldHas DEF HeldApart
  <2> QED
    BY <1>0, <2>1, <2>2
<1>2. CASE UNCHANGED vars
  BY <1>1, <1>2 DEF vars, tables, rows, accountVars, Ids
<1>3. CASE ScriptStep
  BY <1>1, <1>3, ScriptIds DEF ScriptStep, accountVars
<1>4. ASSUME NEW r \in Requests, AccountStep(r)
      PROVE  RequestInv'
  <2>0. \/ Rests(r) \/ Committed(r) \/ \E t \in Serial : Inserts(r, t) \/ Refused(r, t)
    BY <1>0, <1>4, RequestSteps
  \* The others are as they were.
  <2>a. ASSUME Others(r), NEW q \in Requests, q # r
        PROVE  /\ Open(q)' <=> Open(q) /\ req'[q].taken = req[q].taken
               /\ Registering(q)' => FilledFor(q)'
    BY <2>a DEF Others, Open, Filled, Registering, FilledFor
  <2>b. ASSUME Others(r), Registering(r)' => FilledFor(r)'
        PROVE  Filled'
    BY <2>a, <2>b DEF Filled
  \* Whoever holds nothing new, while no table is written, disturbs nobody.
  <2>c. ASSUME Others(r), UNCHANGED rows, \/ ~Open(r)'
                                          \/ \A t \in Serial : DOMAIN req'[r].taken[t] = {}
        PROVE  HeldApart'
    <3>1. UNCHANGED Ids
      BY <2>c DEF rows, Ids
    <3> SUFFICES ASSUME NEW q \in Requests, Open(q)', NEW t \in Serial,
                        NEW i \in DOMAIN req'[q].taken[t]
                 PROVE  /\ req'[q].taken[t][i] \notin Ids'[t]
                        /\ \A p \in Requests : Open(p)' /\ p # q =>
                              \A k \in DOMAIN req'[p].taken[t] :
                                 req'[p].taken[t][k] # req'[q].taken[t][i]
      BY DEF HeldApart
    <3>2. q # r /\ Open(q) /\ req'[q].taken = req[q].taken
      BY <2>a, <2>c
    <3>3. ASSUME NEW p \in Requests, Open(p)', p # q, NEW k \in DOMAIN req'[p].taken[t]
          PROVE  req'[p].taken[t][k] # req'[q].taken[t][i]
      <4>1. p # r /\ Open(p) /\ req'[p].taken = req[p].taken
        BY <2>a, <2>c, <3>3
      <4> QED
        BY <3>2, <3>3, <4>1 DEF HeldApart
    <3> QED
      BY <3>1, <3>2, <3>3 DEF HeldApart
  <2>1. CASE Rests(r)
    <3>1. Filled'
      BY <2>1, <2>b DEF Rests
    <3>2. Open(r)' => \A t \in Serial : DOMAIN req'[r].taken[t] = {}
      <4>1. Open(r)' => FilledFor(r)' /\ req'[r].pc \in {"find", "user", "participant"}
        BY <2>1 DEF Rests, Registering
      <4>2. \A t \in Serial, pc \in {"find", "user", "participant"} : CountAt(pc, t) = 0
        BY DEF CountAt, Inserted
      <4> QED
        BY <4>1, <4>2 DEF FilledFor, Numbers
    <3>3. HeldApart'
      BY <2>1, <2>c, <3>2 DEF Rests, tables
    <3> QED
      BY <1>0, <3>1, <3>3
  <2>2. ASSUME NEW t \in Serial, Refused(r, t) PROVE RequestInv'
    <3>1. Others(r) /\ ~Registering(r)' /\ ~Open(r)' /\ UNCHANGED rows
      BY <2>2, IdleRests DEF Refused, Registering
    <3> QED
      BY <1>0, <2>b, <2>c, <3>1
  <2>3. ASSUME NEW t \in Serial, Inserts(r, t) PROVE RequestInv'
    <3>1. Filled'
      BY <2>3, <2>b DEF Inserts
    <3>2. UNCHANGED Ids /\ Others(r) /\ Open(r)
      BY <2>3 DEF Inserts, rows, Ids
    \* Each id that is held is new, or was held before.
    <3>3. ASSUME NEW q \in Requests, Open(q)', NEW s \in Serial, NEW i \in DOMAIN req'[q].taken[s]
          PROVE  \/ /\ q = r /\ s = t
                    /\ req'[q].taken[s][i] \notin Ids[s] /\ req'[q].taken[s][i] \notin Held(s)
                 \/ /\ ~(q = r /\ s = t) /\ Open(q)
                    /\ i \in DOMAIN req[q].taken[s] /\ req'[q].taken[s][i] = req[q].taken[s][i]
      <4>1. CASE q = r /\ s = t
        BY <2>3, <3>3, <4>1 DEF Inserts
      <4>2. CASE q = r /\ s # t
        BY <2>3, <3>2, <3>3, <4>2 DEF Inserts
      <4>3. CASE q # r
        BY <2>a, <3>2, <3>3, <4>3
      <4> QED
        BY <4>1, <4>2, <4>3
    <3>4. HeldApart'
      <4> SUFFICES ASSUME NEW q \in Requests, Open(q)', NEW s \in Serial,
                          NEW i \in DOMAIN req'[q].taken[s]
                   PROVE  /\ req'[q].taken[s][i] \notin Ids'[s]
                          /\ \A p \in Requests : Open(p)' /\ p # q =>
                                \A k \in DOMAIN req'[p].taken[s] :
                                   req'[p].taken[s][k] # req'[q].taken[s][i]
        BY DEF HeldApart
      <4>1. req'[q].taken[s][i] \notin Ids[s]
        BY <3>3 DEF HeldApart
      <4>2. ASSUME NEW p \in Requests, Open(p)', p # q, NEW k \in DOMAIN req'[p].taken[s]
            PROVE  req'[p].taken[s][k] # req'[q].taken[s][i]
        <5>1. CASE q = r /\ s = t
          <6>1. req'[q].taken[s][i] \notin Held(s) /\ p # r
            BY <3>3, <4>2, <5>1
          <6>2. Open(p) /\ k \in DOMAIN req[p].taken[s] /\ req'[p].taken[s][k] = req[p].taken[s][k]
            BY <3>3, <4>2, <6>1
          <6> QED
            BY <6>1, <6>2, HeldHas
        <5>2. CASE p = r /\ s = t
          <6>1. req'[p].taken[s][k] \notin Held(s) /\ q # r
            BY <3>3, <4>2, <5>2
          <6>2. Open(q) /\ i \in DOMAIN req[q].taken[s] /\ req'[q].taken[s][i] = req[q].taken[s][i]
            BY <3>3, <6>1
          <6> QED
            BY <6>1, <6>2, HeldHas
        <5>3. CASE ~(q = r /\ s = t) /\ ~(p = r /\ s = t)
          <6>1. Open(q) /\ i \in DOMAIN req[q].taken[s] /\ req'[q].taken[s][i] = req[q].taken[s][i]
            BY <3>3, <5>3
          <6>2. Open(p) /\ k \in DOMAIN req[p].taken[s] /\ req'[p].taken[s][k] = req[p].taken[s][k]
            BY <3>3, <4>2, <5>3
          <6> QED
            BY <4>2, <6>1, <6>2 DEF HeldApart
        <5> QED
          BY <5>1, <5>2, <5>3
      <4> QED
        BY <3>2, <4>1, <4>2
    <3> QED
      BY <1>0, <3>1, <3>4
  <2>4. CASE Committed(r)
    <3>1. /\ Others(r) /\ Open(r) /\ ~Open(r)'
          /\ \A t \in Serial : Ids'[t] = Ids[t] \union Own(r, t)
      BY <2>4, CommitIds DEF Committed, Registering
    <3>2. Filled'
      BY <2>4, <2>b DEF Committed
    <3>3. HeldApart'
      <4> SUFFICES ASSUME NEW q \in Requests, Open(q)', NEW t \in Serial,
                          NEW i \in DOMAIN req'[q].taken[t]
                   PROVE  /\ req'[q].taken[t][i] \notin Ids'[t]
                          /\ \A p \in Requests : Open(p)' /\ p # q =>
                                \A k \in DOMAIN req'[p].taken[t] :
                                   req'[p].taken[t][k] # req'[q].taken[t][i]
        BY DEF HeldApart
      <4>1. q # r /\ Open(q) /\ req'[q].taken = req[q].taken
        BY <2>a, <3>1
      <4>2. req[q].taken[t][i] \notin Ids[t] /\ req[q].taken[t][i] \notin Own(r, t)
        BY <3>1, <4>1 DEF HeldApart, Own
      <4>3. ASSUME NEW p \in Requests, Open(p)', p # q, NEW k \in DOMAIN req'[p].taken[t]
            PROVE  req'[p].taken[t][k] # req'[q].taken[t][i]
        <5>1. p # r /\ Open(p) /\ req'[p].taken = req[p].taken
          BY <2>a, <3>1, <4>3
        <5> QED
          BY <4>1, <4>3, <5>1 DEF HeldApart
      <4> QED
        BY <3>1, <4>1, <4>2, <4>3
    <3> QED
      BY <1>0, <3>2, <3>3
  <2> QED
    BY <2>0, <2>1, <2>2, <2>3, <2>4
<1> QED
  BY <1>2, <1>3, <1>4 DEF Next

-----------------------------------------------------------------------------
(* What a request writes leaves the tables in order. *)

LEMMA OwnPositive ==
    ASSUME Shape, Filled, NEW r \in Requests, Committed(r), NEW t \in Serial, Positive(Ids[t])
    PROVE  Positive(Ids'[t])
<1>1. Ids'[t] = Ids[t] \union Own(r, t) /\ Numbers(req[r].taken[t], DemoRows(t))
  BY CommitIds
<1> DEFINE ids == req[r].taken[t]
<1>2. DOMAIN ids = 1..DemoRows(t) /\ \A i \in 1..DemoRows(t) : ids[i] \in Nat /\ ids[i] # 0
  BY <1>1 DEF Numbers
<1>3. Own(r, t) = {ids[i] : i \in 1..DemoRows(t)}
  BY <1>2 DEF Own
<1> HIDE DEF ids
<1>4. CASE DemoRows(t) = 1
  <2>1. Own(r, t) = {ids[1]}
    BY <1>3, <1>4
  <2> QED
    BY <1>1, <1>2, <1>4, <2>1, PositiveMore
<1>5. CASE DemoRows(t) = 3
  <2>1. Own(r, t) = {ids[1], ids[2], ids[3]} /\ 1..3 = {1, 2, 3}
    BY <1>3, <1>5
  <2>2. Positive(Ids[t] \union {ids[1]})
    BY <1>2, <1>5, PositiveMore
  <2>3. Positive((Ids[t] \union {ids[1]}) \union {ids[2]})
    BY <1>2, <1>5, <2>2, PositiveMore
  <2>4. Positive(((Ids[t] \union {ids[1]}) \union {ids[2]}) \union {ids[3]})
    BY <1>2, <1>5, <2>3, PositiveMore
  <2>5. Ids'[t] = ((Ids[t] \union {ids[1]}) \union {ids[2]}) \union {ids[3]}
    BY <1>1, <2>1
  <2> QED
    BY <2>4, <2>5
<1> QED
  BY <1>4, <1>5, DemoRowsAre

\* The expense of each row is one of the demo project's, and each share is of one.
LEMMA CommitRows ==
    ASSUME Shape, Filled, RowsInv, NEW r \in Requests, Committed(r)
    PROVE  RowsInv'
<1> USE DEF RowsInv
<1> DEFINE email == req[r].email
           ops == req[r].taken["operation"]
           people == req[r].taken["participant"]
           j == req[r].taken["project"][1]
<1>1. /\ DOMAIN participant' = (DOMAIN participant) \union Own(r, "participant")
      /\ DOMAIN project' = (DOMAIN project) \union Own(r, "project")
      /\ DOMAIN operation' = (DOMAIN operation) \union Own(r, "operation")
      /\ DOMAIN alert' = (DOMAIN alert) \union Own(r, "alert")
      /\ j \in Own(r, "project")
  BY CommitIds
<1>2. DOMAIN account' = DOMAIN account \union {email} /\ UNCHANGED <<categories, sequence>>
  BY DEF Committed, Commit
<1>3. \A i \in DOMAIN project' : project'[i] \in DOMAIN account'
  <2>1. project' = Added(Row(j, email), project)
    BY DEF Committed, Commit
  <2>2. \A i \in DOMAIN project' : project'[i] = email \/ (i \in DOMAIN project /\ project'[i] = project[i])
    BY <2>1 DEF Added, Row
  <2> QED
    BY <1>2, <2>2 DEF TablesOK
<1>4. \A i \in DOMAIN alert' : alert'[i] \in DOMAIN account'
  <2>1. alert' = Added(Row(req[r].taken["alert"][1], email), alert)
    BY DEF Committed, Commit
  <2>2. \A i \in DOMAIN alert' : alert'[i] = email \/ (i \in DOMAIN alert /\ alert'[i] = alert[i])
    BY <2>1 DEF Added, Row
  <2> QED
    BY <1>2, <2>2 DEF TablesOK
<1>5. linked' \subseteq (DOMAIN project') \X (DOMAIN participant')
  <2>1. linked' = linked \union {<<j, people[i]>> : i \in DOMAIN people}
    BY DEF Committed, Commit
  <2>2. \A i \in DOMAIN people : people[i] \in DOMAIN participant'
    BY <1>1 DEF Own
  <2>3. j \in DOMAIN project' /\ DOMAIN project \subseteq DOMAIN project'
        /\ DOMAIN participant \subseteq DOMAIN participant'
    BY <1>1
  <2> QED
    BY <2>1, <2>2, <2>3 DEF TablesOK
<1>6. \A o \in DOMAIN operation' : operation'[o].project \in DOMAIN project' /\ operation'[o].amount > 0
  <2> DEFINE Index(o) == CHOOSE i \in DOMAIN ops : ops[i] = o
             new == [o \in Own(r, "operation") |-> [project |-> j, amount |-> DemoAmounts[Index(o)]]]
  <2>1. operation' = Added(new, operation)
    BY DEF Committed, Commit, Own
  <2>2. ASSUME NEW o \in Own(r, "operation")
        PROVE  new[o].project \in DOMAIN project' /\ new[o].amount > 0
    <3>1. Index(o) \in DOMAIN ops
      BY DEF Own
    <3> HIDE DEF Index
    <3>2. Index(o) \in 1..3
      <4>1. "operation" \in Serial /\ DemoRows("operation") = 3
        BY DemoRowsAre DEF Serial
      <4>2. DOMAIN ops = 1..3
        BY <4>1, CommitIds DEF Numbers
      <4> QED
        BY <3>1, <4>2
    <3>3. DemoAmounts[Index(o)] > 0
      BY <3>2 DEF DemoAmounts
    <3>4. j \in DOMAIN project'
      BY <1>1
    <3> QED
      BY <3>3, <3>4
  <2>3. DOMAIN new = Own(r, "operation")
    OBVIOUS
  <2> HIDE DEF new
  <2>4. \A o \in DOMAIN operation' :
           \/ o \in Own(r, "operation") /\ operation'[o] = new[o]
           \/ o \in DOMAIN operation /\ operation'[o] = operation[o]
    BY <2>1, <2>3 DEF Added
  <2>5. \A o \in DOMAIN operation : operation[o].project \in DOMAIN project' /\ operation[o].amount > 0
    BY <1>1 DEF TablesOK
  <2> QED
    BY <2>2, <2>4, <2>5
<1>7. DOMAIN share' \subseteq (DOMAIN operation') \X (DOMAIN participant')
  <2> DEFINE new == [s \in Own(r, "operation") \X Sharers(people) |->
                        DemoAmounts[CHOOSE i \in DOMAIN ops : ops[i] = s[1]] \div DemoPeople]
  <2>1. share' = Added(new, share)
    BY DEF Committed, Commit, Own
  <2>2. DOMAIN new = Own(r, "operation") \X Own(r, "participant")
    BY DEF Sharers, Own
  <2> HIDE DEF new
  <2>3. DOMAIN share' = DOMAIN new \union DOMAIN share
    BY <2>1, AddedDomain
  <2> QED
    BY <1>1, <2>2, <2>3 DEF TablesOK
<1>8. \A t \in Serial : Positive(Ids'[t])
  <2>1. \A t \in Serial : Positive(Ids[t])
    BY DEF Ids, Serial
  <2> QED
    BY <2>1, OwnPositive
<1>9. /\ Positive(DOMAIN participant') /\ Positive(DOMAIN project')
      /\ Positive(DOMAIN operation') /\ Positive(DOMAIN alert')
  BY <1>8 DEF Ids, Serial
<1>10. TablesOK'
  BY <1>2, <1>3, <1>4, <1>5, <1>6, <1>7 DEF TablesOK
<1> QED
  BY <1>9, <1>10 DEF Positive

LEMMA RequestRows ==
    ASSUME Shape, Filled, ScriptInv, NEW r \in Requests, AccountStep(r), UNCHANGED seedVars
    PROVE  ScriptInv'
<1> USE DEF ScriptInv
<1>0. sequence \in [Serial -> Nat]
  BY DEF RowsInv, TablesOK
<1>1. /\ RowsInv'
      /\ DOMAIN account \subseteq DOMAIN account'
      /\ DOMAIN participant \subseteq DOMAIN participant'
      /\ DOMAIN project \subseteq DOMAIN project'
      /\ DOMAIN operation \subseteq DOMAIN operation'
  <2>1. CASE Committed(r)
    <3>1. DOMAIN account \subseteq DOMAIN account'
      BY <2>1 DEF Committed, Commit
    <3> QED
      BY <2>1, <3>1, CommitRows, CommitIds
  <2>2. CASE UNCHANGED rows /\ sequence' \in [Serial -> Nat]
    BY <2>2 DEF rows, RowsInv, TablesOK, Positive
  <2>3. CASE Rests(r)
    BY <1>0, <2>2, <2>3 DEF Rests, tables
  <2>4. ASSUME NEW t \in Serial, Inserts(r, t) \/ Refused(r, t) PROVE UNCHANGED rows /\ sequence' \in [Serial -> Nat]
    BY <1>0, <2>4, DemoRowsAre DEF Inserts, Refused
  <2> QED
    BY <1>0, <2>1, <2>2, <2>3, <2>4, RequestSteps
<1>2. UNCHANGED <<todo, person, current, created>>
  BY DEF seedVars
<1>3. TodoInv' /\ Running' = Running /\ Ran' = Ran
  BY <1>2 DEF TodoInv, Running, Ran
<1>4. SeedOK'
  <2>1. person \in Seq(DOMAIN participant')
    BY <1>1 DEF LocalsInv, SeedOK
  <2> QED
    BY <1>1, <1>2, <2>1 DEF LocalsInv, SeedOK
<1>5. LocalsInv'
  BY <1>1, <1>2, <1>3, <1>4 DEF LocalsInv
<1> QED
  BY <1>1, <1>3, <1>5

-----------------------------------------------------------------------------
(* All together. *)

TypeInv == /\ WinnerInv
           /\ ScriptInv
           /\ RequestInv
           /\ signedUp \subseteq (Emails \X Requests)
           /\ order \in Orders

LEMMA TypeInit ==
    ASSUME Init
    PROVE  TypeInv
<1>1. WinnerInv
  BY DEF Init, AccountsInit, WinnerInv, Shape, Alone, Unclaimed, WinnersKeep, WinnerOwnsAccount,
     Open, InTransaction, Won, Idle
<1>2. RowsInv
  <2>1. Positive({})
    BY FS_EmptySet DEF Positive
  <2>2. DOMAIN Empty = {}
    BY DEF Empty
  <2>3. sequence \in [Serial -> Nat]
    BY DEF Init, TablesInit
  <2> QED
    BY <2>1, <2>2, <2>3 DEF Init, TablesInit, RowsInv, TablesOK
<1>3. TodoInv /\ LocalsInv
  BY ScriptShape DEF Init, SeedInit, TodoInv, LocalsInv, SeedOK, Running
<1>4. \A r \in Requests : ~Registering(r) /\ ~Open(r)
  BY DEF Init, AccountsInit, Idle, Registering, Open, InTransaction
<1>5. RequestInv
  BY <1>1, <1>4 DEF RequestInv, WinnerInv, Filled, HeldApart
<1> QED
  BY <1>1, <1>2, <1>3, <1>5 DEF TypeInv, ScriptInv, Init, AccountsInit, Orders

LEMMA TypeNext ==
    ASSUME TypeInv, [Next]_vars
    PROVE  TypeInv'
<1> USE DEF TypeInv
<1>1. WinnerInv'
  BY WinnerStep
<1>2. RequestInv'
  BY RequestsKeep
<1>3. signedUp' \subseteq (Emails \X Requests)
  <2>1. ASSUME NEW r \in Requests, Won(r) PROVE req[r].email \in Emails /\ req[r].password \in Requests
    BY <2>1 DEF WinnerInv, Shape, Won, Idle, Served
  <2>2. UNCHANGED signedUp \/ \E r \in Requests : Won(r) /\ signedUp' = signedUp \union {<<req[r].email, req[r].password>>}
    BY AccountSteps DEF WinnerInv, Seeds, Ends, Moves, Claims, Commits, Answers
  <2> QED
    BY <2>1, <2>2
<1>4. CASE UNCHANGED vars
  <2>1. UNCHANGED <<rows, tables, todo, person, current, created, order>>
    BY <1>4 DEF vars, tables, seedVars
  <2>2. RowsInv'
    BY <2>1 DEF ScriptInv, RowsInv, TablesOK, Positive, tables, rows
  <2>3. TodoInv' /\ Running' = Running /\ Ran' = Ran
    BY <2>1 DEF ScriptInv, TodoInv, Running, Ran
  <2>4. LocalsInv'
    BY <2>1, <2>3 DEF ScriptInv, LocalsInv, SeedOK, tables, rows
  <2> QED
    BY <1>1, <1>2, <1>3, <2>1, <2>2, <2>3, <2>4 DEF ScriptInv
<1>5. CASE ScriptStep
  <2>1. ScriptInv'
    BY <1>5, ScriptKeeps DEF ScriptStep
  <2>2. order' \in Orders
    BY <1>5 DEF ScriptStep, Orders
  <2> QED
    BY <1>1, <1>2, <1>3, <2>1, <2>2
<1>6. ASSUME NEW r \in Requests, AccountStep(r), Follows PROVE TypeInv'
  <2>1. ScriptInv'
    BY <1>6, RequestRows DEF RequestInv, Follows
  <2>2. order' \in Orders
    BY <1>6 DEF Follows, Orders
  <2> QED
    BY <1>1, <1>2, <1>3, <2>1, <2>2
<1> QED
  BY <1>4, <1>5, <1>6 DEF Next

\* Registrations and the script write the same tables: every row refers to rows
\* that are there, whatever fails between two statements or two upserts.
THEOREM RowsReferToRows == Spec => []TypeOK
<1>1. Init => TypeInv
  BY TypeInit
<1>2. TypeInv /\ [Next]_vars => TypeInv'
  BY TypeNext
<1>3. TypeInv => TypeOK
  BY DEF TypeInv, TypeOK, ScriptInv, RowsInv, LocalsInv, AccountsOK, WinnerInv, Shape, Served,
     Idle, Points
<1> QED
  BY <1>1, <1>2, <1>3, PTL DEF Spec

-----------------------------------------------------------------------------
(* The ids of the script, as long as nobody else takes any. *)

\* The alerts that the script is past are there.
AlertsDone ==
    /\ Running => \A m \in 1..Ran : Script[m].do = "alert" => Script[m].key \in DOMAIN alert
    /\ finished => \A m \in 1..Len(Script) : Script[m].do = "alert" => Script[m].key \in DOMAIN alert

LEMMA AlertsKeep ==
    ASSUME TypeInv, AlertsDone, [Next]_vars
    PROVE  AlertsDone'
<1> USE DEF TypeInv, ScriptInv
\* One more upsert.
<1>a. ASSUME Running, Step.do # "reset" \/ Len(todo) > 1, todo' = Tail(todo),
             UNCHANGED finished, DOMAIN alert \subseteq DOMAIN alert', Step.do = "alert" => Step.key \in DOMAIN alert'
      PROVE  AlertsDone'
  <2>1. Running' /\ Ran' = Ran + 1 /\ Ran \in Nat /\ Step = Script[Ran + 1]
    BY <1>a, Turned, Turn
  <2>2. ASSUME NEW m \in 1..(Ran + 1), Script[m].do = "alert" PROVE Script[m].key \in DOMAIN alert'
    <3>1. CASE m = Ran + 1
      BY <1>a, <2>1, <2>2, <3>1
    <3>2. CASE m # Ran + 1
      <4>1. m \in 1..Ran
        BY <2>1, <3>2
      <4> QED
        BY <1>a, <2>2, <4>1 DEF AlertsDone
    <3> QED
      BY <3>1, <3>2
  <2> QED
    BY <1>a, <2>1, <2>2 DEF AlertsDone
<1>b. ASSUME UNCHANGED <<todo, finished>>, DOMAIN alert \subseteq DOMAIN alert'
      PROVE  AlertsDone'
  <2>1. Running' = Running /\ Ran' = Ran
    BY <1>b DEF Running, Ran
  <2> QED
    BY <1>b, <2>1 DEF AlertsDone
<1>1. CASE UNCHANGED vars
  BY <1>1, <1>b DEF vars, tables, rows, seedVars
<1>2. ASSUME NEW r \in Requests, AccountStep(r), Follows PROVE AlertsDone'
  <2>1. DOMAIN alert \subseteq DOMAIN alert'
    <3>1. CASE Committed(r)
      BY <3>1, CommitIds DEF RequestInv
    <3>2. CASE UNCHANGED rows
      BY <3>2 DEF rows
    <3>3. sequence \in [Serial -> Nat]
      BY DEF RowsInv, TablesOK
    <3> QED
      BY <1>2, <3>1, <3>2, <3>3, RequestSteps DEF RequestInv, Rests, tables, Inserts, Refused
  <2> QED
    BY <1>2, <1>b, <2>1 DEF Follows, seedVars
<1>3. CASE ScriptStep
  <2>1. CASE Start
    <3>1. todo' = Script /\ UNCHANGED <<finished, alert>>
      BY <2>1 DEF Start, tables, rows
    <3>2. Ran' = 0
      BY <3>1, ScriptShape DEF Ran
    <3> QED
      BY <3>1, <3>2 DEF AlertsDone
  <2>2. CASE Crash
    BY <2>2 DEF Crash, Stop, tables, rows, AlertsDone, Running
  <2>3. CASE SeedCategories
    BY <1>a, <1>b, <2>3 DEF SeedCategories, At, Running
  <2>4. CASE SeedUsers \/ SeedParticipant \/ SeedProject \/ SeedLink \/ SeedOperation \/ SeedShare
    BY <1>a, <2>4 DEF SeedUsers, SeedParticipant, SeedProject, SeedLink, SeedOperation, SeedShare,
       At, Running
  <2>5. CASE SeedAlert
    <3>1. /\ Running /\ Step.do = "alert" /\ todo' = Tail(todo) /\ UNCHANGED finished
          /\ alert' = Added(alert, Row(Step.key, Step.who))
      BY <2>5 DEF SeedAlert, At, Running
    <3>2. DOMAIN alert' = (DOMAIN alert) \union {Step.key}
      BY <3>1, AddedRow
    <3> QED
      BY <1>a, <3>1, <3>2
  <2>6. CASE ResetSequences
    <3>0. CASE Len(todo) > 1 /\ todo' = Tail(todo) /\ UNCHANGED finished
      <4>1. Running /\ Step.do = "reset" /\ UNCHANGED alert
        BY <2>6 DEF ResetSequences, At, Running, rows
      <4> QED
        BY <1>a, <3>0, <4>1
    <3> SUFFICES ASSUME Len(todo) = 1, Stop
                 PROVE  AlertsDone'
      BY <2>6, <3>0 DEF ResetSequences
    <3>1. Running /\ Step.do = "reset" /\ todo' = <<>> /\ UNCHANGED alert
      BY <2>6 DEF ResetSequences, At, Running, Stop, rows
    <3>2. Ran + 1 = Len(Script) /\ Ran \in Nat /\ Step = Script[Ran + 1]
      BY <3>1, Turn, ScriptShape DEF Ran
    <3>3. ASSUME NEW m \in 1..Len(Script), Script[m].do = "alert" PROVE Script[m].key \in DOMAIN alert
      <4>1. m # Ran + 1
        BY <3>1, <3>2, <3>3
      <4>2. m \in 1..Ran
        BY <3>2, <4>1
      <4> QED
        BY <3>1, <3>3, <4>2 DEF AlertsDone
    <3>4. ~Running'
      BY <3>1 DEF Running
    <3> QED
      BY <3>1, <3>3, <3>4 DEF AlertsDone
  <2> QED
    BY <1>3, <2>1, <2>2, <2>3, <2>4, <2>5, <2>6 DEF ScriptStep, SeedStep, Upsert
<1> QED
  BY <1>1, <1>2, <1>3 DEF Next

\* The tables whose ids the database gives out.
Dealt == {"participant", "project", "operation"}

\* This run of the script has reset the first of the sequences.
AlertReset == Running /\ Ran + 4 > Len(Script)

\* No id is taken but by the script, and none is missing.
Untouched ==
    /\ \A t \in Dealt : Ids[t] = 1..sequence[t]
    /\ \A r \in Requests : Open(r) => req[r].pc = "participant"
    /\ \A i \in DOMAIN participant : participant[i] = People[i]
    /\ sequence["participant"] <= Len(People)
    /\ \A i \in DOMAIN person : person[i] = i
    /\ finished \/ AlertReset => \A a \in DOMAIN alert : a <= sequence["alert"]

\* What the upsert of a project or an expense leaves of the ids.
LEMMA DealtOn ==
    ASSUME sequence \in [Serial -> Nat], NEW t \in Dealt, NEW key \in Nat, key # 0,
           Ids[t] = 1..sequence[t], TakeId(t, key)
    PROVE  /\ Ids[t] \union {Upserted(t, key)} = 1..sequence'[t]
           /\ \A s \in Serial : s # t => sequence'[s] = sequence[s]
           /\ sequence'[t] \in Nat
<1> USE DEF Dealt, Serial
<1>1. CASE Found(t, key)
  <2>1. sequence' = sequence /\ Upserted(t, key) = key /\ key \in Ids[t]
    BY <1>1 DEF TakeId, Upserted, Found
  <2> QED
    BY <2>1
<1>2. CASE ~Found(t, key)
  <2>1. sequence' = [sequence EXCEPT ![t] = @ + 1] /\ Upserted(t, key) = sequence[t] + 1
    BY <1>2 DEF TakeId, Upserted, NewId
  <2>2. sequence'[t] = sequence[t] + 1 /\ sequence[t] \in Nat
    BY <2>1
  <2>3. (1..sequence[t]) \union {sequence[t] + 1} = 1..(sequence[t] + 1)
    BY <2>2
  <2> QED
    BY <2>1, <2>2, <2>3
<1> QED
  BY <1>1, <1>2

LEMMA UntouchedByScript ==
    ASSUME TypeInv, AlertsDone, Untouched, ScriptStep
    PROVE  Untouched'
<1> USE DEF TypeInv, ScriptInv
<1>0. /\ sequence \in [Serial -> Nat] /\ UNCHANGED req
      /\ Ids["participant"] = DOMAIN participant /\ Ids["project"] = DOMAIN project
      /\ Ids["operation"] = DOMAIN operation
      /\ Ids'["participant"] = DOMAIN participant' /\ Ids'["project"] = DOMAIN project'
      /\ Ids'["operation"] = DOMAIN operation'
  BY DEF RowsInv, TablesOK, ScriptStep, accountVars, Ids
<1>r. \A r \in Requests : Open(r)' => req'[r].pc = "participant"
  BY <1>0 DEF Untouched, Open
<1>k. Running => /\ Step.key \in Nat
                 /\ Step.do \in {"project", "operation"} => Step.key # 0
  <2>1. Running => Step \in Upserts
    BY Turn
  <2> QED
    BY <2>1, Turn DEF Upserts, Sound
\* The resets come last.
<1>n. ASSUME Running, Step.do # "reset", todo' = Tail(todo)
      PROVE  ~AlertReset'
  <2>1. Ran' = Ran + 1 /\ Ran \in Nat /\ Len(Script) \in Nat /\ ~(Ran + 4 >= Len(Script))
    BY <1>n, Turn, Turned, ScriptShape
  <2>2. Len(Script)' = Len(Script)
    OBVIOUS
  <2> QED
    BY <2>1, <2>2 DEF AlertReset
\* A step that leaves the ids, the people and the alerts alone.
<1>a. ASSUME UNCHANGED <<participant, project, operation, alert, sequence, finished>>,
             person' = person \/ person' = <<>>, AlertReset' => AlertReset
      PROVE  Untouched'
  BY <1>0, <1>a, <1>r DEF Untouched, Dealt
<1>1. CASE Start \/ Crash \/ SeedUsers \/ SeedCategories \/ SeedLink \/ SeedShare
  <2>1. AlertReset' => AlertReset
    <3>1. CASE Start
      <4>1. Ran' = 0 /\ Len(Script)' = Len(Script) /\ Len(Script) \in Nat /\ Len(Script) >= 6
        BY <3>1, ScriptShape DEF Start, Ran
      <4> QED
        BY <4>1 DEF AlertReset
    <3>2. CASE Crash
      BY <3>2 DEF Crash, Stop, AlertReset, Running
    <3>3. CASE SeedUsers \/ SeedLink \/ SeedShare
      BY <1>n, <3>3 DEF SeedUsers, SeedLink, SeedShare, At, Running
    <3>4. CASE SeedCategories
      <4>1. CASE todo' = todo
        BY <4>1 DEF AlertReset, Running, Ran
      <4>2. CASE todo' = Tail(todo)
        BY <1>n, <3>4, <4>2 DEF SeedCategories, At, Running
      <4> QED
        BY <3>4, <4>1, <4>2 DEF SeedCategories
    <3> QED
      BY <1>1, <3>1, <3>2, <3>3, <3>4
  <2> QED
    BY <1>1, <1>a, <2>1 DEF Start, Crash, Stop, SeedUsers, SeedCategories, SeedLink, SeedShare,
       tables, rows
<1>2. CASE SeedParticipant
  <2> DEFINE id == Upserted("participant", Step.key)
             n == sequence["participant"]
  <2>1. /\ Running /\ Step.do = "participant" /\ todo' = Tail(todo)
        /\ participant' = Added(participant, Row(id, Step.who))
        /\ person' = Append(person, id)
        /\ TakeId("participant", Step.key)
        /\ UNCHANGED <<project, operation, alert, finished>>
    BY <1>2 DEF SeedParticipant, At, Running
  <2>2. /\ Step.key = Ran - 1 /\ Ran >= 2 /\ Ran < Len(People) + 2 /\ Ran \in Nat
        /\ Step.who = People[Ran - 1] /\ Len(person) = Step.key - 1
        /\ Len(People) \in Nat
    BY <2>1, Turn, PeopleNext, ScriptShape
  <2>3. n \in Nat /\ DOMAIN participant = 1..n
    BY <1>0 DEF Serial, Untouched, Dealt
  <2>4. person \in Seq(DOMAIN participant)
    BY DEF LocalsInv, SeedOK
  <2>5. Step.key - 1 <= n
    <3>1. CASE Step.key = 1
      BY <2>3, <3>1
    <3>2. CASE Step.key # 1
      <4>1. Len(person) \in DOMAIN person
        BY <2>2, <2>4, <3>2
      <4>2. person[Len(person)] = Len(person)
        BY <4>1 DEF Untouched
      <4>3. person[Len(person)] \in 1..n
        BY <2>3, <2>4, <4>1
      <4> QED
        BY <2>2, <2>3, <4>2, <4>3
    <3> QED
      BY <3>1, <3>2
  <2>6. id = Step.key
    <3>1. CASE Step.key \in 1..n
      BY <1>0, <2>3, <3>1 DEF Upserted, Found
    <3>2. CASE Step.key \notin 1..n
      <4>1. Step.key = n + 1
        BY <2>2, <2>3, <2>5, <3>2
      <4> QED
        BY <1>0, <2>3, <3>2, <4>1 DEF Upserted, Found, NewId
    <3> QED
      BY <3>1, <3>2
  <2>7. /\ Ids["participant"] \union {id} = 1..sequence'["participant"]
        /\ \A s \in Serial : s # "participant" => sequence'[s] = sequence[s]
        /\ sequence'["participant"] \in Nat
    BY <1>0, <2>1, <2>2, DealtOn DEF Untouched, Dealt
  <2> HIDE DEF id, n
  <2>8. DOMAIN participant' = DOMAIN participant \union {id}
    BY <2>1, AddedRow
  <2>9. \A t \in Dealt : Ids'[t] = 1..sequence'[t]
    BY <1>0, <2>1, <2>7, <2>8 DEF Untouched, Dealt, Serial
  <2>10. \A i \in DOMAIN participant' : participant'[i] = People[i]
    <3>1. \A i \in DOMAIN participant' :
             (i \in DOMAIN participant /\ participant'[i] = participant[i])
             \/ (i = id /\ participant'[i] = Step.who)
      BY <2>1 DEF Added, Row
    <3>2. Step.who = People[id]
      BY <2>2, <2>6
    <3> QED
      BY <3>1, <3>2 DEF Untouched
  <2>11. sequence'["participant"] <= Len(People)
    <3>1. id \in 1..Len(People) /\ n <= Len(People)
      BY <2>2, <2>6 DEF Untouched, n
    <3>2. sequence'["participant"] \in 1..n \union {id} \/ sequence'["participant"] = 0
      BY <1>0, <2>3, <2>7
    <3> QED
      BY <2>2, <2>3, <3>1, <3>2
  <2>12. \A i \in DOMAIN person' : person'[i] = i
    <3>1. id = Len(person) + 1
      BY <2>2, <2>6
    <3>2. DOMAIN person' = 1..(Len(person) + 1) /\ person'[Len(person) + 1] = id
          /\ \A i \in 1..Len(person) : person'[i] = person[i]
      BY <2>1, <2>4
    <3>3. DOMAIN person = 1..Len(person) /\ Len(person) \in Nat
      BY <2>4
    <3> QED
      BY <3>1, <3>2, <3>3 DEF Untouched
  <2>13. finished' \/ AlertReset' => \A a \in DOMAIN alert' : a <= sequence'["alert"]
    <3>1. ~AlertReset'
      BY <1>n, <2>1
    <3> QED
      BY <2>1, <2>7, <3>1 DEF Untouched, Serial
  <2> QED
    BY <1>r, <2>9, <2>10, <2>11, <2>12, <2>13 DEF Untouched
<1>3. CASE SeedProject
  <2> DEFINE id == Upserted("project", Step.key)
  <2>1. /\ Running /\ Step.do = "project"
        /\ project' = Added(project, Row(id, Step.who))
        /\ TakeId("project", Step.key)
        /\ UNCHANGED <<participant, operation, alert, person, finished>>
        /\ ~AlertReset'
    BY <1>3, <1>n DEF SeedProject, At, Running
  <2>2. /\ Ids["project"] \union {id} = 1..sequence'["project"]
        /\ \A s \in Serial : s # "project" => sequence'[s] = sequence[s]
    BY <1>0, <1>k, <2>1, DealtOn DEF Untouched, Dealt
  <2> HIDE DEF id
  <2>3. DOMAIN project' = DOMAIN project \union {id}
    BY <2>1, AddedRow
  <2>4. \A t \in Dealt : Ids'[t] = 1..sequence'[t]
    BY <1>0, <2>1, <2>2, <2>3 DEF Untouched, Dealt, Serial
  <2> QED
    BY <1>r, <2>1, <2>2, <2>4 DEF Untouched, Serial
<1>4. CASE SeedOperation
  <2> DEFINE id == Upserted("operation", Step.key)
             c == [project |-> current, amount |-> Step.amount]
  <2>1. /\ Running /\ Step.do = "operation"
        /\ operation' = Added(operation, Row(id, c))
        /\ TakeId("operation", Step.key)
        /\ UNCHANGED <<participant, project, alert, person, finished>>
        /\ ~AlertReset'
    BY <1>4, <1>n DEF SeedOperation, At, Running
  <2>2. /\ Ids["operation"] \union {id} = 1..sequence'["operation"]
        /\ \A s \in Serial : s # "operation" => sequence'[s] = sequence[s]
    BY <1>0, <1>k, <2>1, DealtOn DEF Untouched, Dealt
  <2> HIDE DEF id, c
  <2>3. DOMAIN operation' = DOMAIN operation \union {id}
    BY <2>1, AddedRow
  <2>4. \A t \in Dealt : Ids'[t] = 1..sequence'[t]
    BY <1>0, <2>1, <2>2, <2>3 DEF Untouched, Dealt, Serial
  <2> QED
    BY <1>r, <2>1, <2>2, <2>4 DEF Untouched, Serial
\* Once the script was through, its alerts are there already.
<1>5. CASE SeedAlert
  <2>1. /\ Running /\ Step.do = "alert"
        /\ alert' = Added(alert, Row(Step.key, Step.who))
        /\ UNCHANGED <<participant, project, operation, sequence, person, finished>>
        /\ ~AlertReset'
    BY <1>5, <1>n DEF SeedAlert, At, Running
  <2>2. DOMAIN alert' = DOMAIN alert \union {Step.key}
    BY <2>1, AddedRow
  <2>3. finished => Step.key \in DOMAIN alert
    <3>1. Ran + 1 \in 1..Len(Script) /\ Step = Script[Ran + 1]
      BY <2>1, Turn
    <3> QED
      BY <2>1, <3>1 DEF AlertsDone
  <2>4. finished' \/ AlertReset' => \A a \in DOMAIN alert' : a <= sequence'["alert"]
    BY <2>1, <2>2, <2>3 DEF Untouched
  <2> QED
    BY <1>0, <1>r, <2>1, <2>4 DEF Untouched, Dealt
<1>6. CASE ResetSequences
  <2>1. /\ UNCHANGED <<participant, project, operation, alert>>
        /\ person' = <<>> \/ person' = person
        /\ sequence' = [sequence EXCEPT ![Step.who] = LastId(Step.who)]
        /\ Running /\ Step.do = "reset"
    BY <1>6 DEF ResetSequences, Stop, At, Running, rows
  <2>2. ASSUME NEW t \in Serial
        PROVE  /\ LastId(t) \in Nat
               /\ \A i \in Ids[t] : i <= LastId(t)
               /\ Ids[t] # {} => LastId(t) \in Ids[t]
               /\ Ids[t] = {} => LastId(t) = sequence[t]
    <3>1. Positive(Ids[t])
      BY DEF RowsInv, Ids, Serial
    <3> QED
      BY <1>0, <3>1, LastIdIs
  <2>3. \A t \in Dealt : LastId(t) = sequence[t]
    <3> TAKE t \in Dealt
    <3>1. Ids[t] = 1..sequence[t] /\ t \in Serial /\ sequence[t] \in Nat
      BY <1>0 DEF Untouched, Dealt, Serial
    <3>2. CASE Ids[t] = {}
      BY <2>2, <3>1, <3>2
    <3>3. CASE Ids[t] # {}
      <4>1. sequence[t] \in Ids[t]
        BY <3>1, <3>3
      <4>2. sequence[t] <= LastId(t) /\ LastId(t) \in 1..sequence[t]
        BY <2>2, <3>1, <3>3, <4>1
      <4> QED
        BY <3>1, <4>2
    <3> QED
      BY <3>2, <3>3
  <2>4. \A t \in Dealt : sequence'[t] = sequence[t]
    BY <1>0, <2>1, <2>3 DEF Dealt, Serial
  <2>5. \A a \in DOMAIN alert : a <= sequence'["alert"]
    <3>1. CASE Step.who = "alert"
      <4>1. sequence'["alert"] = LastId("alert")
        BY <1>0, <2>1, <3>1 DEF Serial
      <4> QED
        BY <2>2, <4>1 DEF Ids, Serial
    <3>2. CASE Step.who # "alert"
      <4>1. sequence'["alert"] = sequence["alert"]
        BY <1>0, <2>1, <3>2 DEF Serial
      <4>2. /\ Ran + 5 - Len(Script) \in 1..4 /\ Step.who = Resets[Ran + 5 - Len(Script)]
            /\ Ran \in Nat /\ Len(Script) \in Nat
        BY <2>1, Turn, ScriptShape
      <4>3. Resets[1] = "alert"
        BY DEF Resets
      <4>4. Ran + 5 - Len(Script) # 1
        BY <3>2, <4>2, <4>3
      <4>5. AlertReset
        BY <2>1, <4>2, <4>4 DEF AlertReset
      <4> QED
        BY <4>1, <4>5 DEF Untouched
    <3> QED
      BY <3>1, <3>2
  <2> QED
    BY <1>0, <1>r, <2>1, <2>4, <2>5 DEF Untouched, Dealt
<1> QED
  BY <1>1, <1>2, <1>3, <1>4, <1>5, <1>6 DEF ScriptStep, SeedStep, Upsert

-----------------------------------------------------------------------------
(* The ids of the application, once the script is through. *)

AllBelow == \A t \in Serial : \A i \in Ids[t] : i <= sequence[t]

HeldBelow ==
    \A r \in Requests : Open(r) =>
       \A t \in Serial : \A i \in DOMAIN req[r].taken[t] : req[r].taken[t][i] <= sequence[t]

FreshInv == /\ AlertsDone
            /\ order = "seeding" => Untouched
            /\ order = "open" => todo = <<>> /\ finished /\ AllBelow /\ HeldBelow

\* Ids are taken from the sequences, which never go back meanwhile.
LEMMA BelowKeep ==
    ASSUME RequestInv, RowsInv, AllBelow, HeldBelow, NEW r \in Requests, AccountStep(r)
    PROVE  AllBelow' /\ HeldBelow'
<1> USE DEF RequestInv
<1>0. sequence \in [Serial -> Nat] /\ \A t \in Serial : Ids[t] \subseteq Nat
  BY DEF RowsInv, TablesOK, Positive, Ids, Serial
<1>a. ASSUME Others(r), NEW q \in Requests, q # r
      PROVE  Open(q)' <=> Open(q) /\ req'[q].taken = req[q].taken
  BY <1>a DEF Others, Open
<1>n. ASSUME NEW q \in Requests, Open(q), NEW t \in Serial, NEW i \in DOMAIN req[q].taken[t]
      PROVE  req[q].taken[t][i] \in Nat
  BY <1>n DEF Filled, FilledFor, Numbers, Registering
<1>1. CASE Rests(r)
  <2>1. Others(r) /\ UNCHANGED <<sequence, Ids>>
    BY <1>1 DEF Rests, tables, rows, Ids
  <2>2. Open(r)' => \A t \in Serial : DOMAIN req'[r].taken[t] = {}
    <3>1. Open(r)' => FilledFor(r)' /\ req'[r].pc \in {"find", "user", "participant"}
      BY <1>1 DEF Rests, Registering
    <3>2. \A t \in Serial, pc \in {"find", "user", "participant"} : CountAt(pc, t) = 0
      BY DEF CountAt, Inserted
    <3> QED
      BY <3>1, <3>2 DEF FilledFor, Numbers
  <2>3. HeldBelow'
    <3> SUFFICES ASSUME NEW q \in Requests, Open(q)', NEW t \in Serial,
                        NEW i \in DOMAIN req'[q].taken[t]
                 PROVE  req'[q].taken[t][i] <= sequence'[t]
      BY DEF HeldBelow
    <3>1. q # r
      BY <2>2
    <3> QED
      BY <1>a, <2>1, <3>1 DEF HeldBelow
  <2> QED
    BY <2>1, <2>3 DEF AllBelow
<1>2. ASSUME NEW t \in Serial, Inserts(r, t) PROVE AllBelow' /\ HeldBelow'
  <2>1. /\ Others(r) /\ UNCHANGED Ids /\ Open(r) /\ DemoRows(t) \in Nat
        /\ sequence' = [sequence EXCEPT ![t] = @ + DemoRows(t)]
    BY <1>2, DemoRowsAre DEF Inserts, rows, Ids
  <2>2. \A s \in Serial : sequence[s] \in Nat /\ sequence'[s] \in Nat /\ sequence[s] <= sequence'[s]
    BY <1>0, <2>1
  <2>3. AllBelow'
    BY <1>0, <2>1, <2>2 DEF AllBelow
  <2>4. HeldBelow'
    <3> SUFFICES ASSUME NEW q \in Requests, Open(q)', NEW s \in Serial,
                        NEW i \in DOMAIN req'[q].taken[s]
                 PROVE  req'[q].taken[s][i] <= sequence'[s]
      BY DEF HeldBelow
    <3>1. CASE q = r /\ s = t
      <4>1. req'[r].taken[t] = [k \in 1..DemoRows(t) |-> sequence[t] + k]
        BY <1>2 DEF Inserts
      <4>2. i \in 1..DemoRows(t) /\ req'[r].taken[t][i] = sequence[t] + i
        BY <3>1, <4>1
      <4> QED
        BY <1>0, <2>1, <3>1, <4>2
    <3>2. CASE ~(q = r /\ s = t)
      <4>1. Open(q) /\ req'[q].taken[s] = req[q].taken[s]
        BY <1>2, <1>a, <2>1, <3>2 DEF Inserts
      <4> QED
        BY <1>n, <2>2, <4>1 DEF HeldBelow
    <3> QED
      BY <3>1, <3>2
  <2> QED
    BY <2>3, <2>4
<1>3. ASSUME NEW t \in Serial, Refused(r, t) PROVE AllBelow' /\ HeldBelow'
  <2>1. /\ Others(r) /\ UNCHANGED Ids /\ ~Open(r)'
        /\ \E k \in Nat : k # 0 /\ sequence' = [sequence EXCEPT ![t] = @ + k]
    BY <1>3, IdleRests DEF Refused, rows, Ids, Registering
  <2>2. \A s \in Serial : sequence[s] \in Nat /\ sequence'[s] \in Nat /\ sequence[s] <= sequence'[s]
    BY <1>0, <2>1
  <2>3. AllBelow'
    BY <1>0, <2>1, <2>2 DEF AllBelow
  <2>4. HeldBelow'
    <3> SUFFICES ASSUME NEW q \in Requests, Open(q)', NEW s \in Serial,
                        NEW i \in DOMAIN req'[q].taken[s]
                 PROVE  req'[q].taken[s][i] <= sequence'[s]
      BY DEF HeldBelow
    <3>1. Open(q) /\ req'[q].taken[s] = req[q].taken[s]
      BY <1>a, <2>1
    <3> QED
      BY <1>n, <2>2, <3>1 DEF HeldBelow
  <2> QED
    BY <2>3, <2>4
<1>4. CASE Committed(r)
  <2>1. /\ Others(r) /\ Open(r) /\ ~Open(r)' /\ UNCHANGED sequence
        /\ \A t \in Serial : Ids'[t] = Ids[t] \union Own(r, t)
    BY <1>4, CommitIds DEF Committed, Commit, Registering
  <2>2. AllBelow'
    BY <2>1 DEF AllBelow, HeldBelow, Own
  <2>3. HeldBelow'
    BY <1>a, <2>1 DEF HeldBelow
  <2> QED
    BY <2>2, <2>3
<1> QED
  BY <1>0, <1>1, <1>2, <1>3, <1>4, RequestSteps

\* A request moves no sequence unless it takes ids, and takes none before.
LEMMA UntouchedByRequest ==
    ASSUME TypeInv, Untouched, NEW r \in Requests, AccountStep(r), UNCHANGED seedVars,
           sequence' = sequence
    PROVE  Untouched'
<1> USE DEF TypeInv, RequestInv, ScriptInv
<1>0. sequence \in [Serial -> Nat]
  BY DEF RowsInv, TablesOK
<1>1. \A t \in Serial, k \in Nat : k # 0 => sequence' # [sequence EXCEPT ![t] = @ + k]
  <2> SUFFICES ASSUME NEW t \in Serial, NEW k \in Nat, k # 0,
                      sequence' = [sequence EXCEPT ![t] = @ + k]
               PROVE  FALSE
    OBVIOUS
  <2>1. sequence'[t] = sequence[t] + k /\ sequence[t] \in Nat
    BY <1>0
  <2> QED
    BY <2>1
<1>2. ~Committed(r)
  BY CommitIds DEF Committed, Untouched
<1>3. Rests(r)
  <2>1. ASSUME NEW t \in Serial, Inserts(r, t) PROVE FALSE
    <3>1. DemoRows(t) \in Nat /\ DemoRows(t) # 0
      BY DemoRowsAre
    <3> QED
      BY <1>1, <2>1, <3>1 DEF Inserts
  <2>2. ASSUME NEW t \in Serial, Refused(r, t) PROVE FALSE
    BY <1>1, <2>2 DEF Refused
  <2> QED
    BY <1>0, <1>2, <2>1, <2>2, RequestSteps
<1>4. UNCHANGED <<participant, project, operation, alert, Ids, person, todo, finished>>
  BY <1>3 DEF Rests, tables, rows, Ids, seedVars
<1>5. \A q \in Requests : Open(q)' => req'[q].pc = "participant"
  <2>1. Others(r)
    BY <1>3 DEF Rests
  <2>2. Open(r)' => req'[r].pc = "participant"
    BY <1>3 DEF Rests, Open, InTransaction, Registering
  <2> QED
    BY <2>1, <2>2 DEF Others, Open, Untouched
<1>6. AlertReset' <=> AlertReset
  BY <1>4 DEF AlertReset, Running, Ran
<1> QED
  BY <1>4, <1>5, <1>6 DEF Untouched

\* Before the first registration took an id, nothing is above its sequence when
\* the script is through.
LEMMA UntouchedIsBelow ==
    ASSUME TypeInv, Untouched
    PROVE  HeldBelow /\ (finished => AllBelow)
<1>1. ASSUME finished PROVE AllBelow
  <2>1. \A t \in Dealt : \A i \in Ids[t] : i <= sequence[t]
    BY DEF Untouched, Dealt, Serial, TypeInv, ScriptInv, RowsInv, TablesOK
  <2>2. \A i \in Ids["alert"] : i <= sequence["alert"]
    BY <1>1 DEF Untouched, Ids
  <2> QED
    BY <2>1, <2>2 DEF AllBelow, Dealt, Serial
<1>2. HeldBelow
  <2>1. ASSUME NEW r \in Requests, Open(r), NEW t \in Serial PROVE DOMAIN req[r].taken[t] = {}
    <3>1. req[r].pc = "participant" /\ FilledFor(r)
      BY <2>1 DEF Untouched, TypeInv, RequestInv, Filled, Registering
    <3>2. CountAt("participant", t) = 0
      BY DEF CountAt, Inserted
    <3> QED
      BY <3>1, <3>2 DEF FilledFor, Numbers
  <2> QED
    BY <2>1 DEF HeldBelow
<1> QED
  BY <1>1, <1>2

LEMMA FreshNext ==
    ASSUME TypeInv, FreshInv, [Next]_vars
    PROVE  FreshInv'
<1> USE DEF FreshInv
<1>1. AlertsDone'
  BY AlertsKeep
<1>2. CASE UNCHANGED vars
  <2>1. UNCHANGED <<participant, project, operation, alert, sequence, Ids, req, todo, person,
                    finished, order>>
    BY <1>2 DEF vars, tables, rows, accountVars, seedVars, Ids
  <2> QED
    BY <1>1, <2>1 DEF Untouched, AlertReset, Running, Ran, AllBelow, HeldBelow, Open
<1>3. CASE ScriptStep
  <2>1. order' = IF order = "open" THEN "mixed" ELSE order
    BY <1>3 DEF ScriptStep
  <2>2. order' = "seeding" => Untouched'
    BY <1>3, <2>1, UntouchedByScript
  <2>3. order' # "open"
    BY <2>1
  <2> QED
    BY <1>1, <2>2, <2>3
<1>4. ASSUME NEW r \in Requests, AccountStep(r), Follows PROVE FreshInv'
  <2>1. UNCHANGED seedVars /\ UNCHANGED <<todo, finished>>
    BY <1>4 DEF Follows, seedVars
  <2>2. ASSUME order' = "seeding" PROVE Untouched'
    <3>1. order = "seeding" /\ sequence' = sequence
      BY <1>4, <2>2 DEF Follows
    <3> QED
      BY <1>4, <2>1, <3>1, UntouchedByRequest
  <2>3. ASSUME order' = "open" PROVE todo' = <<>> /\ finished' /\ AllBelow' /\ HeldBelow'
    <3>1. todo = <<>> /\ finished /\ AllBelow /\ HeldBelow
      <4>1. order = "open" \/ (order = "seeding" /\ finished /\ todo = <<>>)
        BY <1>4, <2>3 DEF Follows
      <4> QED
        BY <4>1, UntouchedIsBelow
    <3>2. AllBelow' /\ HeldBelow'
      BY <1>4, <3>1, BelowKeep DEF TypeInv, ScriptInv
    <3> QED
      BY <2>1, <3>1, <3>2
  <2> QED
    BY <1>1, <2>2, <2>3
<1> QED
  BY <1>2, <1>3, <1>4 DEF Next

LEMMA FreshInit ==
    ASSUME Init
    PROVE  FreshInv
<1>1. DOMAIN Empty = {} /\ \A t \in Dealt : Ids[t] = {} /\ sequence[t] = 0
  BY DEF Init, TablesInit, Ids, Empty, Dealt, Serial
<1>2. \A r \in Requests : ~Open(r)
  BY DEF Init, AccountsInit, Idle, Open, InTransaction
<1>3. Len(People) \in Nat /\ sequence["participant"] = 0
  BY <1>1, ScriptShape DEF Dealt
<1>4. Untouched
  <2>1. DOMAIN participant = {} /\ DOMAIN person = {} /\ ~finished /\ ~AlertReset
    BY <1>1 DEF Init, SeedInit, TablesInit, AlertReset, Running
  <2>2. \A t \in Dealt : Ids[t] = 1..sequence[t]
    <3> TAKE t \in Dealt
    <3>1. 1..0 = {}
      OBVIOUS
    <3> QED
      BY <1>1, <3>1
  <2> QED
    BY <1>2, <1>3, <2>1, <2>2 DEF Untouched
<1> QED
  BY <1>4 DEF Init, SeedInit, FreshInv, AlertsDone, Running

LEMMA FreshAlways == Spec => [](TypeInv /\ FreshInv)
<1>1. Init => TypeInv /\ FreshInv
  BY TypeInit, FreshInit
<1>2. TypeInv /\ FreshInv /\ [Next]_vars => (TypeInv /\ FreshInv)'
  BY TypeNext, FreshNext
<1> QED
  BY <1>1, <1>2, PTL DEF Spec

\* The ids the script looks for are not the ids it creates its rows with; yet until
\* a registration takes an id, each name means its own row, whatever number of
\* people there are, and however often the script dies and is run again.
THEOREM NamesMeanTheirRows == Spec => []PeopleStayApart
<1>1. TypeInv /\ FreshInv => PeopleStayApart
  <2> SUFFICES ASSUME TypeInv, Untouched
               PROVE  /\ \A i \in DOMAIN person : participant[person[i]] = People[i]
                      /\ \A p, q \in DOMAIN participant : participant[p] = participant[q] => p = q
    BY DEF FreshInv, PeopleStayApart
  <2>1. DOMAIN participant = 1..sequence["participant"] /\ sequence["participant"] \in Nat
    BY DEF Untouched, Dealt, Ids, TypeInv, ScriptInv, RowsInv, TablesOK, Serial
  <2>2. \A i \in DOMAIN person : i \in DOMAIN participant
    <3>1. person \in Seq(DOMAIN participant)
      BY DEF TypeInv, ScriptInv, LocalsInv, SeedOK
    <3> QED
      BY <3>1 DEF Untouched
  <2>3. DOMAIN participant \subseteq DOMAIN People
    BY <2>1, PlanAssumption DEF Untouched
  <2>4. \A p, q \in DOMAIN People : People[p] = People[q] => p = q
    BY PlanAssumption DEF IsInjective
  <2> QED
    BY <2>2, <2>3, <2>4 DEF Untouched
<1> QED
  BY <1>1, FreshAlways, PTL

\* The reset of the sequences does what its comment says: once the script is
\* through, no id of any table is one that an INSERT has yet to take.
THEOREM InsertsMeetNoRow == Spec => []IdsAreFresh
<1>1. TypeInv /\ FreshInv => IdsAreFresh
  BY UntouchedIsBelow DEF FreshInv, IdsAreFresh, AllBelow, TypeInv, Orders
<1> QED
  BY <1>1, FreshAlways, PTL

-----------------------------------------------------------------------------
(* Who waits for whom. *)

\* How far a transaction is.  All of them write the tables in the same order.
Place(r) == CASE req[r].pc = "user"        -> 1
              [] req[r].pc = "participant" -> 2
              [] req[r].pc = "project"     -> 3
              [] req[r].pc = "alert"       -> 4
              [] req[r].pc = "operation"   -> 5
              [] req[r].pc = "commit"      -> 6
              [] OTHER                     -> 0

\* What makes a request wait was inserted by one that has come further.
LEMMA WaitsForFurther ==
    ASSUME Filled, NEW r \in Requests, Waits(r)
    PROVE  \E q \in Busy : Place(q) > Place(r)
<1>1. CASE req[r].pc = "user" /\ EmailWritten(r)
  <2>1. PICK q \in Requests : Open(q)
    BY <1>1 DEF EmailWritten
  <2>2. Place(q) > 1 /\ q \in Busy
    BY <2>1 DEF Open, InTransaction, Place, Busy
  <2> QED
    BY <1>1, <2>2 DEF Place
<1>2. ASSUME NEW t \in Serial, req[r].pc = t, NEW i \in 1..DemoRows(t),
             NextIds(t, DemoRows(t))[i] \in Held(t)
      PROVE  \E q \in Busy : Place(q) > Place(r)
  <2>1. PICK q \in Requests : Open(q) /\ DOMAIN req[q].taken[t] # {}
    BY <1>2 DEF Held
  <2>2. DOMAIN req[q].taken[t] = 1..CountAt(req[q].pc, t)
    BY <2>1 DEF Filled, FilledFor, Registering, Numbers
  <2>3. Inserted(req[q].pc, t)
    BY <2>1, <2>2 DEF CountAt
  <2>4. Place(q) > Place(r) /\ q \in Busy
    BY <1>2, <2>1, <2>3 DEF Inserted, Place, Busy, Serial, Open, InTransaction
  <2> QED
    BY <2>4
<1> QED
  BY <1>1, <1>2 DEF Waits

\* Whoever has come furthest waits for nobody.
LEMMA FurthestGoesOn ==
    ASSUME Filled, Busy # {}
    PROVE  \E r \in Busy : ~Waits(r)
<1> DEFINE Left == {6 - Place(r) : r \in Busy}
<1>1. \A r : Place(r) \in 0..6
  BY DEF Place
<1>2. Left \in SUBSET Nat /\ Left # {}
  BY <1>1
<1>3. PICK n \in Left : \A m \in Left : n <= m
  <2> HIDE DEF Left
  <2> QED
    BY <1>2, SmallestNumber
<1>4. PICK r \in Busy : n = 6 - Place(r)
  BY <1>3
<1>5. ASSUME NEW q \in Busy PROVE ~(Place(q) > Place(r))
  <2>1. 6 - Place(r) <= 6 - Place(q)
    BY <1>3, <1>4
  <2>2. Place(q) \in 0..6 /\ Place(r) \in 0..6
    BY <1>1
  <2> QED
    BY <2>1, <2>2
<1> QED
  BY <1>4, <1>5, WaitsForFurther DEF Busy

\* Registrations that wait for an email or an id queue one behind the other, and
\* the script behind them: there is no circle, so no deadlock to be broken.
THEOREM NobodyWaitsInACircle == Spec => []SomebodyCanGoOn
<1>1. TypeInv => SomebodyCanGoOn
  <2> SUFFICES ASSUME TypeInv, Busy # {} \/ (todo # <<>> /\ ScriptWaits)
               PROVE  \E r \in Busy : ~Waits(r)
    BY DEF SomebodyCanGoOn
  <2>1. Filled
    BY DEF TypeInv, RequestInv
  <2>2. \A t : Held(t) # {} => Busy # {}
    BY DEF Held, Busy, Open, InTransaction
  <2>3. Busy # {}
    BY <2>2 DEF ScriptWaits
  <2> QED
    BY <2>1, <2>3, FurthestGoesOn
<1>2. Init => TypeInv
  BY TypeInit
<1>3. TypeInv /\ [Next]_vars => TypeInv'
  BY TypeNext
<1> QED
  BY <1>1, <1>2, <1>3, PTL DEF Spec

-----------------------------------------------------------------------------
(* What a registration leaves. *)

\* Nobody registers with the address of a user of the seeding script.
EmailsApart == Emails \intersect Owners = {}

OpenIsNew == \A r \in Requests : Open(r) => req[r].email \notin DOMAIN account

PeopleOf(j) == {p \in DOMAIN participant : <<j, p>> \in linked}
OpsOf(j)    == {o \in DOMAIN operation : operation[o].project = j}
AlertsOf(e) == {a \in DOMAIN alert : alert[a] = e}

Three(S) == \E a, b, c : a # b /\ a # c /\ b # c /\ S = {a, b, c}

\* Three people bear a third each of three expenses.
Thirds(j) ==
    /\ Three(PeopleOf(j))
    /\ Three(OpsOf(j))
    /\ \A o \in OpsOf(j) :
          /\ \A p \in PeopleOf(j) : /\ <<o, p>> \in DOMAIN share
                                    /\ share[<<o, p>>] \in Nat
                                    /\ operation[o].amount = 3 * share[<<o, p>>]
          /\ \A s \in DOMAIN share : s[1] = o => s[2] \in PeopleOf(j)

WholeFor(e) == /\ \E a : AlertsOf(e) = {a}
               /\ \E j : DemoOf(e) = {j} /\ (order # "mixed" => Thirds(j))

WholeInv == /\ OpenIsNew
            /\ order = "seeding" => Registered = {}
            /\ \A e \in Registered : WholeFor(e)

LEMMA ThreeNumbers ==
    ASSUME NEW ids, Numbers(ids, 3)
    PROVE  Three({ids[i] : i \in DOMAIN ids})
<1>1. DOMAIN ids = {1, 2, 3} /\ ids[1] # ids[2] /\ ids[1] # ids[3] /\ ids[2] # ids[3]
  BY DEF Numbers
<1>2. {ids[i] : i \in DOMAIN ids} = {ids[1], ids[2], ids[3]}
  BY <1>1
<1> QED
  BY <1>1, <1>2 DEF Three

LEMMA ThreeCounts ==
    ASSUME NEW S, Three(S)
    PROVE  IsFiniteSet(S) /\ Cardinality(S) = 3
<1> PICK a, b, c : a # b /\ a # c /\ b # c /\ S = {a, b, c}
  BY DEF Three
<1>1. IsFiniteSet({a}) /\ Cardinality({a}) = 1
  BY FS_Singleton
<1>2. IsFiniteSet({a} \union {b}) /\ Cardinality({a} \union {b}) = 2
  BY <1>1, FS_AddElement
<1>3. IsFiniteSet(({a} \union {b}) \union {c}) /\ Cardinality(({a} \union {b}) \union {c}) = 3
  BY <1>2, FS_AddElement
<1>4. S = ({a} \union {b}) \union {c}
  OBVIOUS
<1> QED
  BY <1>3, <1>4

\* Three equal shares add up to three times one of them.
LEMMA ThreeSum ==
    ASSUME NEW w, NEW S, Three(S), NEW n \in Nat, \A x \in S : w[x] = n
    PROVE  Sum(w, S) = 3 * n
<1> PICK a, b, c : a # b /\ a # c /\ b # c /\ S = {a, b, c}
  BY DEF Three
<1>1. IsFiniteSet(S) /\ IsFiniteSet(S \ {a})
  BY ThreeCounts, FS_RemoveElement
<1>2. Sum(w, S) = w[a] + Sum(w, S \ {a})
  BY <1>1, SumRemove
<1>3. b \in S \ {a} /\ (S \ {a}) \ {b} = {c}
  OBVIOUS
<1>4. Sum(w, S \ {a}) = w[b] + Sum(w, (S \ {a}) \ {b})
  BY <1>1, <1>3, SumRemove
<1>5. Sum(w, {c}) = w[c]
  BY SumSingle
<1>6. w[a] = n /\ w[b] = n /\ w[c] = n
  OBVIOUS
<1> QED
  BY <1>2, <1>3, <1>4, <1>5, <1>6

LEMMA WholeIsWhole ==
    ASSUME TypeInv, WholeInv
    PROVE  AccountIsWhole
<1> SUFFICES ASSUME NEW e \in Registered
             PROVE  /\ Cardinality(AlertsOf(e)) = 1
                    /\ \E j \in DemoOf(e) :
                          /\ DemoOf(e) = {j}
                          /\ order # "mixed" =>
                                /\ Cardinality(PeopleOf(j)) = 3
                                /\ Cardinality(OpsOf(j)) = 3
                                /\ \A o \in OpsOf(j) :
                                      /\ SumOf(o) = operation[o].amount
                                      /\ \A s \in DOMAIN share : s[1] = o => s[2] \in PeopleOf(j)
  BY DEF AccountIsWhole, PeopleOf, OpsOf, AlertsOf
<1>1. Cardinality(AlertsOf(e)) = 1
  BY FS_Singleton DEF WholeInv, WholeFor
<1>2. PICK j : DemoOf(e) = {j} /\ (order # "mixed" => Thirds(j))
  BY DEF WholeInv, WholeFor
<1>3. ASSUME Thirds(j)
      PROVE  /\ Cardinality(PeopleOf(j)) = 3
             /\ Cardinality(OpsOf(j)) = 3
             /\ \A o \in OpsOf(j) :
                   /\ SumOf(o) = operation[o].amount
                   /\ \A s \in DOMAIN share : s[1] = o => s[2] \in PeopleOf(j)
  <2>1. Cardinality(PeopleOf(j)) = 3 /\ Cardinality(OpsOf(j)) = 3
    BY <1>3, ThreeCounts DEF Thirds
  <2>2. ASSUME NEW o \in OpsOf(j)
        PROVE  SumOf(o) = operation[o].amount
    <3> DEFINE parts == {s \in DOMAIN share : s[1] = o}
    <3>1. parts = {<<o, p>> : p \in PeopleOf(j)}
      <4>1. \A p \in PeopleOf(j) : <<o, p>> \in DOMAIN share
        BY <1>3 DEF Thirds
      <4>2. \A s \in DOMAIN share : s = <<s[1], s[2]>> /\ (s[1] = o => s[2] \in PeopleOf(j))
        BY <1>3 DEF Thirds, TypeInv, ScriptInv, RowsInv, TablesOK
      <4> QED
        BY <4>1, <4>2
    <3> PICK a, b, c : a # b /\ a # c /\ b # c /\ PeopleOf(j) = {a, b, c}
      BY <1>3 DEF Thirds, Three
    <3>2. parts = {<<o, a>>, <<o, b>>, <<o, c>>}
      BY <3>1
    <3>3. Three(parts)
      BY <3>2 DEF Three
    <3> DEFINE n == share[<<o, a>>]
    <3>4. \A p \in PeopleOf(j) : share[<<o, p>>] \in Nat /\ operation[o].amount = 3 * share[<<o, p>>]
      BY <1>3 DEF Thirds
    <3>5. n \in Nat /\ operation[o].amount = 3 * n
      BY <3>4
    <3>6. \A p \in PeopleOf(j) : share[<<o, p>>] = n
      BY <3>4, <3>5
    <3>7. \A s \in parts : share[s] = n
      BY <3>1, <3>6
    <3> HIDE DEF parts, n
    <3>8. Sum(share, parts) = 3 * n
      BY <3>3, <3>5, <3>7, ThreeSum
    <3> QED
      BY <3>5, <3>8 DEF SumOf, Sum, parts
  <2> QED
    BY <1>3, <2>1, <2>2 DEF Thirds
<1> QED
  BY <1>1, <1>2, <1>3

\* The script gives projects and alerts to its own users only.
LEMMA ScriptOwners ==
    ASSUME EmailsApart, TypeInv, ScriptStep
    PROVE  /\ \A e \in Emails : e \in DOMAIN account' <=> e \in DOMAIN account
           /\ \A e \in Emails : AlertsOf(e)' = AlertsOf(e) /\ DemoOf(e)' = DemoOf(e)
<1> USE DEF TypeInv, ScriptInv
<1>1. CASE UNCHANGED <<account, project, alert>>
  BY <1>1 DEF AlertsOf, DemoOf
<1>2. CASE SeedUsers
  <2>1. DOMAIN account' = DOMAIN account \union Owners /\ UNCHANGED <<project, alert>>
    BY <1>2 DEF SeedUsers
  <2> QED
    BY <2>1 DEF EmailsApart, AlertsOf, DemoOf
<1>3. CASE SeedProject
  <2> DEFINE id == Upserted("project", Step.key)
  <2>1. /\ Running /\ Step.do = "project" /\ UNCHANGED <<account, alert>>
        /\ project' = Added(project, Row(id, Step.who))
    BY <1>3 DEF SeedProject, At, Running
  <2>2. Step.who \in Owners
    BY <2>1, CurrentFound
  <2> HIDE DEF id
  <2>3. /\ DOMAIN project \subseteq DOMAIN project'
        /\ \A j \in DOMAIN project : project'[j] = project[j]
        /\ \A j \in DOMAIN project' : j \in DOMAIN project \/ project'[j] = Step.who
    BY <2>1 DEF Added, Row
  <2>4. \A e \in Emails : Step.who # e
    BY <2>2 DEF EmailsApart
  <2> QED
    BY <2>1, <2>3, <2>4 DEF AlertsOf, DemoOf
<1>4. CASE SeedAlert
  <2>1. /\ Running /\ Step.do = "alert" /\ UNCHANGED <<account, project>>
        /\ alert' = Added(alert, Row(Step.key, Step.who))
    BY <1>4 DEF SeedAlert, At, Running
  <2>2. Step.who \in Owners
    BY <2>1, CurrentFound
  <2>3. /\ DOMAIN alert \subseteq DOMAIN alert'
        /\ \A a \in DOMAIN alert : alert'[a] = alert[a]
        /\ \A a \in DOMAIN alert' : a \in DOMAIN alert \/ alert'[a] = Step.who
    BY <2>1 DEF Added, Row
  <2>4. \A e \in Emails : Step.who # e
    BY <2>2 DEF EmailsApart
  <2> QED
    BY <2>1, <2>3, <2>4 DEF AlertsOf, DemoOf
<1> QED
  BY <1>1, <1>2, <1>3, <1>4 DEF ScriptStep, SeedStep, Upsert, Start, Crash, SeedCategories,
     SeedParticipant, SeedLink, SeedOperation, SeedShare, ResetSequences, tables, rows

\* What the expense that gets the id o amounts to.
Amount(r, o) == DemoAmounts[CHOOSE i \in DOMAIN req[r].taken["operation"] :
                               req[r].taken["operation"][i] = o]

\* Of the rows that a commit adds, none has the id of another, and those that were
\* there stay as they are.
Adding(r, email, j, k) ==
    /\ \A t \in Serial : Own(r, t) \intersect Ids[t] = {}
    /\ Own(r, "operation") \intersect DOMAIN operation = {} /\ j \notin DOMAIN project
    /\ DOMAIN account' = DOMAIN account \union {email}
    /\ DOMAIN participant' = (DOMAIN participant) \union Own(r, "participant")
    /\ DOMAIN project' = (DOMAIN project) \union {j}
    /\ \A i \in DOMAIN project : project'[i] = project[i]
    /\ project'[j] = email
    /\ DOMAIN alert' = (DOMAIN alert) \union {k}
    /\ \A a \in DOMAIN alert : alert'[a] = alert[a]
    /\ alert'[k] = email
    /\ linked' = linked \union {<<j, p>> : p \in Own(r, "participant")}
    /\ DOMAIN operation' = (DOMAIN operation) \union Own(r, "operation")
    /\ \A o \in DOMAIN operation : operation'[o] = operation[o]
    /\ \A o \in Own(r, "operation") :
          operation'[o].project = j /\ operation'[o].amount = Amount(r, o)
    /\ DOMAIN share' = (Own(r, "operation") \X Own(r, "participant")) \union DOMAIN share
    /\ \A s \in DOMAIN share : share'[s] = share[s]
    /\ \A s \in Own(r, "operation") \X Own(r, "participant") :
          share'[s] = Amount(r, s[1]) \div 3

LEMMA CommitAdds ==
    ASSUME TypeInv, NEW r \in Requests, Committed(r)
    PROVE  Adding(r, req[r].email, req[r].taken["project"][1], req[r].taken["alert"][1])
<1> USE DEF TypeInv, ScriptInv, RequestInv
<1> PICK email : email = req[r].email
  OBVIOUS
<1> PICK j : j = req[r].taken["project"][1]
  OBVIOUS
<1> PICK k : k = req[r].taken["alert"][1]
  OBVIOUS
<1>0. /\ Open(r)
      /\ DOMAIN participant' = (DOMAIN participant) \union Own(r, "participant")
      /\ DOMAIN project' = (DOMAIN project) \union {j}
      /\ DOMAIN operation' = (DOMAIN operation) \union Own(r, "operation")
      /\ DOMAIN alert' = (DOMAIN alert) \union {k}
  BY CommitIds DEF Committed
<1>1. \A t \in Serial : Own(r, t) \intersect Ids[t] = {}
  BY <1>0 DEF Own, HeldApart
<1>2. /\ j \notin DOMAIN project /\ k \notin DOMAIN alert
      /\ Own(r, "operation") \intersect DOMAIN operation = {}
  <2>1. /\ Own(r, "project") \intersect Ids["project"] = {}
        /\ Own(r, "alert") \intersect Ids["alert"] = {}
        /\ Own(r, "operation") \intersect Ids["operation"] = {}
    BY <1>1 DEF Serial
  <2>2. Own(r, "project") = {j} /\ Own(r, "alert") = {k}
    BY CommitIds
  <2> QED
    BY <2>1, <2>2 DEF Ids
<1>3. DOMAIN account' = DOMAIN account \union {email}
  BY DEF Committed, Commit
<1>4. (\A i \in DOMAIN project : project'[i] = project[i]) /\ project'[j] = email
  <2>1. project' = Added(Row(j, email), project)
    BY DEF Committed, Commit
  <2> QED
    BY <1>2, <2>1 DEF Added, Row
<1>5. (\A a \in DOMAIN alert : alert'[a] = alert[a]) /\ alert'[k] = email
  <2>1. alert' = Added(Row(k, email), alert)
    BY DEF Committed, Commit
  <2> QED
    BY <1>2, <2>1 DEF Added, Row
<1>6. linked' = linked \union {<<j, p>> : p \in Own(r, "participant")}
  <2>1. linked' = linked \union {<<j, req[r].taken["participant"][i]>> :
                                    i \in DOMAIN req[r].taken["participant"]}
    BY DEF Committed, Commit
  <2> QED
    BY <2>1 DEF Own
<1>7. /\ \A o \in DOMAIN operation : operation'[o] = operation[o]
      /\ \A o \in Own(r, "operation") :
            operation'[o].project = j /\ operation'[o].amount = Amount(r, o)
  <2> DEFINE new == [o \in Own(r, "operation") |-> [project |-> j, amount |-> Amount(r, o)]]
  <2>1. operation' = Added(new, operation)
    BY DEF Committed, Commit, Own, Amount
  <2>2. DOMAIN new = Own(r, "operation")
    OBVIOUS
  <2>3. \A o \in Own(r, "operation") : new[o].project = j /\ new[o].amount = Amount(r, o)
    OBVIOUS
  <2> HIDE DEF new
  <2>4. \A o \in Own(r, "operation") : operation'[o] = new[o]
    BY <2>1, <2>2 DEF Added
  <2>5. \A o \in DOMAIN operation : operation'[o] = operation[o]
    BY <1>2, <2>1, <2>2 DEF Added
  <2> QED
    BY <2>3, <2>4, <2>5
<1>8. /\ DOMAIN share' = (Own(r, "operation") \X Own(r, "participant")) \union DOMAIN share
      /\ \A s \in DOMAIN share : share'[s] = share[s]
      /\ \A s \in Own(r, "operation") \X Own(r, "participant") : share'[s] = Amount(r, s[1]) \div 3
  <2> DEFINE D   == Own(r, "operation") \X Own(r, "participant")
             new == [s \in D |-> Amount(r, s[1]) \div 3]
  <2>1. share' = Added(new, share)
    BY DEF Committed, Commit, Own, Sharers, DemoPeople, Amount
  <2>2. DOMAIN new = D /\ \A s \in D : new[s] = Amount(r, s[1]) \div 3
    OBVIOUS
  <2>3. D \intersect DOMAIN share = {}
    BY <1>2 DEF RowsInv, TablesOK
  <2> HIDE DEF new, D
  <2>4. DOMAIN share' = D \union DOMAIN share
    BY <2>1, <2>2, AddedDomain
  <2>5. \A s \in D : share'[s] = new[s]
    BY <2>1, <2>2 DEF Added
  <2>6. \A s \in DOMAIN share : share'[s] = share[s]
    BY <2>1, <2>2, <2>3 DEF Added
  <2> QED
    BY <2>2, <2>4, <2>5, <2>6 DEF D
<1> QED
  BY <1>0, <1>1, <1>2, <1>3, <1>4, <1>5, <1>6, <1>7, <1>8 DEF Adding

\* The demo project of the account that is committed.
LEMMA CommitWhole ==
    ASSUME TypeInv, OpenIsNew, NEW r \in Requests, Committed(r), NEW email, email = req[r].email
    PROVE  WholeFor(email)'
<1> USE DEF TypeInv, ScriptInv, RequestInv
<1> PICK j : j = req[r].taken["project"][1]
  OBVIOUS
<1> PICK k : k = req[r].taken["alert"][1]
  OBVIOUS
<1>e. Adding(r, email, j, k)
  BY CommitAdds
<1>0. email \notin DOMAIN account
  BY DEF Committed, OpenIsNew
<1>a. /\ \A i \in DOMAIN project : project[i] # email
      /\ \A a \in DOMAIN alert : alert[a] # email
      /\ \A o \in DOMAIN operation : operation[o].project \in DOMAIN project
      /\ linked \subseteq (DOMAIN project) \X (DOMAIN participant)
      /\ DOMAIN share \subseteq (DOMAIN operation) \X (DOMAIN participant)
  BY <1>0 DEF RowsInv, TablesOK
<1>b. /\ DOMAIN participant' = (DOMAIN participant) \union Own(r, "participant")
      /\ DOMAIN project' = (DOMAIN project) \union {j}
      /\ DOMAIN operation' = (DOMAIN operation) \union Own(r, "operation")
      /\ DOMAIN alert' = (DOMAIN alert) \union {k}
  BY CommitIds
<1>c. /\ Own(r, "operation") \intersect DOMAIN operation = {} /\ j \notin DOMAIN project
  BY <1>e DEF Adding
<1>1. \E a : AlertsOf(email)' = {a}
  <2>1. \A a \in DOMAIN alert' : alert'[a] = email <=> a = k
    BY <1>a, <1>b, <1>e DEF Adding
  <2> QED
    BY <1>b, <2>1 DEF AlertsOf
<1>2. DemoOf(email)' = {j}
  <2>1. \A i \in DOMAIN project' : project'[i] = email <=> i = j
    BY <1>a, <1>b, <1>e DEF Adding
  <2> QED
    BY <1>b, <2>1 DEF DemoOf
<1>3. PeopleOf(j)' = Own(r, "participant")
  <2>1. linked' = linked \union {<<j, p>> : p \in Own(r, "participant")}
    BY <1>e DEF Adding
  <2>2. \A p : <<j, p>> \in linked' <=> p \in Own(r, "participant")
    BY <1>a, <1>c, <2>1
  <2> QED
    BY <1>b, <2>2 DEF PeopleOf
<1>4. OpsOf(j)' = Own(r, "operation")
  <2>1. \A o \in Own(r, "operation") : operation'[o].project = j
    BY <1>e DEF Adding
  <2>2. \A o \in DOMAIN operation : operation'[o].project # j
    BY <1>a, <1>c, <1>e DEF Adding
  <2> QED
    BY <1>b, <2>1, <2>2 DEF OpsOf
<1>5. Three(Own(r, "participant")) /\ Three(Own(r, "operation"))
  <2>1. DemoRows("participant") = 3 /\ DemoRows("operation") = 3
    BY DemoRowsAre
  <2>2. Numbers(req[r].taken["participant"], 3) /\ Numbers(req[r].taken["operation"], 3)
    BY <2>1, CommitIds DEF Serial
  <2> QED
    BY <2>2, ThreeNumbers DEF Own
<1>6. ASSUME NEW o \in Own(r, "operation")
      PROVE  /\ \A p \in Own(r, "participant") : /\ <<o, p>> \in DOMAIN share'
                                                 /\ share'[<<o, p>>] \in Nat
                                                 /\ operation'[o].amount = 3 * share'[<<o, p>>]
             /\ \A s \in DOMAIN share' : s[1] = o => s[2] \in Own(r, "participant")
  <2> DEFINE n == Amount(r, o)
  <2>1. n \in {180, 90, 45}
    <3>1. DemoRows("operation") = 3
      BY DemoRowsAre
    <3> DEFINE ops == req[r].taken["operation"]
               i   == CHOOSE x \in DOMAIN ops : ops[x] = o
    <3>2. DOMAIN ops = 1..3
      BY <3>1, CommitIds DEF Serial, Numbers
    <3>3. i \in DOMAIN ops
      BY DEF Own
    <3>4. n = DemoAmounts[i]
      BY DEF Amount
    <3> HIDE DEF i, n, ops
    <3> QED
      BY <3>2, <3>3, <3>4 DEF DemoAmounts
  <2>2. operation'[o].amount = n
    BY <1>e DEF Adding
  <2>3. ASSUME NEW p \in Own(r, "participant")
        PROVE  <<o, p>> \in DOMAIN share' /\ share'[<<o, p>>] = n \div 3
    <3>1. <<o, p>> \in Own(r, "operation") \X Own(r, "participant") /\ <<o, p>>[1] = o
      OBVIOUS
    <3> QED
      BY <3>1, <1>e DEF Adding
  <2>4. \A s \in DOMAIN share' : s[1] = o => s[2] \in Own(r, "participant")
    <3>1. DOMAIN share' = (Own(r, "operation") \X Own(r, "participant")) \union DOMAIN share
      BY <1>e DEF Adding
    <3> QED
      BY <1>a, <1>c, <3>1
  <2> HIDE DEF n
  <2>5. n \div 3 \in Nat /\ n = 3 * (n \div 3)
    BY <2>1
  <2> QED
    BY <2>2, <2>3, <2>4, <2>5
<1>7. Thirds(j)'
  BY <1>3, <1>4, <1>5, <1>6 DEF Thirds
<1> QED
  BY <1>0, <1>1, <1>2, <1>7 DEF WholeFor

\* And that of every other account is left alone.
LEMMA CommitSpares ==
    ASSUME TypeInv, NEW r \in Requests, Committed(r), NEW e, e # req[r].email, WholeFor(e),
           order' # "mixed" => order # "mixed"
    PROVE  WholeFor(e)'
<1> USE DEF TypeInv, ScriptInv, RequestInv
<1> PICK j : j = req[r].taken["project"][1]
  OBVIOUS
<1> PICK k : k = req[r].taken["alert"][1]
  OBVIOUS
<1>e. Adding(r, req[r].email, j, k)
  BY CommitAdds
<1>a. /\ \A o \in DOMAIN operation : operation[o].project \in DOMAIN project
      /\ linked \subseteq (DOMAIN project) \X (DOMAIN participant)
      /\ DOMAIN share \subseteq (DOMAIN operation) \X (DOMAIN participant)
  BY DEF RowsInv, TablesOK
<1>b. /\ DOMAIN participant' = (DOMAIN participant) \union Own(r, "participant")
      /\ DOMAIN project' = (DOMAIN project) \union {j}
      /\ DOMAIN operation' = (DOMAIN operation) \union Own(r, "operation")
      /\ DOMAIN alert' = (DOMAIN alert) \union {k}
  BY CommitIds
<1>c. Own(r, "operation") \intersect DOMAIN operation = {} /\ j \notin DOMAIN project
  BY <1>e DEF Adding
<1>1. AlertsOf(e)' = AlertsOf(e)
  <2>1. \A a \in DOMAIN alert' : alert'[a] = e <=> a \in DOMAIN alert /\ alert[a] = e
    BY <1>b, <1>e DEF Adding
  <2> QED
    BY <1>b, <2>1 DEF AlertsOf
<1>2. DemoOf(e)' = DemoOf(e)
  <2>1. \A i \in DOMAIN project' : project'[i] = e <=> i \in DOMAIN project /\ project[i] = e
    BY <1>b, <1>e DEF Adding
  <2> QED
    BY <1>b, <2>1 DEF DemoOf
<1> PICK i : DemoOf(e) = {i} /\ (order # "mixed" => Thirds(i))
  BY DEF WholeFor
<1>3. i \in DOMAIN project /\ i # j
  BY <1>c DEF DemoOf
<1>4. PeopleOf(i)' = PeopleOf(i)
  <2>1. linked' = linked \union {<<j, p>> : p \in Own(r, "participant")}
    BY <1>e DEF Adding
  <2>2. \A p : <<i, p>> \in linked' <=> <<i, p>> \in linked
    BY <1>3, <2>1
  <2> QED
    BY <1>a, <1>b, <2>2 DEF PeopleOf
<1>5. OpsOf(i)' = OpsOf(i)
  <2>1. \A o \in Own(r, "operation") : operation'[o].project = j
    BY <1>e DEF Adding
  <2>2. \A o \in DOMAIN operation : operation'[o] = operation[o]
    BY <1>e DEF Adding
  <2> QED
    BY <1>3, <1>b, <2>1, <2>2 DEF OpsOf
<1>6. ASSUME Thirds(i) PROVE Thirds(i)'
  <2>1. ASSUME NEW o \in OpsOf(i)
        PROVE  /\ \A p \in PeopleOf(i) : /\ <<o, p>> \in DOMAIN share'
                                         /\ share'[<<o, p>>] \in Nat
                                         /\ operation'[o].amount = 3 * share'[<<o, p>>]
               /\ \A s \in DOMAIN share' : s[1] = o => s[2] \in PeopleOf(i)
    <3>1. /\ DOMAIN share' = (Own(r, "operation") \X Own(r, "participant")) \union DOMAIN share
          /\ \A s \in DOMAIN share : share'[s] = share[s]
          /\ o \in DOMAIN operation /\ operation'[o] = operation[o]
      BY <1>e DEF OpsOf, Adding
    <3>2. o \notin Own(r, "operation")
      BY <1>c, <3>1
    <3>3. \A s \in DOMAIN share' : s[1] = o => s \in DOMAIN share
      BY <3>1, <3>2
    <3>4. \A p \in PeopleOf(i) : /\ <<o, p>> \in DOMAIN share
                                 /\ share[<<o, p>>] \in Nat
                                 /\ operation[o].amount = 3 * share[<<o, p>>]
      BY <1>6 DEF Thirds
    <3> QED
      BY <1>6, <3>1, <3>3, <3>4 DEF Thirds
  <2> QED
    BY <1>4, <1>5, <1>6, <2>1 DEF Thirds
<1> QED
  BY <1>1, <1>2, <1>6 DEF WholeFor

LEMMA OpenIsNewKeeps ==
    ASSUME EmailsApart, TypeInv, OpenIsNew, [Next]_vars
    PROVE  OpenIsNew'
<1> USE DEF TypeInv, WinnerInv
<1>0. \A r \in Requests : Open(r) => req[r].email \in Emails
  BY DEF Shape, Served, Open, InTransaction, Idle
<1>i. \A r \in Requests : req'[r] = Idle => ~Open(r)'
  BY DEF Idle, Open, InTransaction
<1>1. CASE UNCHANGED <<req, account>>
  BY <1>1 DEF OpenIsNew, Open
<1>2. CASE ScriptStep
  <2>1. UNCHANGED req
    BY <1>2 DEF ScriptStep, accountVars
  <2> QED
    BY <1>0, <1>2, <2>1, ScriptOwners DEF OpenIsNew, Open
<1>3. ASSUME NEW r \in Requests, Ends(r) PROVE OpenIsNew'
  BY <1>3, <1>i DEF Ends, Others, OpenIsNew, Open
<1>4. ASSUME NEW r \in Requests, Moves(r) PROVE OpenIsNew'
  BY <1>4 DEF Moves, Others, OpenIsNew, Open
<1>5. ASSUME NEW r \in Requests, Claims(r) PROVE OpenIsNew'
  BY <1>5 DEF Claims, Others, OpenIsNew, Open
<1>6. ASSUME NEW r \in Requests, Answers(r) PROVE OpenIsNew'
  BY <1>6, <1>i DEF Answers, Others, OpenIsNew, Open
\* The only one to have written the email is through.
<1>7. ASSUME NEW r \in Requests, AccountStep(r), Committed(r) PROVE OpenIsNew'
  <2>1. /\ Others(r) /\ Open(r) /\ ~Open(r)'
        /\ DOMAIN account' = DOMAIN account \union {req[r].email}
    BY <1>7 DEF Committed, Registering, Commit
  <2> SUFFICES ASSUME NEW q \in Requests, Open(q)'
               PROVE  req'[q].email \notin DOMAIN account'
    BY DEF OpenIsNew
  <2>2. q # r /\ Open(q) /\ req'[q] = req[q]
    BY <2>1 DEF Others, Open
  <2> QED
    BY <2>1, <2>2 DEF OpenIsNew, Alone
<1>8. ASSUME NEW r \in Requests, AccountStep(r), ~Committed(r) PROVE UNCHANGED account
  <2>1. sequence \in [Serial -> Nat]
    BY DEF ScriptInv, RowsInv, TablesOK
  <2> QED
    BY <1>8, <2>1, RequestSteps DEF RequestInv, Rests, Inserts, Refused, tables, rows
<1>9. ASSUME NEW r \in Requests, AccountStep(r) PROVE OpenIsNew'
  <2>1. CASE Committed(r)
    BY <1>7, <1>9, <2>1
  <2>2. CASE ~Committed(r)
    <3>1. UNCHANGED account
      BY <1>8, <1>9, <2>2
    <3>2. ASSUME NEW q \in Requests, Commits(q) PROVE OpenIsNew'
      <4>1. ~Open(q)' /\ Others(q)
        BY <3>2 DEF Commits
      <4> QED
        BY <3>1, <4>1 DEF Others, OpenIsNew, Open
    <3>3. ASSUME Seeds PROVE OpenIsNew'
      BY <1>1, <3>1, <3>3 DEF Seeds
    <3> QED
      BY <1>3, <1>4, <1>5, <1>6, <3>2, <3>3, AccountSteps
  <2> QED
    BY <2>1, <2>2
<1>10. CASE UNCHANGED vars
  BY <1>1, <1>10 DEF vars, tables, rows, accountVars
<1> QED
  BY <1>2, <1>9, <1>10 DEF Next

\* Once it is mixed, the history stays mixed.
LEMMA MixedStays ==
    ASSUME TypeInv, [Next]_vars
    PROVE  order' # "mixed" => order # "mixed"
<1>1. CASE UNCHANGED vars
  BY <1>1 DEF vars
<1> QED
  BY <1>1 DEF Next, ScriptStep, Follows, TypeInv, Orders

LEMMA WholeNext ==
    ASSUME EmailsApart, TypeInv, FreshInv, WholeInv, [Next]_vars
    PROVE  WholeInv'
<1> USE DEF WholeInv
<1>0. OpenIsNew' /\ (order' # "mixed" => order # "mixed")
  BY OpenIsNewKeeps, MixedStays
\* A step that leaves the rows alone.
<1>a. ASSUME UNCHANGED rows, order' = "seeding" => order = "seeding" PROVE WholeInv'
  <2>1. Registered' = Registered
    BY <1>a DEF Registered, rows
  <2>2. ASSUME NEW e \in Registered PROVE WholeFor(e)'
    <3>1. AlertsOf(e)' = AlertsOf(e) /\ DemoOf(e)' = DemoOf(e)
      BY <1>a DEF rows, AlertsOf, DemoOf
    <3>2. PICK j : DemoOf(e) = {j} /\ (order # "mixed" => Thirds(j))
      BY DEF WholeFor
    <3>3. Thirds(j)' <=> Thirds(j)
      BY <1>a DEF rows, Thirds, PeopleOf, OpsOf
    <3> QED
      BY <1>0, <3>1, <3>2, <3>3 DEF WholeFor
  <2> QED
    BY <1>0, <1>a, <2>1, <2>2
<1>1. CASE UNCHANGED vars
  BY <1>1, <1>a DEF vars, tables
<1>2. CASE ScriptStep
  <2>1. order' = IF order = "open" THEN "mixed" ELSE order
    BY <1>2 DEF ScriptStep
  <2>2. order' = "seeding" \/ order' = "mixed"
    BY <2>1 DEF TypeInv, Orders
  <2>3. Registered' = Registered
    BY <1>2, ScriptOwners DEF Registered
  <2>4. ASSUME NEW e \in Registered PROVE WholeFor(e)'
    <3>1. AlertsOf(e)' = AlertsOf(e) /\ DemoOf(e)' = DemoOf(e)
      BY <1>2, ScriptOwners DEF Registered
    <3>2. order' = "mixed"
      BY <2>1, <2>2, <2>4
    <3> QED
      BY <3>1, <3>2 DEF WholeFor
  <2> QED
    BY <1>0, <2>1, <2>3, <2>4
<1>3. ASSUME NEW r \in Requests, AccountStep(r), Follows PROVE WholeInv'
  <2>1. order' = "seeding" => order = "seeding"
    BY <1>3 DEF Follows
  <2>2. CASE Committed(r)
    <3>1. order # "seeding"
      BY <2>2, CommitIds DEF FreshInv, Untouched, Committed, TypeInv, RequestInv
    <3>2. DOMAIN account' = DOMAIN account \union {req[r].email}
      BY <2>2 DEF Committed, Commit
    <3>3. ASSUME NEW e \in Registered' PROVE WholeFor(e)'
      <4>1. CASE e = req[r].email
        BY <2>2, <4>1, CommitWhole
      <4>2. CASE e # req[r].email
        <5>1. e \in Registered
          BY <3>2, <3>3, <4>2 DEF Registered
        <5> QED
          BY <1>0, <2>2, <4>2, <5>1, CommitSpares
      <4> QED
        BY <4>1, <4>2
    <3> QED
      BY <1>0, <2>1, <3>1, <3>3
  <2>3. CASE ~Committed(r)
    <3>1. sequence \in [Serial -> Nat]
      BY DEF TypeInv, ScriptInv, RowsInv, TablesOK
    <3>2. UNCHANGED rows
      BY <1>3, <2>3, <3>1, RequestSteps DEF TypeInv, RequestInv, Rests, Inserts, Refused, tables
    <3> QED
      BY <1>a, <2>1, <3>2
  <2> QED
    BY <2>2, <2>3
<1> QED
  BY <1>1, <1>2, <1>3 DEF Next

\* An account comes with the whole of its demo project or not at all, however many
\* register at once, wherever a request fails, and whatever the script does; when
\* the script came first, the three of each demo project bear each expense equally,
\* to the last cent.  The hypothesis leaves out the users of the script itself, whose
\* projects are those of the script.
THEOREM AccountsAreWhole ==
    ASSUME EmailsApart
    PROVE  Spec => []AccountIsWhole
<1> DEFINE Inv == TypeInv /\ FreshInv /\ WholeInv
<1>1. Init => Inv
  <2> SUFFICES ASSUME Init PROVE Inv
    OBVIOUS
  <2>1. Registered = {}
    BY DEF Init, TablesInit, Registered, Empty
  <2>2. OpenIsNew
    BY DEF Init, AccountsInit, OpenIsNew, Idle, Open, InTransaction
  <2> QED
    BY <2>1, <2>2, TypeInit, FreshInit DEF WholeInv
<1>2. Inv /\ [Next]_vars => Inv'
  BY TypeNext, FreshNext, WholeNext
<1>3. Inv => AccountIsWhole
  BY WholeIsWhole
<1> QED
  BY <1>1, <1>2, <1>3, PTL DEF Spec
=============================================================================
