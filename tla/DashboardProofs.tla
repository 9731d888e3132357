-------------------------- MODULE DashboardProofs --------------------------
(***************************************************************************)
(* What a client that scrolls to the end of the dashboard has seen, for    *)
(* pages of any length, any number of projects and whatever is written     *)
(* meanwhile.                                                              *)
(***************************************************************************)
EXTENDS Dashboard, FiniteSetTheorems, TLAPS

-----------------------------------------------------------------------------
(* The list: what orderBy gives is the one sequence that is sorted. *)

\* No two projects of S have the same date.
Keyed(S) == /\ IsFiniteSet(S)
            /\ \A p \in S : updatedAt[p] \in Int
            /\ \A p, q \in S : updatedAt[p] = updatedAt[q] => p = q

Sorted(s, S) ==
    /\ s \in Seq(S)
    /\ \A p \in S : \E i \in DOMAIN s : s[i] = p
    /\ \A i, k \in DOMAIN s : i < k => updatedAt[s[i]] > updatedAt[s[k]]

LEMMA BeforeCounts ==
    ASSUME NEW S, Keyed(S), NEW p \in S
    PROVE  /\ Before(S, p) \in Nat /\ Cardinality(S) \in Nat /\ Before(S, p) < Cardinality(S)
           /\ \A q \in S : updatedAt[p] > updatedAt[q] => Before(S, p) < Before(S, q)
<1> DEFINE B(q) == {x \in S : updatedAt[x] > updatedAt[q]}
<1>1. ASSUME NEW T \in SUBSET S, NEW U \in SUBSET T, U # T
      PROVE  Cardinality(U) \in Nat /\ Cardinality(T) \in Nat /\ Cardinality(U) < Cardinality(T)
  <2>1. IsFiniteSet(T) /\ IsFiniteSet(U)
    BY FS_Subset DEF Keyed
  <2>2. Cardinality(U) \in Nat /\ Cardinality(T) \in Nat
    BY <2>1, FS_CardinalityType
  <2>3. Cardinality(U) <= Cardinality(T) /\ (Cardinality(T) = Cardinality(U) => T = U)
    BY <1>1, <2>1, FS_Subset
  <2> QED
    BY <1>1, <2>2, <2>3
<1>2. p \notin B(p) /\ B(p) \in SUBSET S
  BY DEF Keyed
<1>3. Cardinality(B(p)) \in Nat /\ Cardinality(S) \in Nat /\ Cardinality(B(p)) < Cardinality(S)
  BY <1>1, <1>2
<1>4. ASSUME NEW q \in S, updatedAt[p] > updatedAt[q]
      PROVE  Cardinality(B(p)) < Cardinality(B(q))
  <2>1. B(q) \in SUBSET S /\ B(p) \in SUBSET B(q) /\ p \in B(q)
    BY <1>4 DEF Keyed
  <2> HIDE DEF B
  <2> QED
    BY <1>1, <1>2, <2>1
<1> QED
  BY <1>3, <1>4 DEF Before

LEMMA BeforeDiffers ==
    ASSUME NEW S, Keyed(S), NEW p \in S, NEW q \in S, Before(S, p) = Before(S, q)
    PROVE  p = q
<1>1. /\ updatedAt[p] > updatedAt[q] => Before(S, p) < Before(S, q)
      /\ updatedAt[q] > updatedAt[p] => Before(S, q) < Before(S, p)
      /\ Before(S, p) \in Nat
  BY BeforeCounts
<1>2. updatedAt[p] \in Int /\ updatedAt[q] \in Int
  BY DEF Keyed
<1>3. updatedAt[p] = updatedAt[q]
  BY <1>1, <1>2
<1> QED
  BY <1>3 DEF Keyed

\* Every place is somebody's.
LEMMA PlacesAreTaken ==
    ASSUME NEW S, Keyed(S), NEW i \in 1..Cardinality(S)
    PROVE  \E p \in S : Before(S, p) = i - 1
<1> SUFFICES ASSUME \A p \in S : Before(S, p) # i - 1
             PROVE  FALSE
  OBVIOUS
<1> DEFINE n == Cardinality(S)
           T == (1..n) \ {i}
           f == [p \in S |-> Before(S, p) + 1]
<1>1. IsFiniteSet(S) /\ n \in Nat
  BY FS_CardinalityType DEF Keyed
<1>2. IsFiniteSet(1..n) /\ Cardinality(1..n) = n
  BY <1>1, FS_Interval
<1>3. IsFiniteSet(T) /\ Cardinality(T) < Cardinality(S)
  <2>1. IsFiniteSet(T) /\ Cardinality(T) = Cardinality(1..n) - 1
    BY <1>2, FS_RemoveElement
  <2> QED
    BY <1>1, <1>2, <2>1
<1>4. f \in [S -> T]
  <2> SUFFICES ASSUME NEW p \in S
               PROVE  Before(S, p) + 1 \in T
    OBVIOUS
  <2>1. Before(S, p) \in Nat /\ Before(S, p) < n /\ Before(S, p) # i - 1
    BY BeforeCounts
  <2> QED
    BY <1>1, <2>1
<1>5. PICK p \in S, q \in S : p # q /\ f[p] = f[q]
  <2> HIDE DEF f, T, n
  <2> QED
    BY <1>1, <1>3, <1>4, FS_PigeonHole
<1>6. Before(S, p) \in Nat /\ Before(S, q) \in Nat /\ Before(S, p) + 1 = Before(S, q) + 1
  BY <1>5, BeforeCounts
<1> QED
  BY <1>5, <1>6, BeforeDiffers

LEMMA OrderedPlaces ==
    ASSUME NEW S, Keyed(S), NEW i \in 1..Cardinality(S)
    PROVE  Ordered(S)[i] \in S /\ Before(S, Ordered(S)[i]) = i - 1
BY PlacesAreTaken DEF Ordered

LEMMA OrderedSorted ==
    ASSUME NEW S, Keyed(S)
    PROVE  Sorted(Ordered(S), S) /\ Len(Ordered(S)) = Cardinality(S)
<1>1. Cardinality(S) \in Nat
  BY FS_CardinalityType DEF Keyed
<1>2. Ordered(S) \in Seq(S) /\ Len(Ordered(S)) = Cardinality(S) /\ DOMAIN Ordered(S) = 1..Cardinality(S)
  <2>1. /\ Ordered(S) = [i \in 1..Cardinality(S) |-> Ordered(S)[i]]
        /\ \A i \in 1..Cardinality(S) : Ordered(S)[i] \in S
    BY OrderedPlaces DEF Ordered
  <2> QED
    BY <1>1, <2>1
<1>3. ASSUME NEW p \in S
      PROVE  \E i \in DOMAIN Ordered(S) : Ordered(S)[i] = p
  <2>1. Before(S, p) \in Nat /\ Before(S, p) < Cardinality(S)
    BY BeforeCounts
  <2>2. PICK i \in 1..Cardinality(S) : Before(S, p) = i - 1
    BY <1>1, <2>1
  <2>3. Ordered(S)[i] \in S /\ Before(S, Ordered(S)[i]) = Before(S, p)
    BY <2>2, OrderedPlaces
  <2>4. Ordered(S)[i] = p
    BY <2>3, BeforeDiffers
  <2> QED
    BY <1>2, <2>4
<1>4. ASSUME NEW i \in DOMAIN Ordered(S), NEW k \in DOMAIN Ordered(S), i < k
      PROVE  updatedAt[Ordered(S)[i]] > updatedAt[Ordered(S)[k]]
  <2> DEFINE p == Ordered(S)[i]
             q == Ordered(S)[k]
  <2>1. p \in S /\ q \in S /\ Before(S, p) < Before(S, q)
    BY <1>1, <1>2, <1>4, OrderedPlaces
  <2> HIDE DEF p, q
  <2>2. /\ updatedAt[p] \in Int /\ updatedAt[q] \in Int
        /\ Before(S, p) \in Nat /\ Before(S, q) \in Nat
        /\ updatedAt[q] > updatedAt[p] => Before(S, q) < Before(S, p)
    BY <2>1, BeforeCounts DEF Keyed
  <2>3. p # q
    BY <2>1, <2>2
  <2>4. updatedAt[p] # updatedAt[q]
    BY <2>1, <2>3 DEF Keyed
  <2>5. updatedAt[p] > updatedAt[q]
    BY <2>1, <2>2, <2>4
  <2> QED
    BY <2>5 DEF p, q
<1> QED
  BY <1>2, <1>3, <1>4 DEF Sorted

\* A sorted list of S is the list.
LEMMA SortedIsOrdered ==
    ASSUME NEW S, Keyed(S), NEW s, Sorted(s, S)
    PROVE  s = Ordered(S) /\ Len(s) = Cardinality(S)
<1> DEFINE n == Len(s)
<1>1. n \in Nat /\ DOMAIN s = 1..n /\ s = [i \in 1..n |-> s[i]] /\ \A i \in 1..n : s[i] \in S
  BY DEF Sorted
<1>2. ASSUME NEW i \in 1..n, NEW k \in 1..n, s[i] = s[k]
      PROVE  i = k
  <2>1. updatedAt[s[i]] \in Int
    BY <1>1 DEF Keyed
  <2>2. ~(i < k) /\ ~(k < i)
    BY <1>1, <1>2, <2>1 DEF Sorted
  <2> QED
    BY <1>1, <2>2
<1>3. ASSUME NEW m \in 0..n
      PROVE  Cardinality({s[i] : i \in 1..m}) = m
  <2> DEFINE f == [i \in 1..m |-> s[i]]
             T == {s[i] : i \in 1..m}
  <2>1. f \in Bijection(1..m, T)
    BY <1>1, <1>2 DEF Bijection, Injection, Surjection, IsInjective
  <2> HIDE DEF f, T
  <2>2. ExistsBijection(1..m, T) /\ m \in Nat
    BY <1>1, <2>1 DEF ExistsBijection
  <2>3. Cardinality(T) = m
    BY <2>2, FS_CountingElements
  <2> QED
    BY <2>3 DEF T
<1>4. Cardinality(S) = n
  <2>1. S = {s[i] : i \in 1..n}
    BY <1>1 DEF Sorted
  <2> QED
    BY <1>1, <1>3, <2>1
<1>5. ASSUME NEW i \in 1..n
      PROVE  Before(S, s[i]) = i - 1
  <2>1. {q \in S : updatedAt[q] > updatedAt[s[i]]} = {s[k] : k \in 1..(i - 1)}
    <3>1. ASSUME NEW k \in 1..n
          PROVE  updatedAt[s[k]] > updatedAt[s[i]] <=> k < i
      <4>1. updatedAt[s[i]] \in Int /\ updatedAt[s[k]] \in Int
        BY <1>1 DEF Keyed
      <4>2. k < i => updatedAt[s[k]] > updatedAt[s[i]]
        BY <1>1 DEF Sorted
      <4>3. i < k => updatedAt[s[i]] > updatedAt[s[k]]
        BY <1>1 DEF Sorted
      <4>4. i < k \/ k < i \/ k = i
        BY <1>1
      <4> QED
        BY <4>1, <4>2, <4>3, <4>4
    <3>2. \A q \in S : \E k \in 1..n : s[k] = q
      BY <1>1 DEF Sorted
    <3> QED
      BY <1>1, <3>1, <3>2
  <2>2. i - 1 \in 0..n
    BY <1>1
  <2> QED
    BY <1>3, <2>1, <2>2 DEF Before
<1>6. ASSUME NEW i \in 1..n
      PROVE  s[i] = Ordered(S)[i]
  <2>1. Ordered(S)[i] \in S /\ Before(S, Ordered(S)[i]) = i - 1
    BY <1>4, OrderedPlaces
  <2> QED
    BY <1>1, <1>5, <2>1, BeforeDiffers
<1>7. Ordered(S) = [i \in 1..n |-> Ordered(S)[i]]
  BY <1>4 DEF Ordered
<1> QED
  BY <1>1, <1>4, <1>6, <1>7

\* What comes after a project is the rest of the list.
LEMMA RestOfTheList ==
    ASSUME NEW S, Keyed(S), NEW k \in 1..Cardinality(S),
           NEW T, T = {p \in S : updatedAt[p] < updatedAt[Ordered(S)[k]]}
    PROVE  /\ Ordered(T) = [i \in 1..(Cardinality(S) - k) |-> Ordered(S)[k + i]]
           /\ Cardinality(T) = Cardinality(S) - k
<1> DEFINE L == Ordered(S)
           n == Cardinality(S)
           rest == [i \in 1..(n - k) |-> L[k + i]]
<1>1. Sorted(L, S) /\ Len(L) = n /\ n \in Nat
  BY OrderedSorted, FS_CardinalityType DEF Keyed
<1>2. L \in Seq(S) /\ DOMAIN L = 1..n /\ \A i \in 1..n : L[i] \in S /\ updatedAt[L[i]] \in Int
  BY <1>1 DEF Sorted, Keyed
<1>3. Keyed(T)
  <2>1. IsFiniteSet(T)
    BY FS_Subset DEF Keyed
  <2> QED
    BY <2>1 DEF Keyed
<1>4. ASSUME NEW i \in 1..n
      PROVE  L[i] \in T <=> i > k
  <2>1. (i < k => updatedAt[L[i]] > updatedAt[L[k]]) /\ (k < i => updatedAt[L[k]] > updatedAt[L[i]])
    BY <1>1, <1>2 DEF Sorted
  <2>2. i < k \/ i = k \/ k < i
    BY <1>1
  <2>3. L[i] \in T <=> updatedAt[L[i]] < updatedAt[L[k]]
    BY <1>2
  <2>4. updatedAt[L[i]] \in Int /\ updatedAt[L[k]] \in Int
    BY <1>2
  <2> HIDE DEF L, n
  <2> QED
    BY <2>1, <2>2, <2>3, <2>4, <1>1
<1>5. Sorted(rest, T) /\ Len(rest) = n - k
  <2> HIDE DEF L, n
  <2>1. n - k \in Nat /\ \A i \in 1..(n - k) : k + i \in 1..n /\ k + i > k
    BY <1>1 DEF n
  <2>2. rest \in Seq(T) /\ Len(rest) = n - k /\ DOMAIN rest = 1..(n - k)
    <3>1. \A i \in 1..(n - k) : rest[i] \in T
      BY <1>4, <2>1
    <3> QED
      BY <2>1, <3>1
  <2>3. ASSUME NEW p \in T
        PROVE  \E i \in DOMAIN rest : rest[i] = p
    <3>1. PICK j \in 1..n : L[j] = p
      BY <1>1, <1>2 DEF Sorted
    <3>2. j > k
      BY <1>4, <3>1
    <3>3. j - k \in 1..(n - k) /\ k + (j - k) = j
      BY <1>1, <3>2 DEF n
    <3>4. rest[j - k] = p
      BY <3>1, <3>3
    <3> QED
      BY <2>2, <3>3, <3>4
  <2>4. ASSUME NEW i \in DOMAIN rest, NEW j \in DOMAIN rest, i < j
        PROVE  updatedAt[rest[i]] > updatedAt[rest[j]]
    <3>1. k + i \in 1..n /\ k + j \in 1..n /\ k + i < k + j
      BY <2>1, <2>2, <2>4
    <3>2. updatedAt[L[k + i]] > updatedAt[L[k + j]]
      BY <1>1, <1>2, <3>1 DEF Sorted
    <3> QED
      BY <2>2, <3>2
  <2> QED
    BY <2>2, <2>3, <2>4 DEF Sorted
<1> HIDE DEF rest
<1>6. rest = Ordered(T) /\ Len(rest) = Cardinality(T)
  BY <1>3, <1>5, SortedIsOrdered
<1> QED
  BY <1>5, <1>6 DEF rest

-----------------------------------------------------------------------------
(* The inductive invariant. *)

\* The dates of two projects differ: each comes from its own reading of the clock.
DatesInv ==
    /\ clock \in Nat /\ sequence \in Nat /\ writes \in 0..MaxWrites
    /\ Existing \subseteq 1..sequence
    /\ updatedAt \in [Existing -> 1..clock]
    /\ \A p, q \in Existing : updatedAt[p] = updatedAt[q] => p = q

\* A request that has a date and has not committed.
Dated(w) == writer[w].pc \in {"create", "commit"}

Requests(s, c) == [pc : {"idle", "create", "owner-update", "update", "commit", "owner-delete", "delete"},
                   p : 0..s,
                   stamp : 0..c]

WriterInv ==
    /\ writer \in [Writers -> Requests(sequence, clock)]
    /\ \A w \in Writers : Dated(w) =>
          /\ writer[w].stamp # 0
          /\ \A p \in Existing : updatedAt[p] # writer[w].stamp
          /\ \A v \in Writers : Dated(v) /\ writer[v].stamp = writer[w].stamp => v = w

Rows == ToSet(page.rows)

\* The project a request is creating has an id that nobody has seen.
FreshInv ==
    \A w \in Writers : writer[w].pc = "create" =>
       /\ writer[w].p # 0
       /\ writer[w].p \notin Existing \union Shown \union Rows
       /\ \A v \in Writers : writer[v].pc = "create" /\ writer[v].p = writer[w].p => v = w

\* What the client will add to what it shows.
Coming == Cut(page.rows, Take)

PageInv ==
    /\ page \in [rows : Seq(1..sequence), found : BOOLEAN, total : -1..sequence]
    /\ scroll \in [state : {"new", "asked", "ready", "end"}, cursor : 0..sequence,
                   mark : 0..clock, total : Int, shown : Seq(1..sequence)]
    /\ Len(page.rows) <= Take + 1
    /\ ~page.found => page.rows = <<>>
    /\ page.found => scroll.state = "asked"
    /\ scroll.state = "new" => scroll.cursor = 0 /\ atStart = {} /\ written = {}
    /\ scroll.cursor = 0 => scroll.state # "ready"
    /\ (scroll.cursor = 0 /\ scroll.state # "end") => scroll.shown = <<>>

\* The cursor is in its place, or the loss is recorded: what is not shown and not
\* coming is behind the mark.
UntouchedInv ==
    \A p \in atStart \ written :
       /\ p \in Existing
       /\ ~lost =>
            /\ (~page.found /\ scroll.state # "end" /\ scroll.cursor # 0)
                  => p \in Shown \/ updatedAt[p] < scroll.mark
            /\ page.found => p \in Shown \union ToSet(Coming) \/ (HasMore /\ updatedAt[p] < scroll.mark)
            /\ scroll.state = "end" => p \in Shown

\* What is shown or coming is not behind the mark, unless its date went back.
RepeatsInv ==
    ~rewound =>
       /\ \A p \in Shown \union ToSet(Coming) :
             p \in Existing \ sunk => updatedAt[p] >= scroll.mark
       /\ \A i, k \in DOMAIN page.rows : page.rows[i] = page.rows[k] => i = k
       /\ Shown \cap Rows \subseteq sunk
       /\ \A i, k \in DOMAIN scroll.shown :
             (i # k /\ scroll.shown[i] = scroll.shown[k]) => scroll.shown[i] \in sunk

List == Ordered(Existing)

\* As long as nothing is written, what is shown is the beginning of the list, the
\* cursor is its end, and the rows are what follows.
QuietInv ==
    (written = {} /\ scroll.state # "new") =>
       /\ Len(scroll.shown) <= Len(List)
       /\ \A i \in DOMAIN scroll.shown : scroll.shown[i] = List[i]
       /\ (~page.found /\ scroll.cursor # 0)
             => Len(scroll.shown) > 0 /\ scroll.cursor = List[Len(scroll.shown)]
       /\ page.found =>
             /\ Len(page.rows) = IF Len(List) - Len(scroll.shown) <= Take + 1
                                  THEN Len(List) - Len(scroll.shown) ELSE Take + 1
             /\ \A i \in DOMAIN page.rows : page.rows[i] = List[Len(scroll.shown) + i]
       /\ page.total # -1 => page.total = Len(List)
       /\ scroll.state = "end" => Len(scroll.shown) = Len(List) /\ scroll.total = Len(List)

IInv == DatesInv /\ WriterInv /\ FreshInv /\ PageInv /\ UntouchedInv /\ RepeatsInv /\ QuietInv

LEMMA InitIInv == Init => IInv
<1> SUFFICES ASSUME Init
             PROVE  IInv
  OBVIOUS
<1> USE BoundsAssumption DEF Init
<1>1. DatesInv
  BY DEF DatesInv, Existing
<1>2. WriterInv
  BY DEF WriterInv, Dated, Idle, Requests
<1>3. FreshInv
  BY DEF FreshInv, Idle
<1>4. PageInv
  BY DEF PageInv, NoPage
<1>5. UntouchedInv
  BY DEF UntouchedInv
<1>6. RepeatsInv
  BY DEF RepeatsInv, NoPage, Shown, Rows, Coming, Cut, ToSet
<1>7. QuietInv
  BY DEF QuietInv
<1> QED
  BY <1>1, <1>2, <1>3, <1>4, <1>5, <1>6, <1>7 DEF IInv

-----------------------------------------------------------------------------
(* The requests that write. *)

\* A project has the date it had, or that of the request.
KeepsDate(w, p) ==
    \/ p \in Existing /\ updatedAt'[p] = updatedAt[p]
    \/ Dated(w) /\ updatedAt'[p] = writer[w].stamp

\* A date is given once: a request that takes one takes the next, and a project gets
\* the date of the request that commits.
LEMMA WriterMoves ==
    ASSUME DatesInv, WriterInv, NEW w \in Writers,
           writer'[w] \in Requests(sequence', clock'),
           writer' = [writer EXCEPT ![w] = writer'[w]],
           sequence' \in Nat, sequence <= sequence', clock' \in {clock, clock + 1},
           Dated(w)' => clock' = clock + 1 /\ writer'[w].stamp = clock + 1,
           \A p \in Existing' : KeepsDate(w, p)
    PROVE  WriterInv'
<1>1. clock \in Nat /\ clock' \in Nat /\ clock <= clock' /\ sequence \in Nat
  BY DEF DatesInv
<1>2. \A v \in Writers : v # w => writer'[v] = writer[v]
  BY DEF WriterInv
<1>3. writer' \in [Writers -> Requests(sequence', clock')]
  <2>1. ASSUME NEW x \in Requests(sequence, clock)
        PROVE  x \in Requests(sequence', clock')
    BY <1>1 DEF Requests
  <2>2. \A v \in Writers : writer[v] \in Requests(sequence', clock')
    BY <2>1 DEF WriterInv
  <2> QED
    BY <2>2 DEF WriterInv
<1>4. \A p \in Existing' : updatedAt'[p] \in 1..clock
  <2>1. \A p \in Existing : updatedAt[p] \in 1..clock
    BY DEF DatesInv
  <2>2. Dated(w) => writer[w].stamp \in 1..clock
    BY <1>1 DEF WriterInv, Requests
  <2> QED
    BY <2>1, <2>2 DEF KeepsDate
<1>5. ASSUME NEW v \in Writers, Dated(v)'
      PROVE  /\ writer'[v].stamp # 0
             /\ \A p \in Existing' : updatedAt'[p] # writer'[v].stamp
             /\ \A u \in Writers : Dated(u)' /\ writer'[u].stamp = writer'[v].stamp => u = v
  <2>1. CASE v = w
    <3>1. writer'[v].stamp = clock + 1
      BY <1>2, <1>5, <2>1 DEF Dated
    <3>2. \A u \in Writers : u # w => writer'[u].stamp \in 0..clock
      BY <1>2 DEF WriterInv, Requests
    <3> QED
      BY <1>1, <1>4, <2>1, <3>1, <3>2
  <2>2. CASE v # w
    <3>1. writer'[v] = writer[v] /\ Dated(v)
      BY <1>2, <1>5, <2>2 DEF Dated
    <3>2. writer[v].stamp # 0 /\ writer[v].stamp \in 0..clock
      BY <3>1 DEF WriterInv, Requests
    <3>3. \A p \in Existing' : updatedAt'[p] # writer[v].stamp
      <4>1. \A p \in Existing : updatedAt[p] # writer[v].stamp
        BY <3>1 DEF WriterInv
      <4>2. Dated(w) => writer[w].stamp # writer[v].stamp
        BY <2>2, <3>1 DEF WriterInv
      <4> QED
        BY <4>1, <4>2 DEF KeepsDate
    <3>4. ASSUME NEW u \in Writers, Dated(u)', writer'[u].stamp = writer[v].stamp
          PROVE  u = v
      <4>1. CASE u = w
        <5>1. writer'[u].stamp = clock + 1
          BY <1>2, <3>4, <4>1 DEF Dated
        <5> QED
          BY <1>1, <3>2, <3>4, <5>1
      <4>2. CASE u # w
        <5>1. writer'[u] = writer[u] /\ Dated(u)
          BY <1>2, <3>4, <4>2 DEF Dated
        <5> QED
          BY <3>1, <3>4, <5>1 DEF WriterInv
      <4> QED
        BY <4>1, <4>2
    <3> QED
      BY <3>1, <3>2, <3>3, <3>4
  <2> QED
    BY <2>1, <2>2
<1> QED
  BY <1>3, <1>5 DEF WriterInv

\* The shape of a step of a request that writes.
LEMMA WriterKeepsDates ==
    ASSUME IInv, NEW w \in Writers, WriterStep(w)
    PROVE  DatesInv' /\ WriterInv'
<1> USE DEF IInv
<1>0. ASSUME NEW r, writer' = [writer EXCEPT ![w] = r]
      PROVE  writer'[w] = r /\ writer' = [writer EXCEPT ![w] = writer'[w]]
  BY <1>0 DEF WriterInv
<1>1. /\ clock \in Nat /\ sequence \in Nat /\ writes \in 0..MaxWrites /\ MaxWrites \in Nat
      /\ Existing \subseteq 1..sequence
      /\ \A p \in Existing : updatedAt[p] \in 1..clock
      /\ writer[w].p \in 0..sequence /\ writer[w].stamp \in 0..clock
  BY BoundsAssumption DEF DatesInv, WriterInv, Requests
<1>2. Idle \in Requests(sequence, clock)
  BY <1>1 DEF Idle, Requests
<1>3. ASSUME NEW pc \in {"owner-update", "owner-delete"}, NEW p \in Existing,
             Ask(w, pc, p, 0), UNCHANGED <<updatedAt, sequence, clock>>
      PROVE  DatesInv' /\ WriterInv'
  <2>1. DatesInv'
    BY <1>1, <1>3 DEF DatesInv, Existing, Ask
  <2>2. [pc |-> pc, p |-> p, stamp |-> 0] \in Requests(sequence', clock')
    BY <1>1, <1>3 DEF Requests
  <2>3. WriterInv'
    <3>1. \A q \in Existing' : KeepsDate(w, q)
      BY <1>3 DEF Existing, KeepsDate
    <3>2. writer' = [writer EXCEPT ![w] = [pc |-> pc, p |-> p, stamp |-> 0]]
      BY <1>3 DEF Ask, Go
    <3> QED
      <4>1. /\ writer'[w] = [pc |-> pc, p |-> p, stamp |-> 0]
            /\ writer' = [writer EXCEPT ![w] = writer'[w]] /\ ~Dated(w)'
        BY <3>2, <1>0 DEF Dated
      <4> QED
        BY <1>1, <1>3, <2>2, <3>1, <4>1, WriterMoves
  <2> QED
    BY <2>1, <2>3
<1>4. CASE AskUpdate(w)
  BY <1>3, <1>4 DEF AskUpdate
<1>5. CASE AskDelete(w)
  BY <1>3, <1>5 DEF AskDelete
<1>6. CASE AskCreate(w)
  <2>1. clock' = clock + 1 /\ sequence' = sequence + 1 /\ updatedAt' = updatedAt /\ writes' = writes + 1
        /\ writes < MaxWrites
    BY <1>6 DEF AskCreate, Now, Ask
  <2>2. DatesInv'
    BY <1>1, <2>1 DEF DatesInv, Existing
  <2>3. [pc |-> "create", p |-> sequence + 1, stamp |-> clock + 1] \in Requests(sequence', clock')
    BY <1>1, <2>1 DEF Requests
  <2>4. /\ writer'[w] = [pc |-> "create", p |-> sequence + 1, stamp |-> clock + 1]
        /\ writer' = [writer EXCEPT ![w] = writer'[w]]
    BY <1>6, <1>0 DEF AskCreate, Ask, Go, Now
  <2>5. \A p \in Existing' : KeepsDate(w, p)
    BY <2>1 DEF Existing, KeepsDate
  <2>6. WriterInv'
    BY <1>1, <2>1, <2>3, <2>4, <2>5, WriterMoves
  <2> QED
    BY <2>2, <2>6
<1>7. ASSUME NEW from, NEW to \in {"update", "delete"}, CheckOwner(w, from, to)
      PROVE  DatesInv' /\ WriterInv'
  <2>1. UNCHANGED <<updatedAt, sequence, clock, writes>>
    BY <1>7 DEF CheckOwner
  <2>2. DatesInv'
    BY <1>1, <2>1 DEF DatesInv, Existing
  <2>3. PICK r \in {[pc |-> to, p |-> writer[w].p, stamp |-> 0], Idle} :
           writer' = [writer EXCEPT ![w] = r]
    BY <1>7 DEF CheckOwner, Go, Finish
  <2>4. r \in Requests(sequence', clock') /\ r.pc \notin {"create", "commit"}
    BY <1>1, <1>2, <2>1, <2>3 DEF Idle, Requests
  <2>5. WriterInv'
    <3>1. \A q \in Existing' : KeepsDate(w, q)
      BY <2>1 DEF Existing, KeepsDate
    <3> QED
      <4>1. writer'[w] = r /\ writer' = [writer EXCEPT ![w] = writer'[w]] /\ ~Dated(w)'
        BY <1>0, <2>3, <2>4 DEF Dated
      <4> QED
        BY <1>1, <2>1, <2>4, <3>1, <4>1, WriterMoves
  <2> QED
    BY <2>2, <2>5
<1>8. CASE StartUpdate(w)
  <2>1. clock' = clock + 1 /\ UNCHANGED <<updatedAt, sequence, writes>>
    BY <1>8 DEF StartUpdate, Now
  <2>2. DatesInv'
    BY <1>1, <2>1 DEF DatesInv, Existing
  <2>3. [pc |-> "commit", p |-> writer[w].p, stamp |-> clock + 1] \in Requests(sequence', clock')
    BY <1>1, <2>1 DEF Requests
  <2>4. /\ writer'[w] = [pc |-> "commit", p |-> writer[w].p, stamp |-> clock + 1]
        /\ writer' = [writer EXCEPT ![w] = writer'[w]]
    BY <1>8, <1>0 DEF StartUpdate, Go, Now
  <2>5. \A p \in Existing' : KeepsDate(w, p)
    BY <2>1 DEF Existing, KeepsDate
  <2>6. WriterInv'
    BY <1>1, <2>1, <2>3, <2>4, <2>5, WriterMoves
  <2> QED
    BY <2>2, <2>6
<1>9. ASSUME UNCHANGED <<sequence, clock, writes>>, Finish(w), DatesInv',
             \A p \in Existing' : KeepsDate(w, p)
      PROVE  DatesInv' /\ WriterInv'
  <2>1. Idle \in Requests(sequence', clock') /\ Idle.pc \notin {"create", "commit"}
    BY <1>2, <1>9 DEF Idle
  <2>2. writer'[w] = Idle /\ writer' = [writer EXCEPT ![w] = writer'[w]] /\ ~Dated(w)'
    BY <1>0, <1>9, <2>1 DEF Finish, Dated
  <2> QED
    BY <1>1, <1>9, <2>1, <2>2, WriterMoves
<1>10. CASE CommitCreate(w)
  <2>1. /\ writer[w].pc = "create" /\ Dated(w)
        /\ updatedAt' = [p \in Existing \union {writer[w].p} |->
                           IF p = writer[w].p THEN writer[w].stamp ELSE updatedAt[p]]
        /\ UNCHANGED <<sequence, clock, writes>> /\ Finish(w)
    BY <1>10 DEF CommitCreate, Dated
  <2>2. /\ writer[w].p \in 1..sequence /\ writer[w].p \notin Existing
        /\ writer[w].stamp \in 1..clock /\ \A p \in Existing : updatedAt[p] # writer[w].stamp
    BY <1>1, <2>1 DEF FreshInv, WriterInv
  <2>3. Existing' = Existing \union {writer[w].p}
    BY <2>1 DEF Existing
  <2>4. DatesInv'
    BY <1>1, <2>1, <2>2, <2>3 DEF DatesInv
  <2>5. \A p \in Existing' : KeepsDate(w, p)
    BY <2>1, <2>3 DEF KeepsDate
  <2> QED
    BY <1>9, <2>1, <2>4, <2>5
<1>11. CASE CommitUpdate(w)
  <2>1. writer[w].pc = "commit" /\ Dated(w) /\ UNCHANGED <<sequence, clock, writes>> /\ Finish(w)
    BY <1>11 DEF CommitUpdate, Dated
  <2>2. writer[w].stamp \in 1..clock /\ \A p \in Existing : updatedAt[p] # writer[w].stamp
    BY <1>1, <2>1 DEF WriterInv
  <2>3. CASE UNCHANGED updatedAt
    <3>1. DatesInv'
      BY <1>1, <2>1, <2>3 DEF DatesInv, Existing
    <3>2. \A p \in Existing' : KeepsDate(w, p)
      BY <2>3 DEF Existing, KeepsDate
    <3> QED
      BY <1>9, <2>1, <3>1, <3>2
  <2>4. CASE /\ writer[w].p \in Existing
             /\ updatedAt' = [updatedAt EXCEPT ![writer[w].p] = writer[w].stamp]
    <3>1. Existing' = Existing
      BY <2>4 DEF Existing
    <3>2. \A p \in Existing : updatedAt'[p] = IF p = writer[w].p THEN writer[w].stamp ELSE updatedAt[p]
      BY <2>4 DEF Existing
    <3>3. updatedAt' \in [Existing' -> 1..clock]
      BY <2>2, <2>4, <3>1 DEF DatesInv
    <3>4. DatesInv'
      BY <1>1, <2>1, <2>2, <3>1, <3>2, <3>3 DEF DatesInv
    <3>5. \A p \in Existing' : KeepsDate(w, p)
      BY <2>1, <3>1, <3>2 DEF KeepsDate
    <3> QED
      BY <1>9, <2>1, <3>4, <3>5
  <2> QED
    BY <1>11, <2>3, <2>4 DEF CommitUpdate
<1>12. CASE Delete(w)
  <2>1. UNCHANGED <<sequence, clock, writes>> /\ Finish(w)
    BY <1>12 DEF Delete
  <2>2. PICK S \in SUBSET Existing : updatedAt' = [q \in S |-> updatedAt[q]]
    <3>1. updatedAt = [q \in Existing |-> updatedAt[q]]
      BY DEF DatesInv
    <3> QED
      BY <1>12, <3>1 DEF Delete
  <2>3. Existing' = S /\ \A p \in S : updatedAt'[p] = updatedAt[p]
    BY <2>2 DEF Existing
  <2>4. DatesInv'
    BY <1>1, <2>1, <2>2, <2>3 DEF DatesInv
  <2>5. \A p \in Existing' : KeepsDate(w, p)
    BY <2>3 DEF KeepsDate
  <2> QED
    BY <1>9, <2>1, <2>4, <2>5
<1> QED
  BY <1>4, <1>5, <1>6, <1>7, <1>8, <1>10, <1>11, <1>12 DEF WriterStep

\* The elements of a sequence.
LEMMA ToSetOf ==
    ASSUME NEW S, NEW s \in Seq(S)
    PROVE  /\ ToSet(s) \subseteq S
           /\ \A x : x \in ToSet(s) <=> \E i \in 1..Len(s) : s[i] = x
<1>1. DOMAIN s = 1..Len(s) /\ \A i \in 1..Len(s) : s[i] \in S
  OBVIOUS
<1>2. \A x : x \in ToSet(s) <=> \E i \in DOMAIN s : s[i] = x
  BY DEF ToSet
<1> QED
  BY <1>1, <1>2

\* What the others see of a request that writes: nothing, or one project that changed.
Rewrites(p) ==
    /\ p \in 1..sequence
    /\ written' = IF scroll.state = "new" THEN written ELSE written \union {p}
    /\ \A q \in Existing \ {p} : q \in Existing' /\ updatedAt'[q] = updatedAt[q]
    /\ Existing' \subseteq Existing \union {p}
    /\ \/ p \notin Existing'
       \/ p \in Existing /\ p \in Existing' /\ (updatedAt'[p] >= updatedAt[p] \/ p \in sunk')
       \/ p \notin Shown \union Rows

LEMMA WriterEffects ==
    ASSUME IInv, NEW w \in Writers, WriterStep(w)
    PROVE  /\ UNCHANGED <<page, scroll, atStart, lost, rewound>>
           /\ sunk \subseteq sunk'
           /\ sequence <= sequence' /\ clock <= clock'
           /\ UNCHANGED <<updatedAt, written>> \/ \E p \in Nat : Rewrites(p)
<1> USE DEF IInv
<1> DEFINE Effects == /\ UNCHANGED <<page, scroll, atStart, lost, rewound>>
                      /\ sunk \subseteq sunk'
                      /\ sequence <= sequence' /\ clock <= clock'
                      /\ UNCHANGED <<updatedAt, written>> \/ \E p \in Nat : Rewrites(p)
<1>1. /\ clock \in Nat /\ sequence \in Nat /\ Existing \subseteq 1..sequence
      /\ writer[w].p \in 0..sequence /\ writer[w].stamp \in 0..clock
      /\ \A p \in Existing : updatedAt[p] \in 1..clock
  BY DEF DatesInv, WriterInv, Requests
<1>2. ASSUME UNCHANGED <<page, scroll, historyVars, updatedAt>>,
             sequence' \in {sequence, sequence + 1}, clock' \in {clock, clock + 1}
      PROVE  Effects
  BY <1>1, <1>2 DEF historyVars
<1>3. CASE AskUpdate(w)
  BY <1>2, <1>3 DEF AskUpdate, Ask
<1>4. CASE AskDelete(w)
  BY <1>2, <1>4 DEF AskDelete, Ask
<1>5. CASE AskCreate(w)
  BY <1>2, <1>5 DEF AskCreate, Ask, Now
<1>6. CASE CheckOwner(w, "owner-update", "update")
  BY <1>2, <1>6 DEF CheckOwner
<1>7. CASE CheckOwner(w, "owner-delete", "delete")
  BY <1>2, <1>7 DEF CheckOwner
<1>8. CASE StartUpdate(w)
  BY <1>2, <1>8 DEF StartUpdate, Now
<1>9. CASE CommitCreate(w)
  <2> DEFINE p == writer[w].p
  <2>1. /\ UNCHANGED <<page, scroll, atStart, lost, rewound, sunk, sequence, clock>>
        /\ updatedAt' = [q \in Existing \union {p} |-> IF q = p THEN writer[w].stamp ELSE updatedAt[q]]
        /\ Write(p)
    BY <1>9 DEF CommitCreate
  <2>2. p \in 1..sequence /\ p \notin Shown \union Rows
    BY <1>1, <1>9 DEF FreshInv, CommitCreate
  <2> HIDE DEF p
  <2>3. Existing' = Existing \union {p}
    BY <2>1 DEF Existing
  <2>4. \A q \in Existing \ {p} : updatedAt'[q] = updatedAt[q]
    BY <2>1
  <2>5. Rewrites(p)
    BY <2>1, <2>2, <2>3, <2>4 DEF Rewrites, Write
  <2> QED
    BY <1>1, <2>1, <2>2, <2>5
<1>10. CASE CommitUpdate(w)
  <2> DEFINE p == writer[w].p
  <2>1. UNCHANGED <<page, scroll, atStart, lost, rewound, sequence, clock>>
    BY <1>10 DEF CommitUpdate
  <2>2. CASE UNCHANGED <<updatedAt, sunk, written>>
    BY <1>1, <2>1, <2>2
  <2>3. CASE /\ p \in Existing
             /\ updatedAt' = [updatedAt EXCEPT ![p] = writer[w].stamp]
             /\ sunk' = IF writer[w].stamp < updatedAt[p] THEN sunk \union {p} ELSE sunk
             /\ Write(p)
    <3> HIDE DEF p
    <3>1. Existing' = Existing
      BY <2>3 DEF Existing
    <3>2. \A q \in Existing : updatedAt'[q] = IF q = p THEN writer[w].stamp ELSE updatedAt[q]
      BY <2>3 DEF Existing
    <3>3. updatedAt'[p] >= updatedAt[p] \/ p \in sunk'
      <4>1. updatedAt'[p] = writer[w].stamp
        BY <2>3, <3>2
      <4>2. CASE writer[w].stamp < updatedAt[p]
        BY <2>3, <4>2
      <4>3. updatedAt[p] \in 1..clock /\ writer[w].stamp \in 0..clock /\ clock \in Nat
        BY <1>1, <2>3
      <4>4. CASE ~(writer[w].stamp < updatedAt[p])
        <5>1. writer[w].stamp >= updatedAt[p]
          BY <4>3, <4>4
        <5> QED
          BY <4>1, <5>1
      <4> QED
        BY <4>2, <4>4
    <3>4. Rewrites(p) /\ p \in Nat
      BY <1>1, <2>3, <3>1, <3>2, <3>3 DEF Rewrites, Write
    <3> QED
      BY <1>1, <2>1, <2>3, <3>4
  <2> QED
    BY <1>10, <2>2, <2>3 DEF CommitUpdate
<1>11. CASE Delete(w)
  <2> DEFINE p == writer[w].p
  <2>1. UNCHANGED <<page, scroll, atStart, lost, rewound, sequence, clock, sunk>>
    BY <1>11 DEF Delete
  <2>2. CASE UNCHANGED <<updatedAt, written>>
    BY <1>1, <2>1, <2>2
  <2>3. CASE /\ p \in Existing
             /\ updatedAt' = [q \in Existing \ {p} |-> updatedAt[q]]
             /\ Write(p)
    <3> HIDE DEF p
    <3>1. Existing' = Existing \ {p} /\ \A q \in Existing \ {p} : updatedAt'[q] = updatedAt[q]
      BY <2>3 DEF Existing
    <3>2. Rewrites(p) /\ p \in Nat
      BY <1>1, <2>3, <3>1 DEF Rewrites, Write
    <3> QED
      BY <1>1, <2>1, <3>2
  <2> QED
    BY <1>11, <2>2, <2>3 DEF Delete
<1> QED
  BY <1>3, <1>4, <1>5, <1>6, <1>7, <1>8, <1>9, <1>10, <1>11 DEF WriterStep

\* The three writers' invariants about the scroll, from what the others see.
LEMMA WriterKeepsFresh ==
    ASSUME IInv, NEW w \in Writers, WriterStep(w)
    PROVE  FreshInv'
<1> USE DEF IInv
<1>1. UNCHANGED <<page, scroll>> /\ Shown' = Shown /\ Rows' = Rows
  BY WriterEffects DEF Shown, Rows
<1>2. /\ sequence \in Nat /\ Existing \subseteq 1..sequence
      /\ Shown \subseteq 1..sequence /\ Rows \subseteq 1..sequence
      /\ \A v \in Writers : writer[v].p \in 0..sequence
  <2>1. ASSUME NEW s \in Seq(1..sequence)
        PROVE  ToSet(s) \subseteq 1..sequence
    BY ToSetOf
  <2>2. page.rows \in Seq(1..sequence) /\ scroll.shown \in Seq(1..sequence)
    BY DEF PageInv
  <2> QED
    BY <2>1, <2>2 DEF Shown, Rows, DatesInv, WriterInv, Requests
<1>3. ASSUME NEW r, writer' = [writer EXCEPT ![w] = r], r.pc # "create",
             Existing' \subseteq Existing \union (IF writer[w].pc = "create" THEN {writer[w].p} ELSE {})
      PROVE  FreshInv'
  <2>1. writer'[w] = r /\ \A v \in Writers : v # w => writer'[v] = writer[v]
    BY <1>3 DEF WriterInv
  <2>2. \A v \in Writers : writer'[v].pc = "create" => v # w /\ writer'[v] = writer[v]
    BY <1>3, <2>1
  <2>3. ASSUME NEW v \in Writers, writer'[v].pc = "create"
        PROVE  /\ writer'[v].p # 0 /\ writer'[v].p \notin Existing'
               /\ writer'[v].p \notin Shown' \union Rows'
    <3>1. v # w /\ writer'[v] = writer[v] /\ writer[v].pc = "create"
      BY <2>2, <2>3
    <3>2. writer[w].pc = "create" => writer[w].p # writer[v].p
      BY <3>1 DEF FreshInv
    <3>3. writer[v].p # 0 /\ writer[v].p \notin Existing \union Shown \union Rows
      BY <3>1 DEF FreshInv
    <3> QED
      BY <1>1, <1>3, <3>1, <3>2, <3>3
  <2>4. ASSUME NEW v \in Writers, writer'[v].pc = "create",
               NEW u \in Writers, writer'[u].pc = "create", writer'[u].p = writer'[v].p
        PROVE  u = v
    BY <2>2, <2>4 DEF FreshInv
  <2> QED
    BY <2>3, <2>4 DEF FreshInv
<1>4. UNCHANGED updatedAt => Existing' = Existing
  BY DEF Existing
<1>5. CASE AskUpdate(w)
  <2>1. PICK r : writer' = [writer EXCEPT ![w] = r] /\ r.pc # "create"
    <3>1. PICK p : writer' = [writer EXCEPT ![w] = [pc |-> "owner-update", p |-> p, stamp |-> 0]]
      BY <1>5 DEF AskUpdate, Ask, Go
    <3> WITNESS [pc |-> "owner-update", p |-> p, stamp |-> 0]
    <3> QED
      BY <3>1
  <2>2. Existing' = Existing
    BY <1>4, <1>5 DEF AskUpdate
  <2> QED
    BY <1>3, <2>1, <2>2
<1>6. CASE AskDelete(w)
  <2>1. PICK r : writer' = [writer EXCEPT ![w] = r] /\ r.pc # "create"
    <3>1. PICK p : writer' = [writer EXCEPT ![w] = [pc |-> "owner-delete", p |-> p, stamp |-> 0]]
      BY <1>6 DEF AskDelete, Ask, Go
    <3> WITNESS [pc |-> "owner-delete", p |-> p, stamp |-> 0]
    <3> QED
      BY <3>1
  <2>2. Existing' = Existing
    BY <1>4, <1>6 DEF AskDelete
  <2> QED
    BY <1>3, <2>1, <2>2
<1>7. CASE AskCreate(w)
  <2>1. /\ writer' = [writer EXCEPT ![w] = [pc |-> "create", p |-> sequence + 1, stamp |-> clock + 1]]
        /\ Existing' = Existing
    BY <1>4, <1>7 DEF AskCreate, Ask, Go, Now
  <2>2. writer'[w].p = sequence + 1 /\ \A v \in Writers : v # w => writer'[v] = writer[v]
    BY <2>1 DEF WriterInv
  <2>3. ASSUME NEW v \in Writers, writer'[v].pc = "create"
        PROVE  /\ writer'[v].p # 0 /\ writer'[v].p \notin Existing' \union Shown' \union Rows'
               /\ \A u \in Writers : writer'[u].pc = "create" /\ writer'[u].p = writer'[v].p => u = v
    <3>1. CASE v = w
      BY <1>1, <1>2, <2>1, <2>2, <3>1
    <3>2. CASE v # w
      <4>1. writer'[v] = writer[v] /\ writer[v].pc = "create"
        BY <2>2, <2>3, <3>2
      <4>2. writer[v].p # 0 /\ writer[v].p \notin Existing \union Shown \union Rows
        BY <4>1 DEF FreshInv
      <4>3. ASSUME NEW u \in Writers, writer'[u].pc = "create", writer'[u].p = writer'[v].p
            PROVE  u = v
        <5>1. u # w
          BY <1>2, <2>2, <4>1, <4>3
        <5>2. writer'[u] = writer[u]
          BY <2>2, <5>1
        <5> QED
          BY <4>1, <4>3, <5>2 DEF FreshInv
      <4> QED
        BY <1>1, <2>1, <4>1, <4>2, <4>3
    <3> QED
      BY <3>1, <3>2
  <2> QED
    BY <2>3 DEF FreshInv
<1>8. ASSUME NEW from, NEW to \in {"update", "delete"}, CheckOwner(w, from, to)
      PROVE  FreshInv'
  <2>1. PICK r \in {[pc |-> to, p |-> writer[w].p, stamp |-> 0], Idle} :
           writer' = [writer EXCEPT ![w] = r]
    BY <1>8 DEF CheckOwner, Go, Finish
  <2>2. r.pc # "create" /\ Existing' = Existing
    BY <1>4, <1>8, <2>1 DEF Idle, CheckOwner
  <2> QED
    BY <1>3, <2>1, <2>2
<1>9. CASE StartUpdate(w)
  <2>1. PICK r : writer' = [writer EXCEPT ![w] = r] /\ r.pc # "create"
    <3>1. writer' = [writer EXCEPT ![w] = [pc |-> "commit", p |-> writer[w].p, stamp |-> Now]]
      BY <1>9 DEF StartUpdate, Go
    <3> WITNESS [pc |-> "commit", p |-> writer[w].p, stamp |-> Now]
    <3> QED
      BY <3>1
  <2>2. Existing' = Existing
    BY <1>4, <1>9 DEF StartUpdate
  <2> QED
    BY <1>3, <2>1, <2>2
<1>10. ASSUME Finish(w),
              Existing' \subseteq Existing \union (IF writer[w].pc = "create" THEN {writer[w].p} ELSE {})
       PROVE  FreshInv'
  <2>1. writer' = [writer EXCEPT ![w] = Idle] /\ Idle.pc # "create"
    BY <1>10 DEF Finish, Idle
  <2> QED
    BY <1>3, <1>10, <2>1
<1>11. CASE CommitCreate(w)
  <2>1. writer[w].pc = "create" /\ Finish(w)
    BY <1>11 DEF CommitCreate
  <2>2. Existing' = Existing \union {writer[w].p}
    BY <1>11 DEF CommitCreate, Existing
  <2> QED
    BY <1>10, <2>1, <2>2
<1>12. CASE CommitUpdate(w)
  <2>1. Finish(w)
    BY <1>12 DEF CommitUpdate
  <2>2. Existing' = Existing
    BY <1>12 DEF CommitUpdate, Existing
  <2> QED
    BY <1>10, <2>1, <2>2
<1>13. CASE Delete(w)
  <2>1. Finish(w)
    BY <1>13 DEF Delete
  <2>2. Existing' \subseteq Existing
    BY <1>13 DEF Delete, Existing
  <2> QED
    BY <1>10, <2>1, <2>2
<1> QED
  BY <1>5, <1>6, <1>7, <1>8, <1>9, <1>11, <1>12, <1>13 DEF WriterStep

\* The first n of a sequence.
LEMMA CutOf ==
    ASSUME NEW S, NEW s \in Seq(S), NEW n \in Nat
    PROVE  /\ Cut(s, n) \in Seq(S)
           /\ Len(Cut(s, n)) = IF Len(s) <= n THEN Len(s) ELSE n
           /\ \A i \in 1..Len(Cut(s, n)) : i \in 1..Len(s) /\ Cut(s, n)[i] = s[i]
<1>1. CASE Len(s) <= n
  BY <1>1 DEF Cut
<1>2. CASE ~(Len(s) <= n)
  <2>1. Len(s) \in Nat /\ n < Len(s) /\ Cut(s, n) = SubSeq(s, 1, n)
    BY <1>2 DEF Cut
  <2>2. SubSeq(s, 1, n) = [i \in 1..n |-> s[i]]
    BY <2>1
  <2> QED
    BY <2>1, <2>2
<1> QED
  BY <1>1, <1>2

\* The rows and the shown projects, and what is coming.
LEMMA PageFacts ==
    ASSUME IInv
    PROVE  /\ Take \in Nat \ {0}
           /\ page.rows \in Seq(1..sequence) /\ scroll.shown \in Seq(1..sequence)
           /\ DOMAIN page.rows = 1..Len(page.rows) /\ Len(page.rows) \in Nat
           /\ DOMAIN scroll.shown = 1..Len(scroll.shown) /\ Len(scroll.shown) \in Nat
           /\ Coming \in Seq(1..sequence)
           /\ Len(Coming) = IF HasMore THEN Take ELSE Len(page.rows)
           /\ \A i \in 1..Len(Coming) : i \in 1..Len(page.rows) /\ Coming[i] = page.rows[i]
           /\ Shown \subseteq 1..sequence /\ Rows \subseteq 1..sequence /\ ToSet(Coming) \subseteq Rows
           /\ \A x : x \in Shown <=> \E i \in 1..Len(scroll.shown) : scroll.shown[i] = x
           /\ \A x : x \in Rows <=> \E i \in 1..Len(page.rows) : page.rows[i] = x
           /\ \A x : x \in ToSet(Coming) <=> \E i \in 1..Len(Coming) : Coming[i] = x
<1>1. page.rows \in Seq(1..sequence) /\ scroll.shown \in Seq(1..sequence) /\ Take \in Nat \ {0}
  BY BoundsAssumption DEF IInv, PageInv
<1>2. /\ DOMAIN page.rows = 1..Len(page.rows) /\ Len(page.rows) \in Nat
      /\ DOMAIN scroll.shown = 1..Len(scroll.shown) /\ Len(scroll.shown) \in Nat
  BY <1>1
<1>3. /\ Coming \in Seq(1..sequence)
      /\ Len(Coming) = IF Len(page.rows) <= Take THEN Len(page.rows) ELSE Take
      /\ \A i \in 1..Len(Coming) : i \in 1..Len(page.rows) /\ Coming[i] = page.rows[i]
  BY <1>1, CutOf DEF Coming
<1>4. Len(Coming) = IF HasMore THEN Take ELSE Len(page.rows)
  BY <1>1, <1>2, <1>3 DEF HasMore
<1>5. /\ Shown \subseteq 1..sequence /\ Rows \subseteq 1..sequence
      /\ \A x : x \in Shown <=> \E i \in 1..Len(scroll.shown) : scroll.shown[i] = x
      /\ \A x : x \in Rows <=> \E i \in 1..Len(page.rows) : page.rows[i] = x
      /\ \A x : x \in ToSet(Coming) <=> \E i \in 1..Len(Coming) : Coming[i] = x
  <2>1. Shown \subseteq 1..sequence /\ \A x : x \in Shown <=> \E i \in 1..Len(scroll.shown) : scroll.shown[i] = x
    BY <1>1, ToSetOf DEF Shown
  <2>2. Rows \subseteq 1..sequence /\ \A x : x \in Rows <=> \E i \in 1..Len(page.rows) : page.rows[i] = x
    BY <1>1, ToSetOf DEF Rows
  <2>3. \A x : x \in ToSet(Coming) <=> \E i \in 1..Len(Coming) : Coming[i] = x
    BY <1>3, ToSetOf
  <2> QED
    BY <2>1, <2>2, <2>3
<1>6. ToSet(Coming) \subseteq Rows
  BY <1>3, <1>5
<1> QED
  BY <1>1, <1>2, <1>3, <1>4, <1>5, <1>6

\* The invariants of the scroll, whatever the others write.
LEMMA WriterKeepsScroll ==
    ASSUME IInv, NEW w \in Writers, WriterStep(w)
    PROVE  PageInv' /\ UntouchedInv' /\ RepeatsInv' /\ QuietInv'
<1> USE DEF IInv
<1>1. /\ UNCHANGED <<page, scroll, atStart, lost, rewound>>
      /\ sunk \subseteq sunk'
      /\ sequence <= sequence' /\ clock <= clock'
      /\ UNCHANGED <<updatedAt, written>> \/ \E p \in Nat : Rewrites(p)
  BY WriterEffects
<1>2. /\ sequence \in Nat /\ clock \in Nat /\ sequence' \in Nat /\ clock' \in Nat
      /\ Existing \subseteq 1..sequence /\ \A p \in Existing : updatedAt[p] \in 1..clock
      /\ Existing' \subseteq 1..sequence' /\ \A p \in Existing' : updatedAt'[p] \in 1..clock'
  BY WriterKeepsDates DEF DatesInv
<1>3. Shown' = Shown /\ Rows' = Rows /\ Coming' = Coming /\ ToSet(Coming)' = ToSet(Coming) /\ HasMore' = HasMore
  BY <1>1 DEF Shown, Rows, Coming, HasMore, Cut
<1>4. PageInv'
  <2>1. ASSUME NEW s \in Seq(1..sequence)
        PROVE  s \in Seq(1..sequence')
    BY <1>1, <1>2
  <2>2. /\ page.rows \in Seq(1..sequence') /\ page.found \in BOOLEAN /\ page.total \in -1..sequence'
        /\ page = [rows |-> page.rows, found |-> page.found, total |-> page.total]
    BY <1>1, <1>2, <2>1 DEF PageInv
  <2>3. /\ scroll.state \in {"new", "asked", "ready", "end"} /\ scroll.cursor \in 0..sequence'
        /\ scroll.mark \in 0..clock' /\ scroll.total \in Int /\ scroll.shown \in Seq(1..sequence')
        /\ scroll = [state |-> scroll.state, cursor |-> scroll.cursor, mark |-> scroll.mark,
                     total |-> scroll.total, shown |-> scroll.shown]
    BY <1>1, <1>2, <2>1 DEF PageInv
  <2>4. page \in [rows : Seq(1..sequence'), found : BOOLEAN, total : -1..sequence']
    BY <2>2
  <2>5. scroll \in [state : {"new", "asked", "ready", "end"}, cursor : 0..sequence',
                    mark : 0..clock', total : Int, shown : Seq(1..sequence')]
    BY <2>3
  <2>6. scroll.state = "new" => written' = written
    BY <1>1 DEF Rewrites
  <2> QED
    BY <1>1, <2>4, <2>5, <2>6 DEF PageInv
<1>5. CASE UNCHANGED <<updatedAt, written>>
  <2>1. Existing' = Existing /\ List' = List
    BY <1>5 DEF Existing, List, Ordered, Before
  <2>2. UntouchedInv'
    BY <1>1, <1>3, <1>5, <2>1 DEF UntouchedInv
  <2>3. RepeatsInv'
    BY <1>1, <1>3, <1>5, <2>1 DEF RepeatsInv
  <2>4. QuietInv'
    BY <1>1, <1>3, <1>5, <2>1 DEF QuietInv
  <2> QED
    BY <1>4, <2>2, <2>3, <2>4
<1>6. ASSUME NEW p \in Nat, Rewrites(p)
      PROVE  UntouchedInv' /\ RepeatsInv' /\ QuietInv'
  <2>1. scroll.state # "new" => written' = written \union {p}
    BY <1>6 DEF Rewrites
  <2>2. UntouchedInv'
    <3>1. CASE scroll.state = "new"
      <4>1. atStart' = {}
        BY <1>1, <3>1 DEF PageInv
      <4> QED
        BY <4>1 DEF UntouchedInv
    <3>2. CASE scroll.state # "new"
      <4>1. \A q \in atStart' \ written' : /\ q \in atStart \ written
                                           /\ q \in Existing => q \in Existing' /\ updatedAt'[q] = updatedAt[q]
        BY <1>1, <1>6, <2>1, <3>2 DEF Rewrites
      <4> QED
        BY <1>1, <1>3, <4>1 DEF UntouchedInv
    <3> QED
      BY <3>1, <3>2
  <2>3. RepeatsInv'
    <3> SUFFICES ASSUME ~rewound'
                 PROVE  /\ \A q \in Shown' \union ToSet(Coming)' :
                             q \in Existing' \ sunk' => updatedAt'[q] >= scroll'.mark
                        /\ \A i, k \in DOMAIN page'.rows : page'.rows[i] = page'.rows[k] => i = k
                        /\ Shown' \cap Rows' \subseteq sunk'
                        /\ \A i, k \in DOMAIN scroll'.shown :
                             (i # k /\ scroll'.shown[i] = scroll'.shown[k]) => scroll'.shown[i] \in sunk'
      BY DEF RepeatsInv
    <3>1. ASSUME NEW q \in Shown \union ToSet(Coming), q \in Existing' \ sunk'
          PROVE  updatedAt'[q] >= scroll.mark
      <4>1. ToSet(Coming) \subseteq Rows
        BY PageFacts
      <4>2. q \in Existing \ sunk /\ updatedAt'[q] >= updatedAt[q]
        <5>1. CASE q = p
          BY <1>1, <1>6, <3>1, <4>1, <5>1 DEF Rewrites
        <5>2. CASE q # p
          BY <1>1, <1>2, <1>6, <3>1, <5>2 DEF Rewrites
        <5> QED
          BY <5>1, <5>2
      <4>3. updatedAt[q] >= scroll.mark
        BY <1>1, <3>1, <4>2 DEF RepeatsInv
      <4>4. updatedAt[q] \in Int /\ updatedAt'[q] \in Int /\ scroll.mark \in Int
        BY <1>2, <3>1, <4>2 DEF PageInv
      <4> QED
        BY <4>2, <4>3, <4>4
    <3> QED
      BY <1>1, <1>3, <3>1 DEF RepeatsInv
  <2>4. QuietInv'
    BY <1>1, <2>1 DEF QuietInv
  <2> QED
    BY <2>2, <2>3, <2>4
<1> QED
  BY <1>1, <1>4, <1>5, <1>6

-----------------------------------------------------------------------------
(* The pages. *)

LEMMA ScrollKeepsDates ==
    ASSUME IInv, UNCHANGED dbVars
    PROVE  /\ DatesInv' /\ WriterInv' /\ Existing' = Existing /\ List' = List
           /\ Keyed(Existing) /\ Sorted(List, Existing) /\ Len(List) = Cardinality(Existing)
           /\ DOMAIN List = 1..Len(List) /\ Len(List) \in Nat
           /\ \A i \in 1..Len(List) : List[i] \in Existing /\ updatedAt[List[i]] \in 1..clock
<1>1. Existing' = Existing /\ List' = List /\ UNCHANGED <<updatedAt, sequence, clock, writer, writes>>
  BY DEF dbVars, Existing, List, Ordered, Before
<1>2. DatesInv'
  BY <1>1 DEF IInv, DatesInv
<1>3. WriterInv'
  BY <1>1 DEF IInv, WriterInv, Dated
<1>4. Keyed(Existing)
  <2>1. IsFiniteSet(1..sequence) /\ Existing \subseteq 1..sequence
    BY FS_Interval DEF IInv, DatesInv
  <2>2. IsFiniteSet(Existing)
    BY <2>1, FS_Subset
  <2> QED
    BY <2>2 DEF Keyed, IInv, DatesInv
<1>5. Sorted(List, Existing) /\ Len(List) = Cardinality(Existing)
  BY <1>4, OrderedSorted DEF List
<1>6. DOMAIN List = 1..Len(List) /\ Len(List) \in Nat /\ \A i \in 1..Len(List) : List[i] \in Existing
  BY <1>5 DEF Sorted
<1>7. \A i \in 1..Len(List) : updatedAt[List[i]] \in 1..clock
  BY <1>6 DEF IInv, DatesInv
<1> QED
  BY <1>1, <1>2, <1>3, <1>4, <1>5, <1>6, <1>7

\* A step of the scroll that brings no project the others do not have.
LEMMA ScrollKeepsFresh ==
    ASSUME IInv, UNCHANGED dbVars, Shown' \union Rows' \subseteq Existing \union Shown \union Rows
    PROVE  FreshInv'
<1>1. Existing' = Existing /\ writer' = writer
  BY DEF dbVars, Existing
<1>2. ASSUME NEW w \in Writers, writer[w].pc = "create"
      PROVE  /\ writer[w].p # 0
             /\ writer[w].p \notin Existing' \union Shown' \union Rows'
             /\ \A v \in Writers : writer[v].pc = "create" /\ writer[v].p = writer[w].p => v = w
  BY <1>1, <1>2 DEF IInv, FreshInv
<1> QED
  BY <1>1, <1>2 DEF FreshInv

LEMMA AskPageKeeps ==
    ASSUME IInv, AskPage
    PROVE  IInv'
<1>1. /\ scroll.state \in {"new", "ready"}
      /\ scroll'.state = "asked" /\ scroll'.cursor = scroll.cursor /\ scroll'.mark = scroll.mark
      /\ scroll'.total = scroll.total /\ scroll'.shown = scroll.shown
      /\ scroll' \in [state : {"new", "asked", "ready", "end"}, cursor : 0..sequence,
                      mark : 0..clock, total : Int, shown : Seq(1..sequence)]
  BY DEF AskPage, IInv, PageInv
<1>2. /\ page' = NoPage /\ page'.rows = <<>> /\ page'.found = FALSE /\ page'.total = -1
      /\ UNCHANGED <<dbVars, written, sunk, lost, rewound>>
      /\ atStart' = IF scroll.state = "new" THEN Existing ELSE atStart
  BY DEF AskPage, NoPage
<1>3. /\ DatesInv' /\ WriterInv' /\ Existing' = Existing /\ List' = List /\ Len(List) \in Nat
      /\ updatedAt' = updatedAt /\ sequence' = sequence /\ clock' = clock /\ sequence \in Nat
  BY <1>2, ScrollKeepsDates DEF dbVars, IInv, DatesInv
<1>4. Shown' = Shown /\ Rows' = {} /\ ToSet(Coming)' = {}
  <2>1. Take \in Nat /\ Len(page'.rows) = 0
    BY <1>2, BoundsAssumption
  <2>2. Coming' = <<>>
    BY <1>2, <2>1 DEF Coming, Cut
  <2>3. ToSet(<<>>) = {}
    BY DEF ToSet
  <2> QED
    BY <1>1, <1>2, <2>2, <2>3 DEF Shown, Rows
<1>5. ~page.found
  BY <1>1 DEF IInv, PageInv
<1>6. FreshInv'
  BY <1>2, <1>4, ScrollKeepsFresh
<1>7. PageInv'
  <2>1. page' \in [rows : Seq(1..sequence), found : BOOLEAN, total : -1..sequence]
    BY <1>2, <1>3 DEF NoPage
  <2>2. Len(page'.rows) <= Take + 1
    BY <1>2, BoundsAssumption
  <2>3. scroll.cursor = 0 => scroll.shown = <<>>
    BY <1>1 DEF IInv, PageInv
  <2> QED
    BY <1>1, <1>2, <1>3, <2>1, <2>2, <2>3 DEF PageInv
<1>8. UntouchedInv'
  <2>1. CASE scroll.state = "new"
    BY <1>1, <1>2, <1>3, <2>1 DEF UntouchedInv, IInv, PageInv
  <2>2. CASE scroll.state = "ready"
    BY <1>1, <1>2, <1>3, <1>4, <1>5, <2>2 DEF UntouchedInv, IInv
  <2> QED
    BY <1>1, <2>1, <2>2
<1>9. RepeatsInv'
  BY <1>1, <1>2, <1>3, <1>4 DEF RepeatsInv, IInv
<1>10. QuietInv'
  <2>1. CASE scroll.state = "new"
    <3>1. scroll.shown = <<>> /\ scroll.cursor = 0
      BY <2>1 DEF IInv, PageInv
    <3> QED
      BY <1>1, <1>2, <1>3, <3>1 DEF QuietInv
  <2>2. CASE scroll.state = "ready"
    BY <1>1, <1>2, <1>3, <1>5, <2>2 DEF QuietInv, IInv
  <2> QED
    BY <1>1, <2>1, <2>2
<1> QED
  BY <1>3, <1>6, <1>7, <1>8, <1>9, <1>10 DEF IInv

LEMMA CountProjectsKeeps ==
    ASSUME IInv, CountProjects
    PROVE  IInv'
<1>1. /\ UNCHANGED <<dbVars, scroll, atStart, written, sunk, lost, rewound>>
      /\ scroll.state = "asked"
  BY DEF CountProjects, historyVars
<1>2. /\ page'.rows = page.rows /\ page'.found = page.found /\ page'.total = Cardinality(Existing)
      /\ page' = [rows |-> page.rows, found |-> page.found, total |-> Cardinality(Existing)]
  BY DEF CountProjects, IInv, PageInv
<1>3. /\ DatesInv' /\ WriterInv' /\ Existing' = Existing /\ List' = List
      /\ Len(List) = Cardinality(Existing) /\ Len(List) \in Nat
      /\ updatedAt' = updatedAt /\ sequence' = sequence /\ clock' = clock
  BY <1>1, ScrollKeepsDates DEF dbVars
<1>4. Shown' = Shown /\ Rows' = Rows /\ ToSet(Coming)' = ToSet(Coming) /\ HasMore' = HasMore
  BY <1>1, <1>2 DEF Shown, Rows, Coming, Cut, HasMore
<1>5. FreshInv'
  BY <1>1, <1>4, ScrollKeepsFresh
<1>6. PageInv'
  <2>1. sequence \in Nat /\ Existing \subseteq 1..sequence
    BY DEF IInv, DatesInv
  <2>2. Cardinality(Existing) <= sequence
    <3>1. IsFiniteSet(1..sequence) /\ Cardinality(1..sequence) = sequence
      BY <2>1, FS_Interval
    <3> QED
      BY <2>1, <3>1, FS_Subset
  <2>3. page' \in [rows : Seq(1..sequence), found : BOOLEAN, total : -1..sequence]
    BY <1>2, <1>3, <2>1, <2>2 DEF IInv, PageInv
  <2> QED
    BY <1>1, <1>2, <1>3, <2>3 DEF IInv, PageInv
<1>7. UntouchedInv'
  BY <1>1, <1>2, <1>3, <1>4 DEF UntouchedInv, IInv
<1>8. RepeatsInv'
  BY <1>1, <1>2, <1>3, <1>4 DEF RepeatsInv, IInv
<1>9. QuietInv'
  BY <1>1, <1>2, <1>3 DEF QuietInv, IInv
<1> QED
  BY <1>3, <1>5, <1>6, <1>7, <1>8, <1>9 DEF IInv

\* What the query finds: the list of what comes after the cursor, cut.
Found == Ordered(After(scroll.cursor))

LEMMA WhatIsFound ==
    ASSUME IInv, FindProjects
    PROVE  /\ After(scroll.cursor) \subseteq Existing
           /\ Found \in Seq(1..sequence) /\ Len(Found) \in Nat
           /\ \A i \in 1..Len(Found) : Found[i] \in After(scroll.cursor) /\ updatedAt[Found[i]] \in 1..clock
           /\ \A p \in After(scroll.cursor) : \E i \in 1..Len(Found) : Found[i] = p
           /\ \A i, k \in 1..Len(Found) : i < k => updatedAt[Found[i]] > updatedAt[Found[k]]
           /\ page'.rows = Cut(Found, Take + 1) /\ page'.found = TRUE /\ page'.total = page.total
           /\ page'.rows \in Seq(1..sequence) /\ Len(page'.rows) \in Nat /\ DOMAIN page'.rows = 1..Len(page'.rows)
           /\ Len(page'.rows) = IF Len(Found) <= Take + 1 THEN Len(Found) ELSE Take + 1
           /\ \A i \in 1..Len(page'.rows) : i \in 1..Len(Found) /\ page'.rows[i] = Found[i]
           /\ HasMore' = (Len(Found) > Take)
           /\ Len(Coming') = IF Len(Found) > Take THEN Take ELSE Len(Found)
           /\ \A x : x \in Rows' => x \in After(scroll.cursor)
           /\ \A x : x \in ToSet(Coming)' <=> \E i \in 1..Len(Coming') : Found[i] = x
           /\ scroll'.mark = IF Len(Found) > Take THEN updatedAt[Found[Take]] ELSE 0
           /\ scroll'.mark \in 0..clock
           /\ scroll' = [scroll EXCEPT !.mark = scroll'.mark]
           /\ Take \in Nat \ {0}
<1> DEFINE A == After(scroll.cursor)
<1>1. A \subseteq Existing
  BY DEF After
<1>2. Keyed(A)
  <2>1. UNCHANGED dbVars
    BY DEF FindProjects
  <2>2. Keyed(Existing)
    BY <2>1, ScrollKeepsDates
  <2>3. IsFiniteSet(A)
    BY <1>1, <2>2, FS_Subset DEF Keyed
  <2> HIDE DEF A
  <2> QED
    BY <1>1, <2>2, <2>3 DEF Keyed
<1>3. Sorted(Found, A)
  BY <1>2, OrderedSorted DEF Found
<1>4. Existing \subseteq 1..sequence /\ \A p \in Existing : updatedAt[p] \in 1..clock
  BY DEF IInv, DatesInv
<1>5. Take \in Nat \ {0} /\ clock \in Nat /\ sequence \in Nat
  BY BoundsAssumption DEF IInv, DatesInv
<1> HIDE DEF A
<1>6. /\ Found \in Seq(1..sequence) /\ Len(Found) \in Nat /\ DOMAIN Found = 1..Len(Found)
      /\ \A i \in 1..Len(Found) : Found[i] \in A /\ updatedAt[Found[i]] \in 1..clock
  <2>1. Found \in Seq(A) /\ Len(Found) \in Nat /\ DOMAIN Found = 1..Len(Found)
        /\ \A i \in 1..Len(Found) : Found[i] \in A
    BY <1>3 DEF Sorted
  <2>2. \A i \in 1..Len(Found) : Found[i] \in 1..sequence /\ updatedAt[Found[i]] \in 1..clock
    BY <1>1, <1>4, <2>1
  <2>3. Found \in Seq(1..sequence)
    <3>1. A \subseteq 1..sequence
      BY <1>1, <1>4
    <3>2. ASSUME NEW S, A \subseteq S, NEW s \in Seq(A)
          PROVE  s \in Seq(S)
      BY <3>2
    <3> QED
      BY <2>1, <3>1, <3>2
  <2> QED
    BY <2>1, <2>2, <2>3
<1>7. /\ \A p \in A : \E i \in 1..Len(Found) : Found[i] = p
      /\ \A i, k \in 1..Len(Found) : i < k => updatedAt[Found[i]] > updatedAt[Found[k]]
  BY <1>3, <1>6 DEF Sorted
<1>8. /\ page'.rows = Cut(Found, Take + 1) /\ page'.found = TRUE /\ page'.total = page.total
  BY DEF FindProjects, Found, IInv, PageInv
<1>9. /\ page'.rows \in Seq(1..sequence) /\ Len(page'.rows) \in Nat /\ DOMAIN page'.rows = 1..Len(page'.rows)
      /\ Len(page'.rows) = IF Len(Found) <= Take + 1 THEN Len(Found) ELSE Take + 1
      /\ \A i \in 1..Len(page'.rows) : i \in 1..Len(Found) /\ page'.rows[i] = Found[i]
  <2>1. Take + 1 \in Nat
    BY <1>5
  <2>2. /\ page'.rows \in Seq(1..sequence)
        /\ Len(page'.rows) = IF Len(Found) <= Take + 1 THEN Len(Found) ELSE Take + 1
        /\ \A i \in 1..Len(page'.rows) : i \in 1..Len(Found) /\ page'.rows[i] = Found[i]
    BY <1>6, <1>8, <2>1, CutOf
  <2> QED
    BY <2>2
<1>10. HasMore' = (Len(Found) > Take)
  BY <1>5, <1>6, <1>9 DEF HasMore
<1>11. /\ Coming' \in Seq(1..sequence)
       /\ Len(Coming') = IF Len(Found) > Take THEN Take ELSE Len(Found)
       /\ \A i \in 1..Len(Coming') : Coming'[i] = Found[i]
  <2>1. Coming' = Cut(page'.rows, Take)
    BY DEF Coming, Cut
  <2>2. /\ Coming' \in Seq(1..sequence)
        /\ Len(Coming') = IF Len(page'.rows) <= Take THEN Len(page'.rows) ELSE Take
        /\ \A i \in 1..Len(Coming') : i \in 1..Len(page'.rows) /\ Coming'[i] = page'.rows[i]
    BY <1>5, <1>9, <2>1, CutOf
  <2> QED
    BY <1>5, <1>6, <1>9, <2>2
<1>12. \A x : x \in Rows' => x \in A
  <2>1. Rows' = ToSet(page'.rows)
    BY DEF Rows, ToSet
  <2> QED
    BY <1>6, <1>9, <2>1, ToSetOf
<1>13. \A x : x \in ToSet(Coming)' <=> \E i \in 1..Len(Coming') : Found[i] = x
  <2>1. ToSet(Coming)' = ToSet(Coming')
    BY DEF ToSet
  <2>2. \A x : x \in ToSet(Coming') <=> \E i \in 1..Len(Coming') : Coming'[i] = x
    BY <1>11, ToSetOf
  <2> QED
    BY <1>11, <2>1, <2>2
<1>14. /\ scroll'.mark = IF Len(Found) > Take THEN updatedAt[Found[Take]] ELSE 0
       /\ scroll' = [scroll EXCEPT !.mark = scroll'.mark]
  <2>1. Len(Found) > Take => Found[Take] # 0
    BY <1>5, <1>6
  <2>2. scroll' = [scroll EXCEPT !.mark = IF Len(Found) > Take THEN updatedAt[Found[Take]] ELSE 0]
    BY <2>1, <1>5, <1>6 DEF FindProjects, Found
  <2> QED
    BY <2>2 DEF IInv, PageInv
<1>15. scroll'.mark \in 0..clock
  BY <1>5, <1>6, <1>14
<1> QED
  BY <1>1, <1>5, <1>6, <1>7, <1>8, <1>9, <1>10, <1>11, <1>12, <1>13, <1>14, <1>15 DEF A

LEMMA FindProjectsKeeps ==
    ASSUME IInv, FindProjects
    PROVE  IInv'
<1> DEFINE cursor == scroll.cursor
           k == Len(scroll.shown)
<1>1. /\ scroll.state = "asked" /\ ~page.found
      /\ UNCHANGED <<dbVars, atStart, written, sunk>>
      /\ lost' = (lost \/ (cursor # 0 /\ (cursor \in Existing => updatedAt[cursor] < scroll.mark)))
      /\ rewound' = (rewound \/ (cursor \in Existing /\ updatedAt[cursor] > scroll.mark))
  BY DEF FindProjects
<1>2. /\ DatesInv' /\ WriterInv' /\ Existing' = Existing /\ List' = List
      /\ Keyed(Existing) /\ Len(List) = Cardinality(Existing) /\ Len(List) \in Nat
      /\ updatedAt' = updatedAt /\ sequence' = sequence /\ clock' = clock
  BY <1>1, ScrollKeepsDates DEF dbVars
<1>3. /\ After(cursor) \subseteq Existing
      /\ Len(Found) \in Nat
      /\ \A i \in 1..Len(Found) : Found[i] \in After(cursor) /\ updatedAt[Found[i]] \in 1..clock
      /\ \A p \in After(cursor) : \E i \in 1..Len(Found) : Found[i] = p
      /\ \A i, j \in 1..Len(Found) : i < j => updatedAt[Found[i]] > updatedAt[Found[j]]
      /\ Take \in Nat \ {0}
  BY WhatIsFound
<1>4. /\ page'.found = TRUE /\ page'.total = page.total
      /\ page'.rows \in Seq(1..sequence) /\ Len(page'.rows) \in Nat /\ DOMAIN page'.rows = 1..Len(page'.rows)
      /\ Len(page'.rows) = IF Len(Found) <= Take + 1 THEN Len(Found) ELSE Take + 1
      /\ \A i \in 1..Len(page'.rows) : i \in 1..Len(Found) /\ page'.rows[i] = Found[i]
      /\ HasMore' = (Len(Found) > Take)
  BY WhatIsFound
<1>5. /\ Len(Coming') = IF Len(Found) > Take THEN Take ELSE Len(Found)
      /\ \A x : x \in Rows' => x \in After(cursor)
      /\ \A x : x \in ToSet(Coming)' <=> \E i \in 1..Len(Coming') : Found[i] = x
  BY WhatIsFound
<1>6. /\ scroll'.mark = IF Len(Found) > Take THEN updatedAt[Found[Take]] ELSE 0
      /\ scroll'.mark \in 0..clock
      /\ scroll'.state = "asked" /\ scroll'.cursor = cursor /\ scroll'.total = scroll.total
      /\ scroll'.shown = scroll.shown
      /\ scroll' \in [state : {"new", "asked", "ready", "end"}, cursor : 0..sequence,
                      mark : 0..clock, total : Int, shown : Seq(1..sequence)]
  <2>1. scroll' = [scroll EXCEPT !.mark = scroll'.mark] /\ scroll'.mark \in 0..clock
    BY WhatIsFound
  <2>2. scroll'.mark = IF Len(Found) > Take THEN updatedAt[Found[Take]] ELSE 0
    BY WhatIsFound
  <2> QED
    BY <1>1, <2>1, <2>2 DEF IInv, PageInv
<1>7. Shown' = Shown
  BY <1>6 DEF Shown, ToSet
<1>8. /\ clock \in Nat /\ scroll.mark \in 0..clock /\ cursor \in 0..sequence /\ sequence \in Nat
      /\ \A p \in Existing : updatedAt[p] \in 1..clock
      /\ DOMAIN scroll.shown = 1..k /\ k \in Nat
      /\ Existing \subseteq 1..sequence
  BY DEF IInv, DatesInv, PageInv
<1>9. cursor # 0 => After(cursor) = IF cursor \notin Existing THEN {} ELSE {p \in Existing : updatedAt[p] < updatedAt[cursor]}
  BY DEF After
<1>10. cursor = 0 => After(cursor) = Existing /\ Shown = {} /\ scroll.shown = <<>>
  <2>1. cursor = 0 => scroll.shown = <<>>
    BY <1>1 DEF IInv, PageInv
  <2> QED
    BY <2>1 DEF After, Shown, ToSet
<1>0. \A p \in Existing : updatedAt[p] \in Int
  BY <1>8
<1> HIDE DEF cursor
<1>11. FreshInv'
  BY <1>1, <1>3, <1>5, <1>7, ScrollKeepsFresh
<1>12. PageInv'
  <2>1. page' \in [rows : Seq(1..sequence), found : BOOLEAN, total : -1..sequence]
    <3>1. page' = [rows |-> page'.rows, found |-> page'.found, total |-> page'.total]
      BY DEF FindProjects, IInv, PageInv
    <3>2. page'.total \in -1..sequence
      BY <1>4 DEF IInv, PageInv
    <3> QED
      BY <1>4, <3>1, <3>2
  <2>2. Len(page'.rows) <= Take + 1
    BY <1>3, <1>4
  <2> QED
    BY <1>2, <1>4, <1>6, <1>10, <2>1, <2>2 DEF PageInv
<1>13. UntouchedInv'
  <2> SUFFICES ASSUME NEW p \in atStart \ written
               PROVE  /\ p \in Existing
                      /\ ~lost' => p \in Shown' \union ToSet(Coming)' \/ (HasMore' /\ updatedAt[p] < scroll'.mark)
    BY <1>1, <1>2, <1>4, <1>6 DEF UntouchedInv
  <2>1. p \in Existing
    BY DEF IInv, UntouchedInv
  <2>2. ASSUME ~lost', p \notin Shown
        PROVE  p \in After(cursor)
    <3>1. CASE cursor = 0
      BY <1>10, <2>1, <3>1
    <3>2. CASE cursor # 0
      <4>1. cursor \in Existing /\ updatedAt[cursor] >= scroll.mark /\ ~lost
        <5>1. ~lost /\ cursor \in Existing /\ ~(updatedAt[cursor] < scroll.mark)
          BY <1>1, <2>2, <3>2, Zenon
        <5> QED
          BY <1>8, <5>1
      <4>2. updatedAt[p] < scroll.mark
        BY <1>1, <2>2, <3>2, <4>1 DEF IInv, UntouchedInv, cursor
      <4>3. updatedAt[p] < updatedAt[cursor]
        BY <1>8, <2>1, <4>1, <4>2
      <4> QED
        BY <1>9, <2>1, <3>2, <4>1, <4>3
    <3> QED
      BY <3>1, <3>2
  <2>3. ASSUME p \in After(cursor)
        PROVE  p \in ToSet(Coming)' \/ (HasMore' /\ updatedAt[p] < scroll'.mark)
    <3>1. PICK i \in 1..Len(Found) : Found[i] = p
      BY <1>3, <2>3
    <3>2. CASE i <= Len(Coming')
      BY <1>3, <1>5, <3>1, <3>2
    <3>3. CASE ~(i <= Len(Coming'))
      <4>1. Len(Found) > Take /\ i > Take /\ Take \in 1..Len(Found)
        BY <1>3, <1>5, <3>3
      <4> QED
        BY <1>3, <1>4, <1>6, <3>1, <4>1
    <3> QED
      BY <3>2, <3>3
  <2> QED
    BY <1>7, <2>1, <2>2, <2>3
<1>14. RepeatsInv'
  <2> SUFFICES ASSUME ~rewound'
               PROVE  /\ \A p \in Shown \union ToSet(Coming)' :
                           p \in Existing \ sunk => updatedAt[p] >= scroll'.mark
                      /\ \A i, j \in 1..Len(page'.rows) : page'.rows[i] = page'.rows[j] => i = j
                      /\ Shown \cap Rows' \subseteq sunk
                      /\ \A i, j \in DOMAIN scroll.shown :
                           (i # j /\ scroll.shown[i] = scroll.shown[j]) => scroll.shown[i] \in sunk
    BY <1>1, <1>2, <1>4, <1>6, <1>7 DEF RepeatsInv
  <2>1. ~rewound /\ (cursor \in Existing => updatedAt[cursor] <= scroll.mark)
    <3>1. ~rewound /\ (cursor \in Existing => ~(updatedAt[cursor] > scroll.mark))
      BY <1>1, Zenon
    <3> QED
      BY <1>8, <3>1
  <2>2. ASSUME NEW p \in Shown, p \in Existing \ sunk, NEW q \in After(cursor)
        PROVE  updatedAt[p] > updatedAt[q]
    <3>1. cursor # 0 /\ cursor \in Existing /\ updatedAt[q] < updatedAt[cursor] /\ q \in Existing
      BY <1>9, <1>10, <2>2
    <3>2. updatedAt[p] >= scroll.mark
      BY <2>1, <2>2 DEF IInv, RepeatsInv
    <3>3. updatedAt[p] \in Int /\ updatedAt[q] \in Int /\ updatedAt[cursor] \in Int /\ scroll.mark \in Int
      BY <1>8, <2>2, <3>1
    <3>4. updatedAt[cursor] <= scroll.mark
      BY <2>1, <3>1
    <3> QED
      BY <3>1, <3>2, <3>3, <3>4
  <2>3. ASSUME NEW p \in Shown \union ToSet(Coming)', p \in Existing \ sunk
        PROVE  updatedAt[p] >= scroll'.mark
    <3>1. CASE Len(Found) <= Take
      BY <1>3, <1>6, <1>8, <2>3, <3>1
    <3>2. CASE Len(Found) > Take
      <4>1. Take \in 1..Len(Found) /\ Found[Take] \in After(cursor) /\ scroll'.mark = updatedAt[Found[Take]]
        BY <1>3, <1>6, <3>2
      <4>2. CASE p \in Shown
        <5>1. updatedAt[p] > updatedAt[Found[Take]]
          BY <2>2, <2>3, <4>1, <4>2
        <5>2. updatedAt[p] \in Int
          BY <1>0, <2>3
        <5>3. updatedAt[Found[Take]] \in Int
          BY <1>0, <1>3, <4>1
        <5> QED
          BY <4>1, <5>1, <5>2, <5>3
      <4>3. CASE p \in ToSet(Coming)'
        <5>1. PICK i \in 1..Take : Found[i] = p
          BY <1>5, <3>2, <4>3
        <5>2. i = Take \/ updatedAt[p] > updatedAt[Found[Take]]
          BY <1>3, <4>1, <5>1
        <5>3. updatedAt[p] \in Int
          BY <1>0, <2>3
        <5>4. updatedAt[Found[Take]] \in Int
          BY <1>0, <1>3, <4>1
        <5>5. CASE i = Take
          BY <4>1, <5>1, <5>3, <5>5
        <5> QED
          BY <4>1, <5>2, <5>3, <5>4, <5>5
      <4> QED
        BY <2>3, <4>2, <4>3
    <3> QED
      BY <1>3, <3>1, <3>2
  <2>4. ASSUME NEW i \in 1..Len(page'.rows), NEW j \in 1..Len(page'.rows), page'.rows[i] = page'.rows[j]
        PROVE  i = j
    <3>1. i \in 1..Len(Found) /\ j \in 1..Len(Found) /\ Found[i] = Found[j] /\ updatedAt[Found[i]] \in Int
      BY <1>3, <1>4, <2>4
    <3>2. ~(i < j) /\ ~(j < i)
      BY <1>3, <3>1
    <3> QED
      BY <3>1, <3>2
  <2>5. ASSUME NEW p \in Shown \cap Rows'
        PROVE  p \in sunk
    <3>1. p \in After(cursor) /\ p \in Existing /\ updatedAt[p] \in Int
      BY <1>3, <1>5, <1>8, <2>5
    <3> QED
      BY <2>2, <2>5, <3>1
  <2> QED
    BY <2>1, <2>3, <2>4, <2>5 DEF IInv, RepeatsInv
<1>15. QuietInv'
  <2> SUFFICES ASSUME written = {}
               PROVE  /\ k <= Len(List)
                      /\ \A i \in DOMAIN scroll.shown : scroll.shown[i] = List[i]
                      /\ Len(page'.rows) = IF Len(List) - k <= Take + 1 THEN Len(List) - k ELSE Take + 1
                      /\ \A i \in 1..Len(page'.rows) : page'.rows[i] = List[k + i]
                      /\ page.total # -1 => page.total = Len(List)
    BY <1>1, <1>2, <1>4, <1>6 DEF QuietInv
  <2>1. /\ k <= Len(List)
        /\ \A i \in DOMAIN scroll.shown : scroll.shown[i] = List[i]
        /\ cursor # 0 => k > 0 /\ cursor = List[k]
        /\ page.total # -1 => page.total = Len(List)
    BY <1>1 DEF IInv, QuietInv, cursor
  <2>2. Len(Found) = Len(List) - k /\ \A i \in 1..Len(Found) : Found[i] = List[k + i]
    <3>1. CASE cursor = 0
      <4>1. k = 0 /\ Found = List
        BY <1>10, <3>1 DEF Found, List, cursor
      <4> QED
        BY <1>2, <4>1
    <3>2. CASE cursor # 0
      <4>1. k \in 1..Cardinality(Existing) /\ cursor = Ordered(Existing)[k]
        BY <1>2, <1>8, <2>1, <3>2 DEF List
      <4>2. cursor \in Existing
        BY <1>2, <4>1, OrderedPlaces
      <4>3. After(cursor) = {p \in Existing : updatedAt[p] < updatedAt[Ordered(Existing)[k]]}
        BY <1>9, <3>2, <4>1, <4>2
      <4> HIDE DEF k
      <4>4. /\ Ordered(After(cursor)) = [i \in 1..(Cardinality(Existing) - k) |-> Ordered(Existing)[k + i]]
            /\ Cardinality(After(cursor)) = Cardinality(Existing) - k
        BY <1>2, <4>1, <4>3, RestOfTheList
      <4>5. Found = [i \in 1..(Len(List) - k) |-> List[k + i]] /\ Len(List) - k \in Nat
        BY <1>2, <1>8, <4>1, <4>4 DEF Found, List, cursor
      <4> QED
        BY <4>5
    <3> QED
      BY <3>1, <3>2
  <2> QED
    BY <1>4, <2>1, <2>2
<1> QED
  BY <1>2, <1>11, <1>12, <1>13, <1>14, <1>15 DEF IInv

\* One sequence after the other.
LEMMA ConcatOf ==
    ASSUME NEW S, NEW s \in Seq(S), NEW t \in Seq(S)
    PROVE  /\ s \o t \in Seq(S) /\ Len(s \o t) = Len(s) + Len(t)
           /\ DOMAIN (s \o t) = 1..(Len(s) + Len(t))
           /\ \A i \in 1..Len(s) : (s \o t)[i] = s[i]
           /\ \A i \in 1..(Len(s) + Len(t)) : i > Len(s) => i - Len(s) \in 1..Len(t) /\ (s \o t)[i] = t[i - Len(s)]
           /\ \A i \in 1..Len(t) : (s \o t)[Len(s) + i] = t[i]
<1>1. Len(s) \in Nat /\ Len(t) \in Nat
  OBVIOUS
<1>2. s \o t \in Seq(S) /\ Len(s \o t) = Len(s) + Len(t)
  OBVIOUS
<1>3. DOMAIN (s \o t) = 1..(Len(s) + Len(t))
  BY <1>2
<1>4. \A i \in 1..(Len(s) + Len(t)) : (s \o t)[i] = IF i <= Len(s) THEN s[i] ELSE t[i - Len(s)]
  OBVIOUS
<1>5. \A i \in 1..Len(s) : (s \o t)[i] = s[i]
  BY <1>1, <1>4
<1>6. \A i \in 1..(Len(s) + Len(t)) : i > Len(s) => i - Len(s) \in 1..Len(t) /\ (s \o t)[i] = t[i - Len(s)]
  BY <1>1, <1>4
<1>7. \A i \in 1..Len(t) : (s \o t)[Len(s) + i] = t[i]
  <2> SUFFICES ASSUME NEW i \in 1..Len(t)
               PROVE  (s \o t)[Len(s) + i] = t[i]
    OBVIOUS
  <2>1. Len(s) + i \in 1..(Len(s) + Len(t)) /\ Len(s) + i > Len(s) /\ (Len(s) + i) - Len(s) = i
    BY <1>1
  <2> QED
    BY <1>6, <2>1
<1> QED
  BY <1>2, <1>3, <1>5, <1>6, <1>7

LEMMA ReceivePageKeeps ==
    ASSUME IInv, ReceivePage
    PROVE  IInv'
<1> DEFINE k == Len(scroll.shown)
           c == Len(Coming)
<1> HIDE DEF k, c
<1>1. /\ scroll.state = "asked" /\ page.found /\ page.total # -1
      /\ page' = NoPage /\ page'.rows = <<>> /\ page'.found = FALSE /\ page'.total = -1
      /\ UNCHANGED <<dbVars, atStart, written, sunk, lost, rewound>>
  BY DEF ReceivePage, NoPage, historyVars
<1>2. /\ DatesInv' /\ WriterInv' /\ Existing' = Existing /\ List' = List
      /\ DOMAIN List = 1..Len(List) /\ Len(List) \in Nat
      /\ updatedAt' = updatedAt /\ sequence' = sequence /\ clock' = clock
  BY <1>1, ScrollKeepsDates DEF dbVars
<1>3. /\ Take \in Nat \ {0}
      /\ page.rows \in Seq(1..sequence) /\ scroll.shown \in Seq(1..sequence) /\ Coming \in Seq(1..sequence)
      /\ DOMAIN page.rows = 1..Len(page.rows) /\ Len(page.rows) \in Nat
      /\ DOMAIN scroll.shown = 1..k /\ k \in Nat
      /\ c = IF HasMore THEN Take ELSE Len(page.rows)
      /\ \A i \in 1..c : i \in 1..Len(page.rows) /\ Coming[i] = page.rows[i]
  BY PageFacts DEF k, c
<1>4. /\ Shown \subseteq 1..sequence /\ Rows \subseteq 1..sequence /\ ToSet(Coming) \subseteq Rows
      /\ \A x : x \in Shown <=> \E i \in 1..k : scroll.shown[i] = x
      /\ \A x : x \in Rows <=> \E i \in 1..Len(page.rows) : page.rows[i] = x
      /\ \A x : x \in ToSet(Coming) <=> \E i \in 1..c : Coming[i] = x
  BY PageFacts DEF k, c
<1>5. HasMore = (Len(page.rows) > Take) /\ c \in Nat /\ (HasMore => page.rows[Take] \in 1..sequence)
  <2>1. HasMore = (Len(page.rows) > Take)
    BY DEF HasMore
  <2>2. HasMore => Len(page.rows) > Take
    BY <2>1
  <2>3. HasMore => Take \in 1..Len(page.rows)
    BY <1>3, <2>2
  <2>4. HasMore => page.rows[Take] \in 1..sequence
    <3>1. \A i \in 1..Len(page.rows) : page.rows[i] \in 1..sequence
      BY <1>4
    <3> QED
      BY <2>3, <3>1
  <2> QED
    BY <1>3, <2>1, <2>4
<1>6. /\ scroll'.state = IF HasMore THEN "ready" ELSE "end"
      /\ scroll'.cursor = IF HasMore THEN page.rows[Take] ELSE 0
      /\ scroll'.mark = scroll.mark /\ scroll'.total = page.total
      /\ scroll'.shown = scroll.shown \o Coming
      /\ scroll' = [state |-> IF HasMore THEN "ready" ELSE "end",
                    cursor |-> IF HasMore THEN page.rows[Take] ELSE 0,
                    mark |-> scroll.mark, total |-> page.total, shown |-> scroll.shown \o Coming]
  BY DEF ReceivePage, NextCursor, Coming, IInv, PageInv
<1>7. /\ scroll'.shown \in Seq(1..sequence) /\ Len(scroll'.shown) = k + c
      /\ DOMAIN scroll'.shown = 1..(k + c)
      /\ \A i \in 1..k : scroll'.shown[i] = scroll.shown[i]
      /\ \A i \in 1..(k + c) : i > k => i - k \in 1..c /\ scroll'.shown[i] = Coming[i - k]
      /\ \A i \in 1..c : scroll'.shown[k + i] = Coming[i]
  <2>1. /\ scroll.shown \o Coming \in Seq(1..sequence) /\ Len(scroll.shown \o Coming) = k + c
        /\ DOMAIN (scroll.shown \o Coming) = 1..(k + c)
        /\ \A i \in 1..k : (scroll.shown \o Coming)[i] = scroll.shown[i]
        /\ \A i \in 1..(k + c) : i > k => i - k \in 1..c /\ (scroll.shown \o Coming)[i] = Coming[i - k]
        /\ \A i \in 1..c : (scroll.shown \o Coming)[k + i] = Coming[i]
    <3>1. scroll.shown \in Seq(1..sequence) /\ Coming \in Seq(1..sequence)
      BY <1>3
    <3> QED
      BY <3>1, ConcatOf DEF k, c
  <2>2. scroll'.shown = scroll.shown \o Coming
    BY <1>6
  <2> QED
    BY <2>1, <2>2
<1>8. Shown' = Shown \union ToSet(Coming) /\ Rows' = {} /\ ToSet(Coming)' = {}
  <2>1. \A x : x \in Shown' <=> \E i \in 1..(k + c) : scroll'.shown[i] = x
    <3>1. Shown' = ToSet(scroll'.shown)
      BY DEF Shown, ToSet
    <3> QED
      BY <1>7, <3>1, ToSetOf
  <2>2. \A x \in Shown' : x \in Shown \/ x \in ToSet(Coming)
    <3> SUFFICES ASSUME NEW x \in Shown'
                 PROVE  x \in Shown \/ x \in ToSet(Coming)
      OBVIOUS
    <3>1. PICK i \in 1..(k + c) : scroll'.shown[i] = x
      BY <2>1
    <3>2. CASE i <= k
      <4>1. i \in 1..k
        BY <1>3, <1>5, <3>2
      <4>2. scroll.shown[i] = x
        BY <1>7, <3>1, <4>1
      <4> QED
        BY <1>4, <4>1, <4>2
    <3>3. CASE i > k
      BY <1>4, <1>7, <3>1, <3>3
    <3> QED
      BY <1>3, <3>2, <3>3
  <2>3. \A x \in Shown : x \in Shown'
    <3>1. \A i \in 1..k : i \in 1..(k + c)
      BY <1>3, <1>5
    <3> QED
      BY <1>4, <1>7, <2>1, <3>1
  <2>4. \A x \in ToSet(Coming) : x \in Shown'
    <3>1. \A i \in 1..c : k + i \in 1..(k + c)
      BY <1>3, <1>5
    <3> QED
      BY <1>4, <1>7, <2>1, <3>1
  <2>5. Rows' = {} /\ ToSet(Coming)' = {}
    <3>1. Take \in Nat /\ Len(page'.rows) = 0
      BY <1>1, <1>3
    <3>2. Coming' = <<>>
      BY <1>1, <3>1 DEF Coming, Cut
    <3>3. ToSet(<<>>) = {}
      BY DEF ToSet
    <3> QED
      BY <1>1, <3>2, <3>3 DEF Rows
  <2> QED
    BY <2>2, <2>3, <2>4, <2>5
<1>9. FreshInv'
  BY <1>1, <1>4, <1>8, ScrollKeepsFresh
<1>10. PageInv'
  <2>1. page' \in [rows : Seq(1..sequence), found : BOOLEAN, total : -1..sequence]
    BY <1>1, <1>2 DEF NoPage, IInv, DatesInv
  <2>2. Len(page'.rows) <= Take + 1
    BY <1>1, <1>3
  <2>3. scroll' \in [state : {"new", "asked", "ready", "end"}, cursor : 0..sequence,
                     mark : 0..clock, total : Int, shown : Seq(1..sequence)]
    <3>1. /\ scroll'.state \in {"new", "asked", "ready", "end"} /\ scroll'.cursor \in 0..sequence
          /\ scroll.mark \in 0..clock /\ page.total \in Int /\ sequence \in Nat
      BY <1>5, <1>6 DEF IInv, PageInv, DatesInv
    <3> QED
      BY <1>6, <1>7, <3>1
  <2>4. /\ scroll'.state \in {"ready", "end"}
        /\ scroll'.cursor = 0 => scroll'.state = "end"
    BY <1>5, <1>6
  <2> QED
    BY <1>1, <1>2, <2>1, <2>2, <2>3, <2>4 DEF PageInv
<1>11. UntouchedInv'
  <2> SUFFICES ASSUME NEW p \in atStart \ written
               PROVE  /\ p \in Existing
                      /\ ~lost => /\ HasMore => p \in Shown' \/ updatedAt[p] < scroll.mark
                                  /\ ~HasMore => p \in Shown'
    BY <1>1, <1>2, <1>6 DEF UntouchedInv
  <2> QED
    BY <1>1, <1>8 DEF IInv, UntouchedInv
<1>12. RepeatsInv'
  <2> SUFFICES ASSUME ~rewound
               PROVE  /\ \A p \in Shown' : p \in Existing \ sunk => updatedAt[p] >= scroll.mark
                      /\ \A i, j \in 1..(k + c) :
                           (i # j /\ scroll'.shown[i] = scroll'.shown[j]) => scroll'.shown[i] \in sunk
    <3>1. DOMAIN scroll'.shown = 1..(k + c)
      BY <1>7
    <3>2. DOMAIN page'.rows = {}
      BY <1>1
    <3>3. Shown' \union ToSet(Coming)' = Shown' /\ Shown' \intersect Rows' = {}
      BY <1>8
    <3>4. rewound' = rewound /\ scroll'.mark = scroll.mark /\ Existing' = Existing
          /\ sunk' = sunk /\ updatedAt' = updatedAt
      BY <1>1, <1>2, <1>6
    <3> QED
      BY <3>1, <3>2, <3>3, <3>4 DEF RepeatsInv
  <2>1. /\ \A p \in Shown \union ToSet(Coming) : p \in Existing \ sunk => updatedAt[p] >= scroll.mark
        /\ \A i, j \in 1..Len(page.rows) : page.rows[i] = page.rows[j] => i = j
        /\ Shown \cap Rows \subseteq sunk
        /\ \A i, j \in 1..k : (i # j /\ scroll.shown[i] = scroll.shown[j]) => scroll.shown[i] \in sunk
    BY <1>3 DEF IInv, RepeatsInv
  <2>2. ASSUME NEW i \in 1..(k + c), NEW j \in 1..(k + c), i < j, scroll'.shown[i] = scroll'.shown[j]
        PROVE  scroll'.shown[i] \in sunk
    <3>1. CASE j <= k
      <4>1. i \in 1..k /\ j \in 1..k /\ i # j
        BY <1>3, <1>5, <2>2, <3>1
      <4> QED
        BY <1>7, <2>1, <2>2, <4>1
    <3>2. CASE i <= k /\ j > k
      <4>1. i \in 1..k /\ scroll'.shown[i] \in Shown
        <5>1. i \in 1..k
          BY <1>3, <1>5, <3>2
        <5> QED
          BY <1>4, <1>7, <5>1
      <4>2. scroll'.shown[j] \in Rows
        BY <1>4, <1>7, <3>2
      <4> QED
        BY <2>1, <2>2, <4>1, <4>2
    <3>3. CASE i > k /\ j > k
      <4>1. i - k \in 1..c /\ j - k \in 1..c /\ Coming[i - k] = Coming[j - k]
        BY <1>7, <2>2, <3>3
      <4>2. i - k = j - k
        BY <1>3, <2>1, <4>1
      <4> QED
        BY <1>3, <1>5, <2>2, <4>2
    <3> QED
      BY <1>3, <1>5, <2>2, <3>1, <3>2, <3>3
  <2>3. ASSUME NEW i \in 1..(k + c), NEW j \in 1..(k + c), i # j, scroll'.shown[i] = scroll'.shown[j]
        PROVE  scroll'.shown[i] \in sunk
    <3>1. i < j \/ j < i
      BY <1>3, <1>5, <2>3
    <3> QED
      BY <2>2, <2>3, <3>1
  <2> QED
    BY <1>8, <2>1, <2>3
<1>13. QuietInv'
  <2> SUFFICES ASSUME written = {}
               PROVE  /\ k + c <= Len(List)
                      /\ \A i \in 1..(k + c) : scroll'.shown[i] = List[i]
                      /\ HasMore => k + c > 0 /\ page.rows[Take] = List[k + c]
                      /\ ~HasMore => k + c = Len(List) /\ page.total = Len(List)
    BY <1>1, <1>2, <1>6, <1>7 DEF QuietInv
  <2>1. /\ k <= Len(List)
        /\ \A i \in 1..k : scroll.shown[i] = List[i]
        /\ Len(page.rows) = IF Len(List) - k <= Take + 1 THEN Len(List) - k ELSE Take + 1
        /\ \A i \in 1..Len(page.rows) : page.rows[i] = List[k + i]
        /\ page.total = Len(List)
    BY <1>1, <1>3 DEF IInv, QuietInv, k
  <2>2. k + c <= Len(List) /\ (~HasMore => k + c = Len(List))
    <3>1. CASE HasMore
      <4>1. c = Take /\ Len(page.rows) > Take
        BY <1>3, <1>5, <3>1
      <4> QED
        BY <1>2, <1>3, <2>1, <3>1, <4>1
    <3>2. CASE ~HasMore
      <4>1. c = Len(page.rows) /\ ~(Len(page.rows) > Take)
        BY <1>3, <1>5, <3>2
      <4>2. /\ Take \in Nat /\ Len(page.rows) \in Nat /\ Len(List) \in Nat /\ k \in Nat
            /\ Len(page.rows) = IF Len(List) - k <= Take + 1 THEN Len(List) - k ELSE Take + 1
        BY <1>2, <1>3, <2>1
      <4>3. Len(page.rows) = Len(List) - k
        BY <4>1, <4>2
      <4> QED
        BY <4>1, <4>2, <4>3
    <3> QED
      BY <3>1, <3>2
  <2>3. ASSUME NEW i \in 1..(k + c)
        PROVE  scroll'.shown[i] = List[i]
    <3>1. CASE i <= k
      BY <1>3, <1>7, <2>1, <3>1
    <3>2. CASE i > k
      <4>1. i - k \in 1..c /\ scroll'.shown[i] = page.rows[i - k] /\ i - k \in 1..Len(page.rows)
        BY <1>3, <1>7, <3>2
      <4>2. page.rows[i - k] = List[k + (i - k)] /\ k + (i - k) = i
        BY <1>3, <1>5, <2>1, <4>1
      <4> QED
        BY <4>1, <4>2
    <3> QED
      BY <1>3, <1>5, <3>1, <3>2
  <2>4. ASSUME HasMore
        PROVE  k + c > 0 /\ page.rows[Take] = List[k + c]
    <3>1. c = Take /\ Len(page.rows) > Take
      BY <1>3, <1>5, <2>4
    <3>2. Take \in 1..Len(page.rows) /\ k + c > 0
      BY <1>3, <3>1
    <3> QED
      BY <2>1, <3>1, <3>2
  <2> QED
    BY <2>1, <2>2, <2>3, <2>4
<1> QED
  BY <1>2, <1>9, <1>10, <1>11, <1>12, <1>13 DEF IInv

-----------------------------------------------------------------------------
(* Theorems *)

LEMMA NextIInv == IInv /\ [Next]_vars => IInv'
<1> SUFFICES ASSUME IInv, [Next]_vars
             PROVE  IInv'
  OBVIOUS
<1>1. CASE UNCHANGED vars
  <2>1. UNCHANGED <<dbVars, page, scroll, historyVars>>
    BY <1>1 DEF vars
  <2>2. DatesInv' /\ WriterInv' /\ Existing' = Existing /\ List' = List
    BY <2>1, ScrollKeepsDates
  <2>3. Shown' = Shown /\ Rows' = Rows /\ ToSet(Coming)' = ToSet(Coming) /\ HasMore' = HasMore
    BY <2>1 DEF Shown, Rows, Coming, Cut, HasMore
  <2>4. FreshInv'
    BY <2>1, <2>3, ScrollKeepsFresh
  <2>5. PageInv'
    BY <2>1 DEF IInv, PageInv, dbVars, historyVars
  <2>6. UntouchedInv' /\ RepeatsInv'
    BY <2>1, <2>2, <2>3 DEF IInv, UntouchedInv, RepeatsInv, dbVars, historyVars
  <2>7. QuietInv'
    BY <2>1, <2>2 DEF IInv, QuietInv, historyVars
  <2> QED
    BY <2>2, <2>4, <2>5, <2>6, <2>7 DEF IInv
<1>2. ASSUME NEW w \in Writers, WriterStep(w)
      PROVE  IInv'
  <2>1. DatesInv' /\ WriterInv'
    BY <1>2, WriterKeepsDates
  <2>2. FreshInv'
    BY <1>2, WriterKeepsFresh
  <2>3. PageInv' /\ UntouchedInv' /\ RepeatsInv' /\ QuietInv'
    BY <1>2, WriterKeepsScroll
  <2> QED
    BY <2>1, <2>2, <2>3 DEF IInv
<1>3. CASE ScrollStep
  BY <1>3, AskPageKeeps, FindProjectsKeeps, CountProjectsKeeps, ReceivePageKeeps DEF ScrollStep
<1> QED
  BY <1>1, <1>2, <1>3 DEF Next

LEMMA AlwaysIInv == Spec => []IInv
<1>1. Init => IInv
  BY InitIInv
<1>2. IInv /\ [Next]_vars => IInv'
  BY NextIInv
<1> QED
  BY <1>1, <1>2, PTL DEF Spec

\* The rows of a page are at most one more than it shows, its total is a number of
\* projects that can exist, and dates and ids are ones that were given.
THEOREM TypeCorrect == Spec => []TypeOK
<1>1. IInv => TypeOK
  <2> SUFFICES ASSUME IInv
               PROVE  TypeOK
    OBVIOUS
  <2>1. Existing \subseteq 1..sequence /\ (\A p \in Existing : updatedAt[p] \in 1..clock) /\ writes \in 0..MaxWrites
    BY DEF IInv, DatesInv
  <2>2. \A w \in Writers :
           /\ writer[w].pc \in {"idle", "create", "owner-update", "update", "commit", "owner-delete", "delete"}
           /\ writer[w].p \in 0..sequence
           /\ writer[w].stamp \in 0..clock
    BY DEF IInv, WriterInv, Requests
  <2>3. /\ page.rows \in Seq(1..sequence) /\ Len(page.rows) <= Take + 1
        /\ page.total \in -1..sequence
        /\ scroll.state \in {"new", "asked", "ready", "end"}
        /\ scroll.cursor \in 0..sequence /\ scroll.mark \in 0..clock
        /\ scroll.shown \in Seq(1..sequence)
    BY DEF IInv, PageInv
  <2> QED
    BY <2>1, <2>2, <2>3 DEF TypeOK
<1> QED
  BY <1>1, AlwaysIInv, PTL

\* A client that has scrolled to the end has been shown every project that was there
\* from the first page on and that nobody wrote, whatever was created, updated and
\* deleted between two pages, unless the project its cursor named was deleted or
\* went back.
THEOREM UntouchedProjectsAreShown == Spec => []UntouchedAreShown
<1>1. IInv => UntouchedAreShown
  BY DEF IInv, UntouchedInv, UntouchedAreShown, AtEnd
<1> QED
  BY <1>1, AlwaysIInv, PTL

\* A project is shown twice only after a cursor went to the front, or when its own
\* date went back.
THEOREM RepeatsAreExplained == Spec => []RepeatsHaveACause
<1>1. IInv => RepeatsHaveACause
  BY Zenon DEF IInv, RepeatsInv, RepeatsHaveACause
<1> QED
  BY <1>1, AlwaysIInv, PTL

\* Pages of any length put together are the list, when nothing is written meanwhile:
\* none is missing, none is twice, and their order is that of the dates.
THEOREM QuietScrollIsComplete == Spec => []QuietScrollIsTheList
<1>1. IInv => QuietScrollIsTheList
  <2> SUFFICES ASSUME IInv, AtEnd, written = {}
               PROVE  scroll.shown = List /\ scroll.total = Len(scroll.shown)
    BY DEF QuietScrollIsTheList, List
  <2>1. /\ Len(scroll.shown) = Len(List) /\ scroll.total = Len(List)
        /\ \A i \in DOMAIN scroll.shown : scroll.shown[i] = List[i]
    BY DEF IInv, QuietInv, AtEnd
  <2>2. DOMAIN scroll.shown = 1..Len(scroll.shown) /\ scroll.shown = [i \in 1..Len(scroll.shown) |-> scroll.shown[i]]
    BY DEF IInv, PageInv
  <2>3. Keyed(Existing)
    <3>1. IsFiniteSet(1..sequence) /\ Existing \subseteq 1..sequence
      BY FS_Interval DEF IInv, DatesInv
    <3>2. IsFiniteSet(Existing)
      BY <3>1, FS_Subset
    <3> QED
      BY <3>2 DEF Keyed, IInv, DatesInv
  <2>4. List = [i \in 1..Len(List) |-> List[i]]
    BY <2>3, OrderedSorted DEF List, Sorted
  <2> QED
    BY <2>1, <2>2, <2>4
<1> QED
  BY <1>1, AlwaysIInv, PTL
=============================================================================
