----------------------------- MODULE Dashboard -----------------------------
(***************************************************************************)
(* The dashboard of one user: getProjectsDashboard of                      *)
(* services/projects.service.ts lists the projects page after page, the    *)
(* last updated first, while other requests of the same user create,       *)
(* update and delete projects.                                             *)
(*                                                                         *)
(* A page is three queries that run side by side, the projects, their      *)
(* number and the user's participants; the third is left out.  The cursor  *)
(* is the id of a project: the next page starts after the place that       *)
(* project has by then.  Prisma computes `updatedAt' when it builds a      *)
(* statement, so it is older than the commit that makes it visible.        *)
(***************************************************************************)
EXTENDS Integers, Sequences, FiniteSets, SequencesExt

CONSTANTS Take,        \* projects on a page: 5 in the code
          Initial,     \* number of projects at the beginning
          Writers,     \* requests that write, in flight together
          MaxWrites    \* bound: writes that are started

ASSUME BoundsAssumption == /\ Take \in Nat \ {0}
                           /\ Initial \in Nat
                           /\ MaxWrites \in Nat

VARIABLES updatedAt,  \* table project: updatedAt by id
          sequence,   \* the last id given
          clock,      \* Date.now(): the last time given
          writer,     \* the requests that write
          writes,     \* how many were started
          page,       \* the request for a page: its queries' results
          scroll,     \* the client: [state, cursor, mark, shown]
          atStart,    \* history: the projects when the first page was asked for
          written,    \* history: the projects written since
          sunk,       \* history: the projects whose updatedAt went back
          lost,       \* history: a cursor was deleted, or went back, under the client
          rewound     \* history: a cursor went to the front under the client

dbVars      == <<updatedAt, sequence, clock, writer, writes>>
historyVars == <<atStart, written, sunk, lost, rewound>>
vars        == <<dbVars, page, scroll, historyVars>>

Existing == DOMAIN updatedAt

Idle   == [pc |-> "idle", p |-> 0, stamp |-> 0]
NoPage == [rows |-> <<>>, found |-> FALSE, total |-> -1]

TypeOK ==
    /\ Existing \subseteq 1..sequence
    /\ \A p \in Existing : updatedAt[p] \in 1..clock
    /\ \A w \in Writers :
          /\ writer[w].pc \in {"idle", "create", "owner-update", "update", "commit", "owner-delete", "delete"}
          /\ writer[w].p \in 0..sequence
          /\ writer[w].stamp \in 0..clock
    /\ writes \in 0..MaxWrites
    /\ page.rows \in Seq(1..sequence) /\ Len(page.rows) <= Take + 1
    /\ page.total \in -1..sequence
    /\ scroll.state \in {"new", "asked", "ready", "end"}
    /\ scroll.cursor \in 0..sequence /\ scroll.mark \in 0..clock
    /\ scroll.shown \in Seq(1..sequence)

\* Projects that were updated one after the other.
Init == /\ updatedAt = [p \in 1..Initial |-> p]
        /\ sequence = Initial
        /\ clock = Initial
        /\ writer = [w \in Writers |-> Idle]
        /\ writes = 0
        /\ page = NoPage
        /\ scroll = [state |-> "new", cursor |-> 0, mark |-> 0, total |-> 0, shown |-> <<>>]
        /\ atStart = {}
        /\ written = {}
        /\ sunk = {}
        /\ lost = FALSE
        /\ rewound = FALSE

-----------------------------------------------------------------------------
(* Requests that write.  Only commits are visible to others. *)

Go(w, pc, p, stamp) == writer' = [writer EXCEPT ![w] = [pc |-> pc, p |-> p, stamp |-> stamp]]

Finish(w) == writer' = [writer EXCEPT ![w] = Idle]

Now == clock + 1

Ask(w, pc, p, stamp) == /\ writer[w].pc = "idle"
                        /\ writes < MaxWrites
                        /\ writes' = writes + 1
                        /\ Go(w, pc, p, stamp)
                        /\ UNCHANGED <<page, scroll, historyVars>>

\* The client of an update or a deletion has seen the project.
AskUpdate(w) == \E p \in Existing : Ask(w, "owner-update", p, 0) /\ UNCHANGED <<updatedAt, sequence, clock>>
AskDelete(w) == \E p \in Existing : Ask(w, "owner-delete", p, 0) /\ UNCHANGED <<updatedAt, sequence, clock>>

\* The first statement of createProject gives the id and the date; the budget and
\* the participants follow before the commit.
AskCreate(w) ==
    /\ Ask(w, "create", sequence + 1, Now)
    /\ sequence' = sequence + 1
    /\ clock' = Now
    /\ UNCHANGED updatedAt

Write(p) == written' = IF scroll.state = "new" THEN written ELSE written \union {p}

CommitCreate(w) ==
    /\ writer[w].pc = "create"
    /\ updatedAt' = [p \in Existing \union {writer[w].p} |->
                        IF p = writer[w].p THEN writer[w].stamp ELSE updatedAt[p]]
    /\ Write(writer[w].p)
    /\ Finish(w)
    /\ UNCHANGED <<sequence, clock, writes, page, scroll, atStart, sunk, lost, rewound>>

\* assertProjectOwner, a query of its own: 404 when the project is gone.
CheckOwner(w, from, to) ==
    /\ writer[w].pc = from
    /\ \/ writer[w].p \in Existing /\ Go(w, to, writer[w].p, 0)
       \/ writer[w].p \notin Existing /\ Finish(w)
    /\ UNCHANGED <<updatedAt, sequence, clock, writes, page, scroll, historyVars>>

\* tx.project.update is built, with its date.
StartUpdate(w) ==
    /\ writer[w].pc = "update"
    /\ clock' = Now
    /\ Go(w, "commit", writer[w].p, Now)
    /\ UNCHANGED <<updatedAt, sequence, writes, page, scroll, historyVars>>

\* It has got the row, the alerts are resolved, and the transaction commits; a
\* project deleted meanwhile is an error.
CommitUpdate(w) ==
    LET p == writer[w].p
        stamp == writer[w].stamp
    IN  /\ writer[w].pc = "commit"
        /\ \/ /\ p \in Existing
              /\ updatedAt' = [updatedAt EXCEPT ![p] = stamp]
              /\ sunk' = IF stamp < updatedAt[p] THEN sunk \union {p} ELSE sunk
              /\ Write(p)
           \/ p \notin Existing /\ UNCHANGED <<updatedAt, sunk, written>>
        /\ Finish(w)
        /\ UNCHANGED <<sequence, clock, writes, page, scroll, atStart, lost, rewound>>

Delete(w) ==
    LET p == writer[w].p
    IN  /\ writer[w].pc = "delete"
        /\ \/ /\ p \in Existing
              /\ updatedAt' = [q \in Existing \ {p} |-> updatedAt[q]]
              /\ Write(p)
           \/ p \notin Existing /\ UNCHANGED <<updatedAt, written>>
        /\ Finish(w)
        /\ UNCHANGED <<sequence, clock, writes, page, scroll, atStart, sunk, lost, rewound>>

WriterStep(w) == \/ AskUpdate(w)
                 \/ AskDelete(w)
                 \/ AskCreate(w)
                 \/ CommitCreate(w)
                 \/ CheckOwner(w, "owner-update", "update")
                 \/ CheckOwner(w, "owner-delete", "delete")
                 \/ StartUpdate(w)
                 \/ CommitUpdate(w)
                 \/ Delete(w)

-----------------------------------------------------------------------------
(* Pages *)

\* orderBy: { updatedAt: "desc" }; so many of S come before p.
Before(S, p) == Cardinality({q \in S : updatedAt[q] > updatedAt[p]})

Ordered(S) == [i \in 1..Cardinality(S) |-> CHOOSE p \in S : Before(S, p) = i - 1]

\* Faulty variant: take is forgotten.
CutNothing(s, n) == s

\* take, and slice: the first n.
Cut(s, n) == IF Len(s) <= n THEN s ELSE SubSeq(s, 1, n)

\* Faulty variant: skip is 1 for the first page too.
SkippingFirst(cursor) ==
    IF cursor = 0 THEN {p \in Existing : \E q \in Existing : updatedAt[q] > updatedAt[p]}
    ELSE IF cursor \notin Existing THEN {} ELSE {p \in Existing : updatedAt[p] < updatedAt[cursor]}

\* Faulty variant: the cursor itself is not skipped.
FromCursor(cursor) ==
    IF cursor = 0 THEN Existing
    ELSE IF cursor \notin Existing THEN {} ELSE {p \in Existing : updatedAt[p] <= updatedAt[cursor]}

\* cursor and skip: what follows the cursor, nothing when it is not there any more.
After(cursor) ==
    IF cursor = 0 THEN Existing
    ELSE IF cursor \notin Existing THEN {} ELSE {p \in Existing : updatedAt[p] < updatedAt[cursor]}

\* The client asks for the first page, or goes on from nextCursor.
AskPage ==
    /\ scroll.state \in {"new", "ready"}
    /\ scroll' = [scroll EXCEPT !.state = "asked"]
    /\ atStart' = IF scroll.state = "new" THEN Existing ELSE atStart
    /\ page' = NoPage
    /\ UNCHANGED <<dbVars, written, sunk, lost, rewound>>

\* One project more than a page has, to know whether there is another page.
FindProjects ==
    LET cursor == scroll.cursor
        list   == Ordered(After(cursor))
        next   == IF Len(list) > Take THEN list[Take] ELSE 0
    IN  /\ scroll.state = "asked" /\ ~page.found
        /\ page' = [page EXCEPT !.rows = Cut(list, Take + 1), !.found = TRUE]
        /\ lost' = (lost \/ (cursor # 0 /\ (cursor \in Existing => updatedAt[cursor] < scroll.mark)))
        /\ rewound' = (rewound \/ (cursor \in Existing /\ updatedAt[cursor] > scroll.mark))
        /\ scroll' = [scroll EXCEPT !.mark = IF next = 0 THEN 0 ELSE updatedAt[next]]
        /\ UNCHANGED <<dbVars, atStart, written, sunk>>

CountProjects ==
    /\ scroll.state = "asked" /\ page.total = -1
    /\ page' = [page EXCEPT !.total = Cardinality(Existing)]
    /\ UNCHANGED <<dbVars, scroll, historyVars>>

HasMore == Len(page.rows) > Take

\* Faulty variant: the cursor is the project that was read ahead.
NextCursorAhead == IF HasMore THEN page.rows[Take + 1] ELSE 0

NextCursor == IF HasMore THEN page.rows[Take] ELSE 0

\* Faulty variant: nextCursor is read from an empty page too, which throws, so that
\* the client gets no answer.
ReceiveUnlessEmpty ==
    /\ scroll.state = "asked" /\ page.found /\ page.total # -1
    /\ page.rows # <<>>
    /\ scroll' = [scroll EXCEPT
                    !.state = IF HasMore THEN "ready" ELSE "end",
                    !.cursor = NextCursor,
                    !.total = page.total,
                    !.shown = @ \o Cut(page.rows, Take)]
    /\ page' = NoPage
    /\ UNCHANGED <<dbVars, historyVars>>

\* The answer reaches the client, which adds the projects to those it shows.
ReceivePage ==
    /\ scroll.state = "asked" /\ page.found /\ page.total # -1
    /\ scroll' = [scroll EXCEPT
                    !.state = IF HasMore THEN "ready" ELSE "end",
                    !.cursor = NextCursor,
                    !.total = page.total,
                    !.shown = @ \o Cut(page.rows, Take)]
    /\ page' = NoPage
    /\ UNCHANGED <<dbVars, historyVars>>

ScrollStep == AskPage \/ FindProjects \/ CountProjects \/ ReceivePage

Next == ScrollStep \/ \E w \in Writers : WriterStep(w)

\* A client that scrolls to the end, and queries that are executed.
Spec == Init /\ [][Next]_vars /\ WF_vars(ScrollStep)

-----------------------------------------------------------------------------
(* Properties *)

AtEnd == scroll.state = "end"

Shown == ToSet(scroll.shown)

\* A project that is there during the whole scroll and that nobody writes is
\* shown, whatever happens to the others, unless the client was left with a
\* cursor that was deleted or whose date went back.
UntouchedAreShown == (AtEnd /\ ~lost) => (atStart \ written) \subseteq Shown

\* A project is shown twice only when a cursor went to the front meanwhile, so that
\* the list starts again, or when its own date went back.
RepeatsHaveACause ==
    \A i, k \in DOMAIN scroll.shown :
       (i # k /\ scroll.shown[i] = scroll.shown[k]) => rewound \/ scroll.shown[i] \in sunk

\* When nothing is written during the scroll, its pages are the list: every project
\* once, the last updated first, as many as each page announces.
QuietScrollIsTheList ==
    (AtEnd /\ written = {}) => scroll.shown = Ordered(Existing) /\ scroll.total = Len(scroll.shown)

\* The scroll comes to its end, since writes do at some time.
ScrollEnds == <>AtEnd
=============================================================================
