------------------------------ MODULE Sessions ------------------------------
(***************************************************************************)
(* The refresh-token sessions of the API: services/token.service.ts as it  *)
(* is driven by controllers/auth.controller.ts.                            *)
(*                                                                         *)
(* The table refresh_token is the set `live' of the tokens that have a row *)
(* and the column expiresAt.  A row is found by the hash of the raw token  *)
(* and deleted by its id; hashes and ids are one-to-one with raw tokens,   *)
(* so both are the token here.  A raw token carries 384 random bits: a new *)
(* token is one that was never issued.  The column appUserId is copied     *)
(* from row to row and compared with nothing, so it is left out.           *)
(*                                                                         *)
(* A request advances by one database call at a time, since every `await'  *)
(* lets the other requests run.  The two statements of the array           *)
(* transaction of rotateRefreshToken are one step: PostgreSQL shows        *)
(* neither before the commit, and a second DELETE of the same row waits    *)
(* for that commit and then finds nothing.                                 *)
(*                                                                         *)
(* root, exchangedFor and revoked are history variables: no guard of the   *)
(* program reads them.                                                     *)
(***************************************************************************)
EXTENDS Integers

CONSTANTS Tokens,     \* raw refresh tokens
          NoToken,    \* no cookie
          Clients,    \* browsers, each with one cookie jar for the API
          Tabs,       \* the requests one browser can have in flight
          TTL,        \* REFRESH_TOKEN_TTL_MS, in clock ticks
          MaxClock    \* bound: the clock stops there

ASSUME NoTokenAssumption == NoToken \notin Tokens
ASSUME ClockAssumption == TTL \in Nat /\ MaxClock \in Nat

VARIABLES clock,         \* Date.now(), in ticks
          live,          \* the tokens whose row is in refresh_token
          expiresAt,     \* column expiresAt of the row of a token
          req,           \* the requests being served
          jar,           \* jar[c]: the refreshToken cookie of browser c
          root,          \* root[t]: first token of the session t belongs to
          exchangedFor,  \* exchangedFor[t]: what refreshes presenting t obtained
          revoked        \* tokens whose logout ran its DELETE

database == <<live, expiresAt>>
history  == <<root, exchangedFor, revoked>>
vars     == <<clock, database, req, jar, history>>

Requests   == Clients \X Tabs
Client(r)  == r[1]
MaybeToken == Tokens \union {NoToken}

\* Where a request waits: for the INSERT of createRefreshToken ("open"), for
\* the SELECT, DELETE or transaction of rotateRefreshToken ("lookup",
\* "cleanup", "swap"), for the DELETE of revokeRefreshToken ("revoke"), or for
\* its answer to reach the browser ("setCookie", "clearCookie").
Points == {"idle", "open", "lookup", "cleanup", "swap", "revoke",
           "setCookie", "clearCookie"}

\* tok: the cookie it came with; out: the new token; exp: its expiry date.
RequestState == [pc : Points, tok : MaybeToken, out : MaybeToken, exp : Nat]

State(pc, tok, out, exp) == [pc |-> pc, tok |-> tok, out |-> out, exp |-> exp]

Idle == State("idle", NoToken, NoToken, 0)

\* The points where a request carries the cookie it came with.
Presenting == {"lookup", "cleanup", "swap", "revoke"}

\* Every variable has its type, and a request that is about to use a cookie has one.
TypeOK == /\ clock \in Nat
          /\ live \subseteq Tokens
          /\ expiresAt \in [Tokens -> Nat]
          /\ req \in [Requests -> RequestState]
          /\ \A r \in Requests : req[r].pc \in Presenting => req[r].tok # NoToken
          /\ jar \in [Clients -> MaybeToken]
          /\ root \in [Tokens -> MaybeToken]
          /\ exchangedFor \in [Tokens -> SUBSET Tokens]
          /\ revoked \subseteq Tokens

Init == /\ clock = 0
        /\ live = {}
        /\ expiresAt = [t \in Tokens |-> 0]
        /\ req = [r \in Requests |-> Idle]
        /\ jar = [c \in Clients |-> NoToken]
        /\ root = [t \in Tokens |-> NoToken]
        /\ exchangedFor = [t \in Tokens |-> {}]
        /\ revoked = {}

-----------------------------------------------------------------------------
Issued == {t \in Tokens : root[t] # NoToken}

\* Faulty variant: the sign of the offset is lost.
NewExpiryInThePast == clock - TTL

NewExpiry == clock + TTL

\* Faulty variants: the date is never looked at, or one tick early.
NeverExpired(t) == FALSE
ExpiredEarly(t) == expiresAt[t] <= clock

\* stored.expiresAt < new Date()
Expired(t) == expiresAt[t] < clock

\* findUnique returns the row; a DELETE by id has something to delete.
RowFound(t) == t \in live

Finish(r) == req' = [req EXCEPT ![r] = Idle]

AnswerWithToken(r, new) ==
    req' = [req EXCEPT ![r] = State("setCookie", NoToken, new, 0)]

-----------------------------------------------------------------------------
(* POST /login and /register: the credentials are settled, and             *)
(* createRefreshToken dates the token before it awaits its INSERT.         *)

StartSession(r) ==
    /\ req[r].pc = "idle"
    /\ req' = [req EXCEPT ![r] = State("open", NoToken, NoToken, NewExpiry)]
    /\ UNCHANGED <<clock, database, jar, history>>

CreateRefreshToken(r) ==
    /\ req[r].pc = "open"
    /\ \E new \in Tokens \ Issued :
          /\ live' = live \union {new}
          /\ expiresAt' = [expiresAt EXCEPT ![new] = req[r].exp]
          /\ root' = [root EXCEPT ![new] = new]
          /\ AnswerWithToken(r, new)
    /\ UNCHANGED <<clock, jar, exchangedFor, revoked>>

(* POST /refresh.  Without a cookie the answer is 401 and nothing changes. *)

StartRefresh(r) ==
    /\ req[r].pc = "idle"
    /\ jar[Client(r)] # NoToken
    /\ req' = [req EXCEPT ![r] = State("lookup", jar[Client(r)], NoToken, 0)]
    /\ UNCHANGED <<clock, database, jar, history>>

\* The SELECT and the synchronous code up to the next await.  A missing row
\* ends the request with a 401, which leaves the cookie as it is.
FindToken(r) ==
    /\ req[r].pc = "lookup"
    /\ \/ /\ ~RowFound(req[r].tok)
          /\ Finish(r)
       \/ /\ RowFound(req[r].tok)
          /\ Expired(req[r].tok)
          /\ req' = [req EXCEPT ![r] = State("cleanup", req[r].tok, NoToken, 0)]
       \/ /\ RowFound(req[r].tok)
          /\ ~Expired(req[r].tok)
          /\ req' = [req EXCEPT ![r] = State("swap", req[r].tok, NoToken, NewExpiry)]
    /\ UNCHANGED <<clock, database, jar, history>>

\* The dead row is deleted; 401, or 500 when another request deleted it first.
DeleteExpired(r) ==
    /\ req[r].pc = "cleanup"
    /\ live' = live \ {req[r].tok}
    /\ Finish(r)
    /\ UNCHANGED <<clock, expiresAt, jar, history>>

\* Faulty variant: deleteMany instead of delete, which is content with no row.
SwapTokensAnyway(r) ==
    /\ req[r].pc = "swap"
    /\ LET old == req[r].tok IN
       \E new \in Tokens \ Issued :
          /\ live' = (live \ {old}) \union {new}
          /\ expiresAt' = [expiresAt EXCEPT ![new] = req[r].exp]
          /\ root' = [root EXCEPT ![new] = root[old]]
          /\ exchangedFor' = [exchangedFor EXCEPT ![old] = @ \union {new}]
          /\ AnswerWithToken(r, new)
    /\ UNCHANGED <<clock, jar, revoked>>

\* Faulty variant: the new row is added and the old one stays.
SwapTokensKeepingOld(r) ==
    /\ req[r].pc = "swap"
    /\ RowFound(req[r].tok)
    /\ \E new \in Tokens \ Issued :
          /\ live' = live \union {new}
          /\ expiresAt' = [expiresAt EXCEPT ![new] = req[r].exp]
          /\ root' = [root EXCEPT ![new] = root[req[r].tok]]
          /\ exchangedFor' = [exchangedFor EXCEPT ![req[r].tok] = @ \union {new}]
          /\ AnswerWithToken(r, new)
    /\ UNCHANGED <<clock, jar, revoked>>

\* The transaction: when the DELETE finds no row it throws, the INSERT is
\* rolled back and the answer is 500.
SwapTokens(r) ==
    /\ req[r].pc = "swap"
    /\ LET old == req[r].tok IN
       \/ /\ ~RowFound(old)
          /\ Finish(r)
          /\ UNCHANGED <<database, root, exchangedFor>>
       \/ /\ RowFound(old)
          /\ \E new \in Tokens \ Issued :
                /\ live' = (live \ {old}) \union {new}
                /\ expiresAt' = [expiresAt EXCEPT ![new] = req[r].exp]
                /\ root' = [root EXCEPT ![new] = root[old]]
                /\ exchangedFor' = [exchangedFor EXCEPT ![old] = @ \union {new}]
                /\ AnswerWithToken(r, new)
    /\ UNCHANGED <<clock, jar, revoked>>

(* POST /logout.  Without a cookie the answer clears it all the same. *)

StartLogout(r) ==
    /\ req[r].pc = "idle"
    /\ \/ /\ jar[Client(r)] # NoToken
          /\ req' = [req EXCEPT ![r] = State("revoke", jar[Client(r)], NoToken, 0)]
       \/ /\ jar[Client(r)] = NoToken
          /\ req' = [req EXCEPT ![r] = State("clearCookie", NoToken, NoToken, 0)]
    /\ UNCHANGED <<clock, database, jar, history>>

\* Faulty variant: a logout that only forgets the cookie.
RevokeNothing(r) ==
    /\ req[r].pc = "revoke"
    /\ revoked' = revoked \union {req[r].tok}
    /\ req' = [req EXCEPT ![r] = State("clearCookie", NoToken, NoToken, 0)]
    /\ UNCHANGED <<clock, database, jar, root, exchangedFor>>

RevokeToken(r) ==
    /\ req[r].pc = "revoke"
    /\ live' = live \ {req[r].tok}
    /\ revoked' = revoked \union {req[r].tok}
    /\ req' = [req EXCEPT ![r] = State("clearCookie", NoToken, NoToken, 0)]
    /\ UNCHANGED <<clock, expiresAt, jar, root, exchangedFor>>

(* The answers reach the browser, or do not. *)

SetRefreshCookie(r) ==
    /\ req[r].pc = "setCookie"
    /\ jar' = [jar EXCEPT ![Client(r)] = req[r].out]
    /\ Finish(r)
    /\ UNCHANGED <<clock, database, history>>

ClearRefreshCookie(r) ==
    /\ req[r].pc = "clearCookie"
    /\ jar' = [jar EXCEPT ![Client(r)] = NoToken]
    /\ Finish(r)
    /\ UNCHANGED <<clock, database, history>>

\* A database call fails and changes nothing, the process dies, or the answer
\* is lost: whatever was committed stays, and the browser learns nothing.
Abort(r) ==
    /\ req[r].pc # "idle"
    /\ Finish(r)
    /\ UNCHANGED <<clock, database, jar, history>>

Tick == /\ clock < MaxClock
        /\ clock' = clock + 1
        /\ UNCHANGED <<database, req, jar, history>>

-----------------------------------------------------------------------------
RequestStep(r) == \/ StartSession(r)
                  \/ CreateRefreshToken(r)
                  \/ StartRefresh(r)
                  \/ FindToken(r)
                  \/ DeleteExpired(r)
                  \/ SwapTokens(r)
                  \/ StartLogout(r)
                  \/ RevokeToken(r)
                  \/ SetRefreshCookie(r)
                  \/ ClearRefreshCookie(r)
                  \/ Abort(r)

Next == Tick \/ \E r \in Requests : RequestStep(r)

Spec == Init /\ [][Next]_vars

-----------------------------------------------------------------------------
(* Properties *)

\* "Each refresh CONSUMES the presented token ... can only ever be used once":
\* however many requests present a token, at most one obtains a successor.
SingleUse == \A t \in Tokens : \A u, v \in exchangedFor[t] : u = v

\* "The old token must never remain valid alongside the new one": a session has
\* at most one row, at every moment of any interleaving of refreshes.
OneLivePerSession == \A t, u \in live : root[t] = root[u] => t = u

\* A session that is not refreshed within TTL of its last token is over: the
\* token obtained by a refresh, however long the refresh lingered between the
\* expiry check and the transaction, expires at most TTL after the one it replaced.
SlidingExpiry ==
    \A t \in Tokens : \A u \in exchangedFor[t] : expiresAt[u] <= expiresAt[t] + TTL

\* A session outlives the DELETE of a logout only when a refresh had already
\* exchanged the token that the logout presented.
LogoutSurvivedOnlyByRefresh ==
    \A t \in revoked : \A u \in live : root[u] = root[t] => exchangedFor[t] # {}

\* "Deleting the row kills the session server-side": after the DELETE of a
\* logout the session it belongs to has no row.
LogoutKillsSession == \A t \in revoked : \A u \in live : root[u] # root[t]

\* No step takes a row away except the refresh that hands out its successor, a
\* logout that presented the token, or the cleanup of a row past its date:
\* failed refreshes, aborted requests and losers of a race close no session.
NoSilentLoss ==
    [][\A t \in live \ live' : \/ exchangedFor'[t] # {}
                               \/ t \in revoked'
                               \/ expiresAt[t] < clock]_vars

\* Answers may arrive in any order, but the cookie of a browser never moves back
\* within a session: it goes from a token to the token it was exchanged for.
CookieMovesForward ==
    [][\A c \in Clients :
          LET old == jar[c]  new == jar'[c] IN
          (old # new /\ NoToken \notin {old, new} /\ root[old] = root[new])
             => new \in exchangedFor[old]]_vars

\* The store implements the abstract life of a session: opened once, one valid
\* token at a time, each renewal fresh, and closed for good once it has no row.
ValidTokens == [s \in Tokens |-> {t \in live : root[t] = s}]

Lifecycle == INSTANCE SessionLifecycle WITH valid <- ValidTokens, used <- Issued

ImplementsLifecycle == Lifecycle!Spec
=============================================================================
