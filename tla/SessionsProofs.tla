--------------------------- MODULE SessionsProofs ----------------------------
(***************************************************************************)
(* Theorems about Sessions, for every set of tokens, browsers and tabs and *)
(* every token lifetime.                                                   *)
(***************************************************************************)
EXTENDS Sessions, TLAPS

(***************************************************************************)
(* The inductive invariant.  SingleUse and OneLivePerSession are not       *)
(* inductive alone: a swap adds a successor and a row, so one must also    *)
(* know that a token with a row was never exchanged and that every issued  *)
(* token descends from an issued first token (or a fresh token could be    *)
(* taken for the root of an older session).                                *)
(***************************************************************************)
LiveIssued      == live \subseteq Issued
LiveUnexchanged == \A t \in live : exchangedFor[t] = {}
RootIssued      == \A t \in Issued : root[t] \in Issued
SuccessorIssued == \A t \in Tokens : exchangedFor[t] \subseteq Issued

ExchangedIssued == \A t \in Tokens : exchangedFor[t] # {} => t \in Issued

SessionInv == /\ TypeOK
              /\ LiveIssued
              /\ LiveUnexchanged
              /\ RootIssued
              /\ SuccessorIssued
              /\ ExchangedIssued
              /\ SingleUse
              /\ OneLivePerSession

-----------------------------------------------------------------------------
(* What a step of a request does to the database is one of four things.    *)

Kept == UNCHANGED <<live, expiresAt, root, exchangedFor>>

Removed(tok) == /\ live' = live \ {tok}
                /\ UNCHANGED <<expiresAt, root, exchangedFor>>

Opened(new, exp) == /\ new \in Tokens \ Issued
                    /\ live' = live \union {new}
                    /\ expiresAt' = [expiresAt EXCEPT ![new] = exp]
                    /\ root' = [root EXCEPT ![new] = new]
                    /\ UNCHANGED exchangedFor

Swapped(old, new, exp) ==
    /\ \E r \in Requests : req[r].pc = "swap" /\ req[r].tok = old /\ req[r].exp = exp
    /\ old \in live
    /\ new \in Tokens \ Issued
    /\ live' = (live \ {old}) \union {new}
    /\ expiresAt' = [expiresAt EXCEPT ![new] = exp]
    /\ root' = [root EXCEPT ![new] = root[old]]
    /\ exchangedFor' = [exchangedFor EXCEPT ![old] = @ \union {new}]

\* TypeOK holds initially and is kept by every step of the program.
LEMMA TypeInit == Init => TypeOK
BY NoTokenAssumption DEF Init, TypeOK, MaybeToken, RequestState, Points, Idle, State, Presenting

\* Every step of a request, a tick of the clock and a stutter keep the types.
LEMMA TypeStep == TypeOK /\ [Next]_vars => TypeOK'
<1> SUFFICES ASSUME TypeOK, [Next]_vars PROVE TypeOK'
  OBVIOUS
<1> USE DEF TypeOK, MaybeToken
<1>1. CASE Tick
  BY <1>1 DEF Tick, database, history
<1>2. ASSUME NEW r \in Requests, RequestStep(r) PROVE TypeOK'
  <2>0. /\ req[r].tok \in MaybeToken /\ req[r].out \in MaybeToken /\ req[r].exp \in Nat
        /\ Client(r) \in Clients /\ jar[Client(r)] \in MaybeToken
        /\ NewExpiry \in Nat
    BY ClockAssumption DEF RequestState, Requests, Client, NewExpiry
  \* A request moves to a point with a cookie exactly where it needs one.
  <2>a. ASSUME NEW pc \in Points, NEW tok \in MaybeToken, NEW out \in MaybeToken,
               NEW exp \in Nat,
               pc \in Presenting => tok # NoToken,
               req' = [req EXCEPT ![r] = State(pc, tok, out, exp)]
        PROVE  /\ req' \in [Requests -> RequestState]
               /\ \A q \in Requests : req'[q].pc \in Presenting => req'[q].tok # NoToken
    BY <2>a DEF State, RequestState
  <2>b. ASSUME Finish(r)
        PROVE  /\ req' \in [Requests -> RequestState]
               /\ \A q \in Requests : req'[q].pc \in Presenting => req'[q].tok # NoToken
    BY <2>a, <2>b DEF Finish, Idle, Points, Presenting
  <2>c. ASSUME NEW new \in Tokens, AnswerWithToken(r, new)
        PROVE  /\ req' \in [Requests -> RequestState]
               /\ \A q \in Requests : req'[q].pc \in Presenting => req'[q].tok # NoToken
    BY <2>a, <2>c DEF AnswerWithToken, Points, Presenting
  <2>1. CASE StartSession(r)
    BY <2>0, <2>1, <2>a DEF StartSession, database, history, Points, Presenting
  <2>2. CASE CreateRefreshToken(r)
    BY <2>0, <2>2, <2>c DEF CreateRefreshToken, Issued
  <2>3. CASE StartRefresh(r)
    BY <2>0, <2>3, <2>a DEF StartRefresh, database, history, Points, Presenting
  <2>4. CASE FindToken(r)
    <3> req[r].tok # NoToken
      BY <2>4 DEF FindToken, Presenting
    <3>1. CASE Finish(r)
      BY <2>4, <2>b, <3>1 DEF FindToken, database, history
    <3>2. CASE req' = [req EXCEPT ![r] = State("cleanup", req[r].tok, NoToken, 0)]
      BY <2>0, <2>4, <2>a, <3>2 DEF FindToken, database, history, Points
    <3>3. CASE req' = [req EXCEPT ![r] = State("swap", req[r].tok, NoToken, NewExpiry)]
      BY <2>0, <2>4, <2>a, <3>3 DEF FindToken, database, history, Points
    <3> QED
      BY <2>4, <3>1, <3>2, <3>3 DEF FindToken
  <2>5. CASE DeleteExpired(r)
    BY <2>5, <2>b DEF DeleteExpired, history
  <2>6. CASE SwapTokens(r)
    <3>1. CASE ~RowFound(req[r].tok)
      BY <2>6, <2>b, <3>1 DEF SwapTokens, database
    <3>2. CASE RowFound(req[r].tok)
      <4> PICK new \in Tokens \ Issued :
            /\ live' = (live \ {req[r].tok}) \union {new}
            /\ expiresAt' = [expiresAt EXCEPT ![new] = req[r].exp]
            /\ root' = [root EXCEPT ![new] = root[req[r].tok]]
            /\ exchangedFor' = [exchangedFor EXCEPT ![req[r].tok] = @ \union {new}]
            /\ AnswerWithToken(r, new)
        BY <2>6, <3>2 DEF SwapTokens
      <4> req[r].tok \in Tokens
        BY <3>2 DEF RowFound
      <4> QED
        BY <2>0, <2>6, <2>c DEF SwapTokens
    <3> QED
      BY <3>1, <3>2
  <2>7. CASE StartLogout(r)
    <3>1. CASE jar[Client(r)] # NoToken
      BY <2>0, <2>7, <2>a, <3>1 DEF StartLogout, database, history, Points
    <3>2. CASE jar[Client(r)] = NoToken
      <4> /\ req' = [req EXCEPT ![r] = State("clearCookie", NoToken, NoToken, 0)]
          /\ UNCHANGED <<clock, database, jar, history>>
        BY <2>7, <3>2 DEF StartLogout
      <4> QED
        BY <2>a DEF database, history, Points, Presenting
    <3> QED
      BY <3>1, <3>2
  <2>8. CASE RevokeToken(r)
    <3> req[r].tok \in Tokens
      BY <2>0, <2>8 DEF RevokeToken, Presenting
    <3> QED
      BY <2>8, <2>a DEF RevokeToken, Points, Presenting
  <2>9. CASE SetRefreshCookie(r)
    BY <2>0, <2>9, <2>b DEF SetRefreshCookie, database, history
  <2>10. CASE ClearRefreshCookie(r)
    BY <2>0, <2>10, <2>b DEF ClearRefreshCookie, database, history
  <2>11. CASE Abort(r)
    BY <2>11, <2>b DEF Abort, database, history
  <2> QED
    BY <1>2, <2>1, <2>2, <2>3, <2>4, <2>5, <2>6, <2>7, <2>8, <2>9, <2>10, <2>11
    DEF RequestStep
<1>3. CASE UNCHANGED vars
  BY <1>3 DEF vars, database, history
<1> QED
  BY <1>1, <1>2, <1>3 DEF Next

\* The program never reaches a state outside its types.
THEOREM TypeCorrect == Spec => []TypeOK
BY TypeInit, TypeStep, PTL DEF Spec

-----------------------------------------------------------------------------
\* A step of the program keeps the rows, removes one, opens a session or swaps.
LEMMA StepKinds ==
    ASSUME TypeOK, [Next]_vars
    PROVE  \/ Kept
           \/ \E tok \in Tokens : Removed(tok)
           \/ \E new \in Tokens, exp \in Nat : Opened(new, exp)
           \/ \E old, new \in Tokens, exp \in Nat : Swapped(old, new, exp)
<1> USE DEF TypeOK
<1>1. CASE Tick
  BY <1>1 DEF Tick, database, history, Kept
<1>2. ASSUME NEW r \in Requests, RequestStep(r)
      PROVE  \/ Kept
             \/ \E tok \in Tokens : Removed(tok)
             \/ \E new \in Tokens, exp \in Nat : Opened(new, exp)
             \/ \E old, new \in Tokens, exp \in Nat : Swapped(old, new, exp)
  <2>0. /\ req[r].exp \in Nat
        /\ req[r].pc \in Presenting => req[r].tok \in Tokens
    BY DEF RequestState, MaybeToken
  <2>1. CASE \/ StartSession(r) \/ StartRefresh(r) \/ FindToken(r) \/ StartLogout(r)
             \/ SetRefreshCookie(r) \/ ClearRefreshCookie(r) \/ Abort(r)
    BY <2>1 DEF StartSession, StartRefresh, FindToken, StartLogout, SetRefreshCookie,
                ClearRefreshCookie, Abort, database, history, Kept
  <2>2. CASE CreateRefreshToken(r)
    BY <2>0, <2>2 DEF CreateRefreshToken, Opened
  <2>3. CASE DeleteExpired(r)
    BY <2>0, <2>3 DEF DeleteExpired, Presenting, history, Removed
  <2>4. CASE SwapTokens(r)
    BY <2>0, <2>4 DEF SwapTokens, RowFound, Presenting, database, Kept, Swapped
  <2>5. CASE RevokeToken(r)
    BY <2>0, <2>5 DEF RevokeToken, Presenting, Removed
  <2> QED
    BY <1>2, <2>1, <2>2, <2>3, <2>4, <2>5 DEF RequestStep
<1>3. CASE UNCHANGED vars
  BY <1>3 DEF vars, database, history, Kept
<1> QED
  BY <1>1, <1>2, <1>3 DEF Next

\* The inductive invariant holds before the first request.
LEMMA SessionInvInit == Init => SessionInv
BY TypeInit DEF Init, SessionInv, LiveIssued, LiveUnexchanged, RootIssued, SuccessorIssued,
                ExchangedIssued, SingleUse, OneLivePerSession, Issued

\* Each kind of step keeps the inductive invariant: what matters is which row and
\* which successor it adds.
LEMMA SessionInvStep == SessionInv /\ [Next]_vars => SessionInv'
<1> SUFFICES ASSUME SessionInv, [Next]_vars PROVE SessionInv'
  OBVIOUS
<1>0. TypeOK /\ TypeOK'
  BY TypeStep DEF SessionInv
<1>s. Issued \subseteq Tokens
  BY DEF Issued
<1> USE NoTokenAssumption, <1>0
    DEF TypeOK, MaybeToken, SessionInv, LiveIssued, LiveUnexchanged, RootIssued,
        SuccessorIssued, ExchangedIssued, SingleUse, OneLivePerSession
<1>1. CASE Kept
  BY <1>1 DEF Kept, Issued
<1>2. ASSUME NEW tok \in Tokens, Removed(tok) PROVE SessionInv'
  BY <1>2 DEF Removed, Issued
<1>3. ASSUME NEW new \in Tokens, NEW exp \in Nat, Opened(new, exp) PROVE SessionInv'
  <2>1. Issued' = Issued \union {new}
    BY <1>3 DEF Opened, Issued
  <2>2. /\ new \notin Issued
        /\ exchangedFor' = exchangedFor
        /\ live' = live \union {new}
        /\ \A t \in Tokens : root'[t] = IF t = new THEN new ELSE root[t]
    BY <1>3 DEF Opened
  <2>3. exchangedFor[new] = {}
    BY <2>2
  <2>4. \A t \in live : root[t] # new
    BY <2>2
  <2>5. RootIssued' /\ LiveIssued' /\ SuccessorIssued' /\ ExchangedIssued'
    BY <1>s, <2>1, <2>2
  <2>6. LiveUnexchanged' /\ SingleUse'
    BY <2>2, <2>3
  <2>7. OneLivePerSession'
    BY <2>2, <2>4
  <2> QED
    BY <2>5, <2>6, <2>7
<1>4. ASSUME NEW old \in Tokens, NEW new \in Tokens, NEW exp \in Nat, Swapped(old, new, exp)
      PROVE  SessionInv'
  <2>1. Issued' = Issued \union {new}
    BY <1>4 DEF Swapped, Issued
  <2>2. /\ old \in live /\ old \in Issued /\ new \notin Issued /\ new # old
        /\ live' = (live \ {old}) \union {new}
        /\ \A t \in Tokens : root'[t] = IF t = new THEN root[old] ELSE root[t]
    BY <1>4 DEF Swapped
  <2>3. /\ exchangedFor[old] = {} /\ exchangedFor[new] = {}
        /\ \A t \in Tokens : exchangedFor'[t] = IF t = old THEN {new} ELSE exchangedFor[t]
    <3>1. exchangedFor[old] = {} /\ exchangedFor[new] = {}
      BY <2>2
    <3> QED
      BY <1>4, <3>1 DEF Swapped
  <2>4. \A t \in live \ {old} : root[t] # root[old]
    BY <2>2
  <2>5. RootIssued' /\ LiveIssued' /\ SuccessorIssued' /\ ExchangedIssued'
    BY <1>s, <2>1, <2>2, <2>3
  <2>6. LiveUnexchanged' /\ SingleUse'
    BY <2>2, <2>3
  <2>7. OneLivePerSession'
    BY <2>2, <2>4
  <2> QED
    BY <2>5, <2>6, <2>7
<1> QED
  BY StepKinds, <1>1, <1>2, <1>3, <1>4

\* The inductive invariant holds in every state the program reaches.
LEMMA SessionInvariant == Spec => []SessionInv
BY SessionInvInit, SessionInvStep, PTL DEF Spec

\* Every refresh token is exchanged at most once, whatever the interleaving of
\* the requests that present it.
THEOREM TokensAreSingleUse == Spec => []SingleUse
<1>1. SessionInv => SingleUse
  BY DEF SessionInv
<1> QED
  BY <1>1, SessionInvariant, PTL

\* A session never has two valid tokens.
THEOREM OneRowPerSession == Spec => []OneLivePerSession
<1>1. SessionInv => OneLivePerSession
  BY DEF SessionInv
<1> QED
  BY <1>1, SessionInvariant, PTL

-----------------------------------------------------------------------------
\* The token store implements the abstract life of a session: a session without
\* a row never gets one again, and a renewal replaces its only valid token.
THEOREM StoreImplementsLifecycle == Spec => ImplementsLifecycle
<1>1. Init => Lifecycle!Init
  BY NoTokenAssumption DEF Init, Lifecycle!Init, ValidTokens, Issued
<1>2. SessionInv /\ [Next]_vars => [Lifecycle!Next]_Lifecycle!vars
  <2> SUFFICES ASSUME SessionInv, [Next]_vars PROVE [Lifecycle!Next]_Lifecycle!vars
    OBVIOUS
  <2>0. TypeOK /\ TypeOK'
    BY TypeStep DEF SessionInv
  <2> USE NoTokenAssumption, <2>0
      DEF TypeOK, MaybeToken, SessionInv, LiveIssued, RootIssued, OneLivePerSession
  <2>1. CASE Kept
    BY <2>1 DEF Kept, Lifecycle!vars, ValidTokens, Issued
  <2>2. ASSUME NEW tok \in Tokens, Removed(tok) PROVE [Lifecycle!Next]_Lifecycle!vars
    <3>1. CASE tok \notin live
      <4>1. live' = live /\ root' = root
        BY <2>2, <3>1 DEF Removed
      <4> QED
        BY <4>1 DEF Lifecycle!vars, ValidTokens, Issued
    <3>2. CASE tok \in live
      <4>1. root[tok] \in Tokens /\ Issued' = Issued
        BY <2>2, <3>2 DEF Removed, Issued
      <4>2. \A s \in Tokens :
              ValidTokens'[s] = IF s = root[tok] THEN {} ELSE ValidTokens[s]
        BY <2>2, <3>2 DEF Removed, ValidTokens
      <4>3. ValidTokens' = [ValidTokens EXCEPT ![root[tok]] = {}]
        BY <4>2 DEF ValidTokens
      <4>4. ValidTokens[root[tok]] # {}
        BY <3>2, <4>1 DEF ValidTokens
      <4> QED
        BY <4>1, <4>3, <4>4 DEF Lifecycle!Next, Lifecycle!Close
    <3> QED
      BY <3>1, <3>2
  <2>3. ASSUME NEW new \in Tokens, NEW exp \in Nat, Opened(new, exp)
        PROVE  [Lifecycle!Next]_Lifecycle!vars
    <3>1. new \notin Issued /\ Issued' = Issued \union {new}
      BY <2>3 DEF Opened, Issued
    <3>2. /\ live' = live \union {new}
          /\ \A t \in Tokens : root'[t] = IF t = new THEN new ELSE root[t]
      BY <2>3 DEF Opened
    <3>3. \A t \in live : root[t] # new /\ t # new
      BY <3>1
    <3>4. \A s \in Tokens : ValidTokens'[s] = IF s = new THEN {new} ELSE ValidTokens[s]
      BY <3>2, <3>3 DEF ValidTokens
    <3>5. ValidTokens' = [ValidTokens EXCEPT ![new] = {new}]
      BY <3>4 DEF ValidTokens
    <3> QED
      BY <3>1, <3>5 DEF Lifecycle!Next, Lifecycle!Open
  <2>4. ASSUME NEW old \in Tokens, NEW new \in Tokens, NEW exp \in Nat, Swapped(old, new, exp)
        PROVE  [Lifecycle!Next]_Lifecycle!vars
    <3>1. /\ old \in live /\ new \notin Issued /\ new \notin live
          /\ Issued' = Issued \union {new}
      BY <2>4 DEF Swapped, Issued
    <3>2. /\ live' = (live \ {old}) \union {new}
          /\ \A t \in Tokens : root'[t] = IF t = new THEN root[old] ELSE root[t]
      BY <2>4 DEF Swapped
    <3>3. root[old] \in Tokens
      BY <3>1 DEF Issued
    <3>4. ValidTokens[root[old]] = {old}
      BY <3>1, <3>3 DEF ValidTokens
    <3>5. \A s \in Tokens :
            ValidTokens'[s] = IF s = root[old] THEN {new} ELSE ValidTokens[s]
      BY <3>1, <3>2 DEF ValidTokens
    <3>6. ValidTokens' = [ValidTokens EXCEPT ![root[old]] = {new}]
      BY <3>5 DEF ValidTokens
    <3> QED
      BY <3>1, <3>3, <3>4, <3>6 DEF Lifecycle!Next, Lifecycle!Renew
  <2> QED
    BY StepKinds, <2>1, <2>2, <2>3, <2>4
<1> QED
  BY <1>1, <1>2, SessionInvariant, PTL DEF Spec, ImplementsLifecycle, Lifecycle!Spec

-----------------------------------------------------------------------------
(***************************************************************************)
(* What requests and browsers hold against what the database holds: the    *)
(* expiry dates, the logouts and the rows that disappear.                  *)
(***************************************************************************)

(***************************************************************************)
(* A request works on what it read before its last await.  What it read    *)
(* is still good enough when it is used: the token it presents was issued, *)
(* the date of the token it is about to insert fits the one it replaces,   *)
(* and the row it is about to clean up is past its date.  Rows keep their  *)
(* dates and the clock never goes back, which is why.                      *)
(***************************************************************************)
Sound(r) == /\ req[r].pc \in Presenting => req[r].tok \in Issued
            /\ req[r].pc = "setCookie" => req[r].out \in Issued
            /\ req[r].pc = "swap" => req[r].exp <= expiresAt[req[r].tok] + TTL
            /\ req[r].pc = "cleanup" => expiresAt[req[r].tok] < clock

RequestsSound == \A r \in Requests : Sound(r)
CookiesIssued == \A c \in Clients : jar[c] # NoToken => jar[c] \in Issued

\* A token that was never exchanged is the last of its session: while the session
\* has a row, the row is its own.
LastToken == \A t \in Issued : \A u \in live :
                root[t] = root[u] /\ exchangedFor[t] = {} => t = u

RevokedClosed == revoked \subseteq Issued \ live

CookieInv == /\ SessionInv
             /\ RequestsSound
             /\ CookiesIssued
             /\ SlidingExpiry
             /\ LastToken
             /\ RevokedClosed

-----------------------------------------------------------------------------
\* What is issued stays issued, keeps its date and its session; time moves on.
LEMMA IssuedSteady ==
    ASSUME SessionInv, [Next]_vars
    PROVE  /\ Issued \subseteq Issued'
           /\ \A t \in Issued : expiresAt'[t] = expiresAt[t] /\ root'[t] = root[t]
           /\ clock <= clock'
<1>0. TypeOK
  BY DEF SessionInv
<1>1. clock <= clock'
  BY <1>0 DEF TypeOK, Next, Tick, RequestStep, StartSession, CreateRefreshToken, StartRefresh,
              FindToken, DeleteExpired, SwapTokens, StartLogout, RevokeToken,
              SetRefreshCookie, ClearRefreshCookie, Abort, vars
<1> USE <1>0 DEF TypeOK, Issued
<1>2. CASE Kept
  BY <1>1, <1>2 DEF Kept
<1>3. ASSUME NEW tok \in Tokens, Removed(tok)
      PROVE  /\ Issued \subseteq Issued'
             /\ \A t \in Issued : expiresAt'[t] = expiresAt[t] /\ root'[t] = root[t]
  BY <1>3 DEF Removed
<1>4. ASSUME NEW new \in Tokens, NEW exp \in Nat, Opened(new, exp)
      PROVE  /\ Issued \subseteq Issued'
             /\ \A t \in Issued : expiresAt'[t] = expiresAt[t] /\ root'[t] = root[t]
  BY <1>4 DEF Opened
<1>5. ASSUME NEW old \in Tokens, NEW new \in Tokens, NEW exp \in Nat, Swapped(old, new, exp)
      PROVE  /\ Issued \subseteq Issued'
             /\ \A t \in Issued : expiresAt'[t] = expiresAt[t] /\ root'[t] = root[t]
  BY <1>5 DEF Swapped
<1> QED
  BY <1>1, <1>2, <1>3, <1>4, <1>5, StepKinds

\* Requests stay sound: those that do not move because what they hold is issued,
\* the one that moves by the check it has just made.
LEMMA SoundStep ==
    ASSUME SessionInv, RequestsSound, CookiesIssued, [Next]_vars
    PROVE  RequestsSound' /\ CookiesIssued'
<1>0. TypeOK /\ TypeOK'
  BY TypeStep DEF SessionInv
<1>s. /\ Issued \subseteq Issued' /\ Issued \subseteq Tokens
      /\ \A t \in Issued : expiresAt'[t] = expiresAt[t]
      /\ clock <= clock'
      /\ clock \in Nat /\ clock' \in Nat
  BY IssuedSteady, <1>0 DEF TypeOK, Issued
\* Whatever happens, a request that stays as it is stays sound.
<1>r. ASSUME NEW q \in Requests, req'[q] = req[q]
      PROVE  Sound(q)'
  <2>1. Sound(q)
    BY DEF RequestsSound
  <2>2. req[q].pc \in {"swap", "cleanup"} => expiresAt[req[q].tok] \in Nat
    BY <2>1, <1>0, <1>s DEF Sound, TypeOK, Presenting
  <2> QED
    BY <1>r, <1>s, <2>1, <2>2 DEF Sound, Presenting
<1>j. ASSUME jar' = jar
      PROVE  CookiesIssued'
  BY <1>j, <1>s DEF CookiesIssued
<1>1. CASE req' = req /\ jar' = jar
  BY <1>1, <1>r, <1>j DEF RequestsSound
<1>2. ASSUME NEW r \in Requests, RequestStep(r)
      PROVE  RequestsSound' /\ CookiesIssued'
  <2> USE <1>0, <1>s DEF TypeOK, MaybeToken
  <2>0. /\ Sound(r) /\ req[r] \in RequestState
        /\ Client(r) \in Clients
        /\ jar[Client(r)] # NoToken => jar[Client(r)] \in Issued
    BY DEF RequestsSound, CookiesIssued, Requests, Client
  <2>a. ASSUME NEW s, req' = [req EXCEPT ![r] = s]
        PROVE  /\ req'[r] = s
               /\ Sound(r)' => RequestsSound'
    BY <2>a, <1>r DEF RequestsSound
  <2>b. ASSUME Finish(r)
        PROVE  RequestsSound'
    <3>1. req'[r] = Idle
      BY <2>a, <2>b DEF Finish
    <3> QED
      BY <2>a, <2>b, <3>1 DEF Finish, Sound, Idle, State, Presenting
  <2>c. ASSUME NEW new \in Issued', AnswerWithToken(r, new)
        PROVE  RequestsSound'
    BY <2>a, <2>c DEF AnswerWithToken, Sound, State, Presenting
  <2>1. CASE StartSession(r)
    BY <2>1, <2>a, <1>j DEF StartSession, Sound, State, Presenting
  <2>2. CASE CreateRefreshToken(r)
    <3> PICK new \in Tokens \ Issued : /\ root' = [root EXCEPT ![new] = new]
                                       /\ AnswerWithToken(r, new)
      BY <2>2 DEF CreateRefreshToken
    <3>1. new \in Issued'
      BY NoTokenAssumption DEF Issued
    <3> QED
      BY <2>2, <2>c, <3>1, <1>j DEF CreateRefreshToken
  <2>3. CASE StartRefresh(r)
    BY <2>0, <2>3, <2>a, <1>j DEF StartRefresh, Sound, State, Presenting
  <2>4. CASE FindToken(r)
    <3> DEFINE tok == req[r].tok
    <3>0. /\ tok \in Issued /\ jar' = jar /\ clock' = clock /\ expiresAt' = expiresAt
          /\ expiresAt[tok] \in Nat
      BY <2>0, <2>4 DEF FindToken, Sound, Presenting, database
    <3>1. CASE Finish(r)
      BY <2>b, <3>0, <3>1, <1>j
    <3>2. CASE Expired(tok) /\ req' = [req EXCEPT ![r] = State("cleanup", tok, NoToken, 0)]
      BY <2>a, <3>0, <3>2, <1>j DEF Expired, Sound, State, Presenting
    <3>3. CASE ~Expired(tok) /\ req' = [req EXCEPT ![r] = State("swap", tok, NoToken, NewExpiry)]
      <4>1. NewExpiry <= expiresAt[tok] + TTL
        BY <3>0, <3>3, ClockAssumption DEF Expired, NewExpiry
      <4> QED
        BY <2>a, <3>0, <3>3, <4>1, <1>j DEF Sound, State, Presenting
    <3> QED
      BY <2>4, <3>1, <3>2, <3>3 DEF FindToken
  <2>5. CASE DeleteExpired(r)
    BY <2>5, <2>b, <1>j DEF DeleteExpired
  <2>6. CASE SwapTokens(r)
    <3>1. CASE Finish(r)
      BY <2>6, <2>b, <3>1, <1>j DEF SwapTokens
    <3>2. CASE ~Finish(r)
      <4> PICK new \in Tokens \ Issued : /\ root' = [root EXCEPT ![new] = root[req[r].tok]]
                                         /\ req[r].tok \in live
                                         /\ AnswerWithToken(r, new)
        BY <2>6, <3>2 DEF SwapTokens, RowFound
      <4>1. new \in Issued'
        BY DEF Issued, SessionInv, LiveIssued
      <4> QED
        BY <2>6, <2>c, <4>1, <1>j DEF SwapTokens
    <3> QED
      BY <3>1, <3>2
  <2>7. CASE StartLogout(r)
    BY <2>0, <2>7, <2>a, <1>j DEF StartLogout, Sound, State, Presenting
  <2>8. CASE RevokeToken(r)
    BY <2>8, <2>a, <1>j DEF RevokeToken, Sound, State, Presenting
  <2>9. CASE SetRefreshCookie(r)
    <3>1. CookiesIssued'
      BY <2>0, <2>9 DEF SetRefreshCookie, Sound, CookiesIssued
    <3> QED
      BY <2>9, <2>b, <3>1 DEF SetRefreshCookie
  <2>10. CASE ClearRefreshCookie(r)
    <3>1. CookiesIssued'
      BY <2>10 DEF ClearRefreshCookie, CookiesIssued
    <3> QED
      BY <2>10, <2>b, <3>1 DEF ClearRefreshCookie
  <2>11. CASE Abort(r)
    BY <2>11, <2>b, <1>j DEF Abort
  <2> QED
    BY <1>2, <2>1, <2>2, <2>3, <2>4, <2>5, <2>6, <2>7, <2>8, <2>9, <2>10, <2>11
    DEF RequestStep
<1> QED
  BY <1>1, <1>2 DEF Next, Tick, vars

-----------------------------------------------------------------------------
\* The database part of the invariant: a swap is the only step that adds a
\* successor, and it gives the session the row of that successor.
LEMMA DatesAndLastTokenStep ==
    ASSUME CookieInv, [Next]_vars
    PROVE  SlidingExpiry' /\ LastToken'
<1>0. /\ TypeOK /\ TypeOK' /\ SessionInv /\ SlidingExpiry /\ LastToken
      /\ SingleUse /\ OneLivePerSession /\ LiveIssued /\ SuccessorIssued /\ ExchangedIssued
      /\ LiveUnexchanged
  BY TypeStep DEF CookieInv, SessionInv
<1>s. /\ Issued \subseteq Tokens /\ Issued \subseteq Issued'
      /\ \A t \in Issued : expiresAt'[t] = expiresAt[t] /\ root'[t] = root[t]
  BY IssuedSteady, <1>0 DEF Issued
\* While no exchange is added, no date moves.
<1>e. ASSUME exchangedFor' = exchangedFor PROVE SlidingExpiry'
  BY <1>0, <1>s, <1>e DEF SlidingExpiry, SuccessorIssued, ExchangedIssued
<1>1. CASE Kept
  BY <1>0, <1>e, <1>1 DEF Kept, LastToken, Issued
<1>2. ASSUME NEW tok \in Tokens, Removed(tok) PROVE SlidingExpiry' /\ LastToken'
  BY <1>0, <1>e, <1>2 DEF Removed, LastToken, Issued
<1>3. ASSUME NEW new \in Tokens, NEW exp \in Nat, Opened(new, exp)
      PROVE  SlidingExpiry' /\ LastToken'
  <2>1. /\ Issued' = Issued \union {new} /\ new \notin Issued
        /\ live' = live \union {new} /\ exchangedFor' = exchangedFor
        /\ root'[new] = new
    BY <1>0, <1>3, NoTokenAssumption DEF TypeOK, Opened, Issued
  <2>2. \A t \in Issued : root[t] # new
    BY <1>0, <2>1 DEF SessionInv, RootIssued
  <2>3. LastToken'
    BY <1>0, <1>s, <2>1, <2>2 DEF LastToken, LiveIssued
  <2> QED
    BY <1>e, <2>1, <2>3
<1>4. ASSUME NEW old \in Tokens, NEW new \in Tokens, NEW exp \in Nat, Swapped(old, new, exp)
      PROVE  SlidingExpiry' /\ LastToken'
  <2>1. /\ old \in live /\ old \in Issued /\ new \notin Issued /\ new # old
        /\ exchangedFor[old] = {}
        /\ live' = (live \ {old}) \union {new}
    BY <1>0, <1>4 DEF Swapped, LiveIssued, LiveUnexchanged
  <2>2. exp <= expiresAt[old] + TTL
    BY <1>4 DEF Swapped, CookieInv, RequestsSound, Sound
  <2>3. /\ expiresAt'[new] = exp /\ root'[new] = root[old]
        /\ \A t \in Tokens : exchangedFor'[t] = IF t = old THEN {new} ELSE exchangedFor[t]
    BY <1>0, <1>4, <2>1 DEF Swapped, TypeOK
  <2>4. SlidingExpiry'
    BY <1>0, <1>s, <2>1, <2>2, <2>3 DEF SlidingExpiry, SuccessorIssued, ExchangedIssued
  <2>5. Issued' = Issued \union {new}
    BY <1>0, <1>4, <2>1 DEF Swapped, TypeOK, Issued
  \* Every other token of the session has been exchanged already.
  <2>6. \A t \in Issued : root[t] = root[old] /\ exchangedFor[t] = {} => t = old
    BY <1>0, <2>1 DEF LastToken
  <2>7. LastToken'
    BY <1>0, <1>s, <2>1, <2>3, <2>5, <2>6 DEF LastToken, LiveIssued
  <2> QED
    BY <2>4, <2>7
<1> QED
  BY <1>0, <1>1, <1>2, <1>3, <1>4, StepKinds

\* A revoked token was issued and has no row; since fresh rows are for tokens
\* never issued, it never gets one again.
LEMMA RevokedStep ==
    ASSUME CookieInv, [Next]_vars
    PROVE  RevokedClosed'
<1>0. /\ TypeOK /\ SessionInv /\ RevokedClosed /\ RequestsSound
  BY DEF CookieInv, SessionInv
<1>1. Issued \subseteq Issued'
  BY IssuedSteady, <1>0
<1>2. \A t \in live' : t \in live \/ t \notin Issued
  BY <1>0, StepKinds DEF Kept, Removed, Opened, Swapped
<1>3. CASE revoked' = revoked
  BY <1>0, <1>1, <1>2, <1>3 DEF RevokedClosed
<1>4. ASSUME NEW r \in Requests, RevokeToken(r) PROVE RevokedClosed'
  BY <1>0, <1>1, <1>4 DEF RevokeToken, RevokedClosed, RequestsSound, Sound, Presenting
<1>5. revoked' = revoked \/ \E r \in Requests : RevokeToken(r)
  BY DEF Next, Tick, RequestStep, StartSession, CreateRefreshToken, StartRefresh, FindToken,
         DeleteExpired, SwapTokens, StartLogout, SetRefreshCookie, ClearRefreshCookie, Abort,
         vars, history
<1> QED
  BY <1>3, <1>4, <1>5

\* The invariant holds before the first request and is kept by every step.
LEMMA CookieInvariant == Spec => []CookieInv
<1>1. Init => CookieInv
  <2> SUFFICES ASSUME Init PROVE CookieInv
    OBVIOUS
  <2>1. SessionInv
    BY SessionInvInit
  <2>2. RequestsSound
    BY DEF Init, RequestsSound, Sound, Idle, State, Presenting
  <2>3. CookiesIssued /\ SlidingExpiry /\ LastToken /\ RevokedClosed
    BY DEF Init, CookiesIssued, SlidingExpiry, LastToken, RevokedClosed
  <2> QED
    BY <2>1, <2>2, <2>3 DEF CookieInv
<1>2. CookieInv /\ [Next]_vars => CookieInv'
  <2> SUFFICES ASSUME CookieInv, [Next]_vars PROVE CookieInv'
    OBVIOUS
  <2>1. SessionInv'
    BY SessionInvStep DEF CookieInv
  <2>2. RequestsSound' /\ CookiesIssued'
    BY SoundStep DEF CookieInv
  <2> QED
    BY <2>1, <2>2, DatesAndLastTokenStep, RevokedStep DEF CookieInv
<1> QED
  BY <1>1, <1>2, PTL DEF Spec

-----------------------------------------------------------------------------
\* The token of a refresh expires at most one lifetime after the token it
\* replaced, however long the refresh waited between its check and its swap.
THEOREM RefreshesSlideByOneLifetime == Spec => []SlidingExpiry
<1>1. CookieInv => SlidingExpiry
  BY DEF CookieInv
<1> QED
  BY <1>1, CookieInvariant, PTL

\* A session survives the DELETE of a logout only because a refresh had exchanged
\* the token that the logout presented.
THEOREM LogoutLosesOnlyToRefresh == Spec => []LogoutSurvivedOnlyByRefresh
<1>1. CookieInv => LogoutSurvivedOnlyByRefresh
  BY DEF CookieInv, LastToken, RevokedClosed, LogoutSurvivedOnlyByRefresh
<1> QED
  BY <1>1, CookieInvariant, PTL

\* A row disappears only by a refresh that replaces it, by a logout that presented
\* its token, or past its date: no failure and no lost race closes a session.
THEOREM RowsAreNotLost == Spec => NoSilentLoss
<1> DEFINE Accounted == \A t \in live \ live' : \/ exchangedFor'[t] # {}
                                                \/ t \in revoked'
                                                \/ expiresAt[t] < clock
<1>1. CookieInv /\ [Next]_vars => [Accounted]_vars
  <2> SUFFICES ASSUME CookieInv, [Next]_vars PROVE Accounted
    OBVIOUS
  <2>0. TypeOK /\ RequestsSound
    BY DEF CookieInv, SessionInv
  <2>1. CASE live \subseteq live'
    BY <2>1
  <2>2. ASSUME NEW r \in Requests, DeleteExpired(r) PROVE Accounted
    BY <2>0, <2>2 DEF DeleteExpired, RequestsSound, Sound
  <2>3. ASSUME NEW r \in Requests, SwapTokens(r) PROVE Accounted
    BY <2>0, <2>3 DEF SwapTokens, TypeOK, database
  <2>4. ASSUME NEW r \in Requests, RevokeToken(r) PROVE Accounted
    BY <2>4 DEF RevokeToken
  <2>5. \/ live \subseteq live'
        \/ \E r \in Requests : DeleteExpired(r) \/ SwapTokens(r) \/ RevokeToken(r)
    BY DEF Next, Tick, RequestStep, StartSession, CreateRefreshToken, StartRefresh, FindToken,
           StartLogout, SetRefreshCookie, ClearRefreshCookie, Abort, vars, database
  <2> QED
    BY <2>1, <2>2, <2>3, <2>4, <2>5
<1> QED
  BY <1>1, CookieInvariant, PTL DEF Spec, NoSilentLoss

-----------------------------------------------------------------------------
(***************************************************************************)
(* The cookie of a browser against the answers that are on their way to    *)
(* it: whatever their order, it never moves back within a session.         *)
(***************************************************************************)

Presents(r) == req[r].pc \in Presenting
Pending(r)  == req[r].pc = "setCookie"

\* Browser `c' has token `t', in its jar or in one of its requests.
Holds(c, t) == \/ jar[c] = t
               \/ \E r \in Requests : Client(r) = c /\ (\/ Presents(r) /\ req[r].tok = t
                                                        \/ Pending(r) /\ req[r].out = t)

\* A session belongs to one browser.
OneBrowser == \A c, d \in Clients : \A t, u \in Issued :
                 Holds(c, t) /\ Holds(d, u) /\ root[t] = root[u] => c = d

\* A token on its way to a browser has not been seen by any, and so was not
\* exchanged; no two of one session are on their way.
Unseen(u) == /\ \A c \in Clients : jar[c] # u
             /\ \A r \in Requests : Presents(r) => req[r].tok # u

PendingLast == \A r \in Requests :
                  Pending(r) => exchangedFor[req[r].out] = {} /\ Unseen(req[r].out)

PendingAlone == \A r, q \in Requests :
                   Pending(r) /\ Pending(q) /\ root[req[r].out] = root[req[q].out] => r = q

SameSession(t, u) == t # NoToken /\ root[t] = root[u]

\* While a token that a request presents has its row, the browser has not moved on
\* within the session, and while a successor is on its way, the browser has the
\* token it replaces.
PresentedIsKept ==
    \A r \in Requests :
       Presents(r) /\ req[r].tok \in live /\ SameSession(jar[Client(r)], req[r].tok)
         => jar[Client(r)] = req[r].tok

PendingIsNext ==
    \A r \in Requests :
       Pending(r) /\ SameSession(jar[Client(r)], req[r].out)
         => req[r].out \in exchangedFor[jar[Client(r)]]

BrowserInv == OneBrowser /\ PendingLast /\ PendingAlone /\ PresentedIsKept /\ PendingIsNext

-----------------------------------------------------------------------------
(* What a step does to the tokens that browsers and requests hold. *)

Others(r) == \A q \in Requests : q # r => req'[q] = req[q]

\* Nobody gets a token.
Quiet(r) == /\ UNCHANGED <<jar, root, exchangedFor>>
            /\ live' \subseteq live
            /\ Others(r)
            /\ \/ ~Presents(r)' /\ ~Pending(r)'
               \/ Presents(r) /\ Presents(r)' /\ req'[r].tok = req[r].tok

\* A request comes with the cookie of its browser.
Presented(r) == /\ UNCHANGED <<live, jar, root, exchangedFor>>
                /\ Others(r)
                /\ jar[Client(r)] # NoToken
                /\ Presents(r)' /\ req'[r].tok = jar[Client(r)]

\* An answer reaches the browser.
Delivered(r) == /\ UNCHANGED <<live, root, exchangedFor>>
                /\ Others(r)
                /\ ~Presents(r)' /\ ~Pending(r)'
                /\ \/ Pending(r) /\ jar' = [jar EXCEPT ![Client(r)] = req[r].out]
                   \/ jar' = [jar EXCEPT ![Client(r)] = NoToken]

\* A new token is on its way: that of a login, or the successor of another.
Answered(r, new) == /\ UNCHANGED jar
                    /\ Others(r)
                    /\ Pending(r)' /\ req'[r].out = new

OpenedBy(r, new) == /\ Answered(r, new)
                    /\ new \in Tokens \ Issued
                    /\ live' = live \union {new}
                    /\ root' = [root EXCEPT ![new] = new]
                    /\ UNCHANGED exchangedFor

SwappedBy(r, new) == /\ Answered(r, new)
                     /\ Presents(r) /\ req[r].tok \in live
                     /\ new \in Tokens \ Issued
                     /\ live' = (live \ {req[r].tok}) \union {new}
                     /\ root' = [root EXCEPT ![new] = root[req[r].tok]]
                     /\ exchangedFor' = [exchangedFor EXCEPT ![req[r].tok] = @ \union {new}]

LEMMA BrowserSteps ==
    ASSUME TypeOK, [Next]_vars
    PROVE  \/ UNCHANGED <<live, req, jar, root, exchangedFor>>
           \/ \E r \in Requests : \/ Quiet(r)
                                  \/ Presented(r)
                                  \/ Delivered(r)
                                  \/ \E new \in Tokens : OpenedBy(r, new) \/ SwappedBy(r, new)
<1>1. CASE UNCHANGED vars \/ Tick
  BY <1>1 DEF vars, Tick, database, history
<1>2. ASSUME NEW r \in Requests, RequestStep(r)
      PROVE  \/ Quiet(r)
             \/ Presented(r)
             \/ Delivered(r)
             \/ \E new \in Tokens : OpenedBy(r, new) \/ SwappedBy(r, new)
  <2> USE DEF TypeOK
  <2>a. ASSUME NEW s, req' = [req EXCEPT ![r] = s]
        PROVE  req'[r] = s /\ Others(r)
    BY <2>a DEF Others
  <2>b. ASSUME Finish(r)
        PROVE  Others(r) /\ ~Presents(r)' /\ ~Pending(r)'
    BY <2>a, <2>b DEF Finish, Idle, State, Presents, Pending, Presenting
  <2>c. ASSUME NEW new, AnswerWithToken(r, new), UNCHANGED jar
        PROVE  Answered(r, new)
    BY <2>a, <2>c DEF AnswerWithToken, State, Answered, Pending
  <2> USE DEF database, history, State
  <2>1. CASE StartSession(r)
    BY <2>1, <2>a DEF StartSession, Quiet, Presents, Pending, Presenting
  <2>2. CASE CreateRefreshToken(r)
    BY <2>2, <2>c DEF CreateRefreshToken, OpenedBy
  <2>3. CASE StartRefresh(r)
    BY <2>3, <2>a DEF StartRefresh, Presented, Presents, Presenting
  <2>4. CASE FindToken(r)
    <3>1. CASE Finish(r)
      BY <2>4, <2>b, <3>1 DEF FindToken, Quiet
    <3>2. CASE ~Finish(r)
      BY <2>4, <2>a, <3>2 DEF FindToken, Quiet, Presents, Presenting
    <3> QED
      BY <3>1, <3>2
  <2>5. CASE DeleteExpired(r)
    BY <2>5, <2>b DEF DeleteExpired, Quiet
  <2>6. CASE SwapTokens(r)
    <3>1. CASE ~RowFound(req[r].tok)
      BY <2>6, <2>b, <3>1 DEF SwapTokens, Quiet
    <3>2. CASE RowFound(req[r].tok)
      BY <2>6, <2>c, <3>2 DEF SwapTokens, SwappedBy, RowFound, Presents, Presenting
    <3> QED
      BY <3>1, <3>2
  <2>7. CASE StartLogout(r)
    <3>1. CASE jar[Client(r)] # NoToken
      BY <2>7, <2>a, <3>1 DEF StartLogout, Presented, Presents, Presenting
    <3>2. CASE jar[Client(r)] = NoToken
      BY <2>7, <2>a, <3>2 DEF StartLogout, Quiet, Presents, Pending, Presenting
    <3> QED
      BY <3>1, <3>2
  <2>8. CASE RevokeToken(r)
    BY <2>8, <2>a DEF RevokeToken, Quiet, Presents, Pending, Presenting
  <2>9. CASE SetRefreshCookie(r)
    BY <2>9, <2>b DEF SetRefreshCookie, Delivered, Pending
  <2>10. CASE ClearRefreshCookie(r)
    BY <2>10, <2>b DEF ClearRefreshCookie, Delivered
  <2>11. CASE Abort(r)
    BY <2>11, <2>b DEF Abort, Quiet
  <2> QED
    BY <1>2, <2>1, <2>2, <2>3, <2>4, <2>5, <2>6, <2>7, <2>8, <2>9, <2>10, <2>11
    DEF RequestStep
<1> QED
  BY <1>1, <1>2 DEF Next

-----------------------------------------------------------------------------
\* Where every holding stems from one of the same browser in the same session,
\* sessions still belong to one browser.
LEMMA StemsSuffice ==
    ASSUME OneBrowser,
           \A c \in Clients : \A t \in Issued' : Holds(c, t)' =>
              \E s \in Issued : Holds(c, s) /\ root[s] = root'[t]
    PROVE  OneBrowser'
BY DEF OneBrowser

LEMMA OneBrowserStep ==
    ASSUME CookieInv, OneBrowser, [Next]_vars
    PROVE  OneBrowser'
<1>0. TypeOK /\ RequestsSound /\ RootIssued /\ SessionInv
  BY DEF CookieInv, SessionInv
<1> DEFINE Stems(c, t) == \E s \in Issued : Holds(c, s) /\ root[s] = root'[t]
<1> USE DEF Holds
<1>1. CASE UNCHANGED <<live, req, jar, root, exchangedFor>>
  BY <1>1 DEF OneBrowser, Issued, Presents, Pending
<1>2. ASSUME NEW r \in Requests, Quiet(r) PROVE OneBrowser'
  <2>1. \A c \in Clients : \A t \in Issued' : Holds(c, t)' => Stems(c, t)
    BY <1>2 DEF Quiet, Others, Presents, Pending, Issued, Presenting
  <2> QED
    BY <2>1, StemsSuffice
<1>3. ASSUME NEW r \in Requests, Presented(r) PROVE OneBrowser'
  <2>1. \A c \in Clients : \A t \in Issued' : Holds(c, t)' => Stems(c, t)
    BY <1>3 DEF Presented, Others, Presents, Pending, Issued, Presenting
  <2> QED
    BY <2>1, StemsSuffice
<1>4. ASSUME NEW r \in Requests, Delivered(r) PROVE OneBrowser'
  <2>1. \A c \in Clients : \A t \in Issued' : Holds(c, t)' => Stems(c, t)
    BY <1>0, <1>4, NoTokenAssumption DEF Delivered, Others, Presents, Pending, Issued, TypeOK
  <2> QED
    BY <2>1, StemsSuffice
<1>5. ASSUME NEW r \in Requests, NEW new \in Tokens, OpenedBy(r, new) PROVE OneBrowser'
  <2>1. /\ \A t \in Issued : t # new /\ root'[t] = root[t] /\ root[t] # new
        /\ Issued' \subseteq Issued \union {new} /\ root'[new] = new
    BY <1>0, <1>5 DEF OpenedBy, Issued, TypeOK, RootIssued
  <2>2. \A c \in Clients : \A t \in Issued : Holds(c, t)' => Holds(c, t)
    BY <1>5, <2>1 DEF OpenedBy, Answered, Others, Presents, Pending, Presenting
  <2>3. \A c \in Clients : Holds(c, new)' => c = Client(r)
    <3>1. \A c \in Clients : jar[c] # new
      BY <1>5, NoTokenAssumption DEF CookieInv, CookiesIssued, OpenedBy, Issued
    <3>2. \A q \in Requests : /\ Presents(q) => req[q].tok # new
                              /\ Pending(q) => req[q].out # new
      BY <1>0, <1>5 DEF RequestsSound, Sound, OpenedBy, Presents, Pending
    <3> QED
      BY <1>5, <3>1, <3>2 DEF OpenedBy, Answered, Others, Presents, Pending, Presenting
  <2> QED
    BY <2>1, <2>2, <2>3 DEF OneBrowser
<1>6. ASSUME NEW r \in Requests, NEW new \in Tokens, SwappedBy(r, new) PROVE OneBrowser'
  <2>1. /\ \A t \in Issued : t # new /\ root'[t] = root[t]
        /\ Issued' \subseteq Issued \union {new}
        /\ req[r].tok \in Issued /\ root'[new] = root[req[r].tok]
    BY <1>0, <1>6 DEF SwappedBy, Issued, TypeOK, RequestsSound, Sound, Presents
  <2>2. \A c \in Clients : \A t \in Issued : Holds(c, t)' => Holds(c, t)
    BY <1>6, <2>1 DEF SwappedBy, Answered, Others, Presents, Pending, Presenting
  <2>3. \A c \in Clients : Holds(c, new)' => c = Client(r)
    <3>1. \A c \in Clients : jar[c] # new
      BY <1>6, NoTokenAssumption DEF CookieInv, CookiesIssued, SwappedBy, Issued
    <3>2. \A q \in Requests : /\ Presents(q) => req[q].tok # new
                              /\ Pending(q) => req[q].out # new
      BY <1>0, <1>6 DEF RequestsSound, Sound, SwappedBy, Presents, Pending
    <3> QED
      BY <1>6, <3>1, <3>2 DEF SwappedBy, Answered, Others, Presents, Pending, Presenting
  <2>4. Holds(Client(r), req[r].tok)
    BY <1>6 DEF SwappedBy
  <2>5. \A c \in Clients : \A t \in Issued' : Holds(c, t)' => Stems(c, t)
    BY <2>1, <2>2, <2>3, <2>4
  <2> QED
    BY <2>5, StemsSuffice
<1> QED
  BY <1>0, <1>1, <1>2, <1>3, <1>4, <1>5, <1>6, BrowserSteps

\* The four other parts, for a step of each kind.
LEMMA PendingStep ==
    ASSUME CookieInv, BrowserInv, [Next]_vars
    PROVE  PendingLast' /\ PendingAlone' /\ PresentedIsKept' /\ PendingIsNext'
<1> DEFINE Goal == PendingLast /\ PendingAlone /\ PresentedIsKept /\ PendingIsNext
<1>0. /\ TypeOK /\ RequestsSound /\ CookiesIssued /\ SessionInv /\ LastToken
      /\ OneBrowser /\ PendingLast /\ PendingAlone /\ PresentedIsKept /\ PendingIsNext
  BY DEF CookieInv, SessionInv, BrowserInv
<1>c. \A r \in Requests : Client(r) \in Clients
  BY DEF Requests, Client
<1> USE DEF SameSession, Unseen
<1>1. CASE UNCHANGED <<live, req, jar, root, exchangedFor>>
  BY <1>0, <1>1 DEF PendingLast, PendingAlone, PresentedIsKept, PendingIsNext, Presents, Pending
<1>2. ASSUME NEW r \in Requests, Quiet(r) PROVE Goal'
  <2>1. PendingLast' /\ PendingAlone'
    BY <1>0, <1>2 DEF Quiet, Others, PendingLast, PendingAlone, Presents, Pending, Presenting
  <2>2. PresentedIsKept' /\ PendingIsNext'
    BY <1>0, <1>2 DEF Quiet, Others, PresentedIsKept, PendingIsNext, Presents, Pending, Presenting
  <2> QED
    BY <2>1, <2>2
<1>3. ASSUME NEW r \in Requests, Presented(r) PROVE Goal'
  <2>1. PendingLast' /\ PendingAlone'
    BY <1>0, <1>c, <1>3 DEF Presented, Others, PendingLast, PendingAlone, Presents, Pending, Presenting
  <2>2. PresentedIsKept' /\ PendingIsNext'
    BY <1>0, <1>3 DEF Presented, Others, PresentedIsKept, PendingIsNext, Presents, Pending, Presenting
  <2> QED
    BY <2>1, <2>2
<1>4. ASSUME NEW r \in Requests, Delivered(r) PROVE Goal'
  <2> DEFINE c == Client(r)  u == req[r].out
  <2>a. /\ c \in Clients
        /\ \A d \in Clients \ {c} : jar'[d] = jar[d]
        /\ jar'[c] = NoToken \/ (Pending(r) /\ jar'[c] = u)
        /\ UNCHANGED <<live, root, exchangedFor>>
    BY <1>0, <1>c, <1>4 DEF Delivered, TypeOK, Pending
  <2>b. \A q \in Requests : Presents(q)' \/ Pending(q)' => q # r /\ req'[q] = req[q]
    BY <1>4 DEF Delivered, Others
  <2>c. \A q \in Requests : (Presents(q)' => Presents(q)) /\ (Pending(q)' => Pending(q))
    BY <2>b DEF Presents, Pending
  <2>0. \A q \in Requests : Pending(q) => req[q].out \in Tokens /\ req[q].out # NoToken
    BY <1>0, NoTokenAssumption DEF RequestsSound, Sound, Issued, Pending
  <2>1. PendingAlone'
    BY <1>0, <2>a, <2>b, <2>c DEF PendingAlone
  \* No other token of the session is on its way, and no row but that of `u'.
  <2>2. \A q \in Requests : Pending(r) /\ Pending(q)' => root[req[q].out] # root[u]
    BY <1>0, <2>b, <2>c DEF PendingAlone
  <2>3. \A q \in Requests :
           Pending(r) /\ Presents(q)' /\ req[q].tok \in live => root[req[q].tok] # root[u]
    BY <1>0, <2>c DEF PendingLast, LastToken, RequestsSound, Sound, Pending, Presents
  <2>4. PendingLast'
    <3> SUFFICES ASSUME NEW q \in Requests, Pending(q)'
                 PROVE  (exchangedFor[req[q].out] = {} /\ Unseen(req[q].out))'
      BY DEF PendingLast
    <3>1. Pending(q) /\ req'[q] = req[q] /\ exchangedFor[req[q].out] = {} /\ Unseen(req[q].out)
      BY <1>0, <2>b, <2>c DEF PendingLast
    <3>2. \A d \in Clients : jar'[d] # req[q].out
      BY <2>0, <2>2, <2>a, <3>1
    <3>3. \A p \in Requests : Presents(p)' => req'[p].tok # req[q].out
      BY <2>b, <2>c, <3>1
    <3> QED
      BY <2>a, <3>1, <3>2, <3>3
  <2>5. PresentedIsKept'
    BY <1>0, <1>c, <2>a, <2>b, <2>c, <2>3 DEF PresentedIsKept
  <2>6. PendingIsNext'
    BY <1>0, <1>c, <2>a, <2>b, <2>c, <2>2 DEF PendingIsNext
  <2> QED
    BY <2>1, <2>4, <2>5, <2>6
\* A new token: nobody has seen it, and it is neither in the database nor held.
<1>n. ASSUME NEW r \in Requests, NEW new \in Tokens, new \notin Issued, Answered(r, new)
      PROVE  /\ Unseen(new)
             /\ exchangedFor[new] = {}
             /\ \A q \in Requests : Presents(q)' => q # r /\ Presents(q) /\ req'[q] = req[q]
             /\ \A q \in Requests :
                   Pending(q)' /\ q # r => /\ Pending(q) /\ req'[q] = req[q]
                                           /\ req[q].out \in Issued
                                           /\ req[q].out # new
             /\ \A q \in Requests : Presents(q) => req[q].tok # new /\ req[q].tok \in Issued
             /\ jar' = jar
             /\ \A d \in Clients : jar[d] # NoToken => jar[d] # new /\ jar[d] \in Issued
  <2>1. exchangedFor[new] = {}
    BY <1>0, <1>n DEF SessionInv, ExchangedIssued
  <2>2. \A d \in Clients : jar[d] # NoToken => jar[d] # new /\ jar[d] \in Issued
    BY <1>0, <1>n DEF CookiesIssued
  <2>3. \A q \in Requests : Presents(q) => req[q].tok # new /\ req[q].tok \in Issued
    BY <1>0, <1>n DEF RequestsSound, Sound, Presents
  <2>4. \A q \in Requests : Pending(q) => req[q].out # new /\ req[q].out \in Issued
    BY <1>0, <1>n DEF RequestsSound, Sound, Pending
  <2>5. Unseen(new)
    BY <2>2, <2>3, NoTokenAssumption
  <2>6. req'[r].pc = "setCookie" /\ \A q \in Requests : q # r => req'[q] = req[q]
    BY <1>n DEF Answered, Others, Pending
  <2>7. ~Presents(r)'
    BY <2>6 DEF Presents, Presenting
  <2> QED
    BY <1>n, <2>1, <2>2, <2>3, <2>4, <2>5, <2>6, <2>7 DEF Answered, Presents, Pending
<1>5. ASSUME NEW r \in Requests, NEW new \in Tokens, OpenedBy(r, new) PROVE Goal'
  <2>1. /\ new \notin Issued /\ Answered(r, new) /\ req'[r].out = new
        /\ live' = live \union {new} /\ exchangedFor' = exchangedFor
        /\ root'[new] = new
        /\ \A t \in Issued : root'[t] = root[t] /\ root[t] # new
    BY <1>0, <1>5 DEF OpenedBy, Answered, TypeOK, Issued, SessionInv, RootIssued
  <2>2. PendingLast'
    BY <1>0, <1>n, <2>1 DEF PendingLast
  <2>3. PendingAlone'
    BY <1>0, <1>n, <2>1 DEF PendingAlone
  <2>4. PresentedIsKept'
    BY <1>0, <1>c, <1>n, <2>1 DEF PresentedIsKept
  <2>5. PendingIsNext'
    BY <1>0, <1>c, <1>n, <2>1 DEF PendingIsNext
  <2> QED
    BY <2>2, <2>3, <2>4, <2>5
<1>6. ASSUME NEW r \in Requests, NEW new \in Tokens, SwappedBy(r, new) PROVE Goal'
  <2> DEFINE old == req[r].tok
  <2>1. /\ new \notin Issued /\ Answered(r, new) /\ req'[r].out = new
        /\ Presents(r) /\ old \in live /\ old \in Issued
        /\ live' = (live \ {old}) \union {new}
        /\ root'[new] = root[old]
        /\ \A t \in Issued : root'[t] = root[t]
        /\ \A t \in Tokens : t # old => exchangedFor'[t] = exchangedFor[t]
        /\ exchangedFor'[old] = exchangedFor[old] \union {new}
        /\ Issued \subseteq Tokens
    BY <1>0, <1>6 DEF SwappedBy, Answered, TypeOK, Issued, RequestsSound, Sound, Presents
  \* No other row, and no token on its way, is of the session.
  <2>2. \A t \in live : t # old => root[t] # root[old]
    BY <1>0, <2>1 DEF SessionInv, OneLivePerSession
  <2>3. \A q \in Requests : Pending(q) => /\ req[q].out \in Issued
                                          /\ req[q].out # old
                                          /\ root[req[q].out] # root[old]
    BY <1>0, <2>1 DEF PendingLast, LastToken, RequestsSound, Sound, Pending
  \* The jar of its browser, if it is in the session, still has the old token.
  <2>4. SameSession(jar[Client(r)], old) => jar[Client(r)] = old
    BY <1>0, <2>1 DEF PresentedIsKept
  <2>5. PendingLast'
    <3>1. (exchangedFor[new] = {} /\ Unseen(new))'
      BY <1>n, <2>1
    <3>2. ASSUME NEW q \in Requests, q # r, Pending(q)'
          PROVE  (exchangedFor[req[q].out] = {} /\ Unseen(req[q].out))'
      BY <1>0, <1>n, <2>1, <2>3, <3>2 DEF PendingLast
    <3> QED
      BY <2>1, <3>1, <3>2 DEF PendingLast
  <2>6. PendingAlone'
    BY <1>0, <1>n, <2>1, <2>3 DEF PendingAlone
  <2>7. PresentedIsKept'
    BY <1>0, <1>c, <1>n, <2>1 DEF PresentedIsKept
  <2>8. PendingIsNext'
    BY <1>0, <1>c, <1>n, <2>1, <2>4 DEF PendingIsNext
  <2> QED
    BY <2>5, <2>6, <2>7, <2>8
<1> QED
  BY <1>0, <1>1, <1>2, <1>3, <1>4, <1>5, <1>6, BrowserSteps

LEMMA BrowserInvariant == Spec => [](CookieInv /\ BrowserInv)
<1>1. Init => BrowserInv
  BY NoTokenAssumption DEF Init, BrowserInv, OneBrowser, PendingLast, PendingAlone,
     PresentedIsKept, PendingIsNext, Presents, Pending, Idle, State, Presenting, Issued
<1>2. CookieInv /\ BrowserInv /\ [Next]_vars => BrowserInv'
  BY OneBrowserStep, PendingStep DEF BrowserInv
<1> QED
  BY <1>1, <1>2, CookieInvariant, PTL DEF Spec

\* Answers may overtake each other, but the cookie of a browser goes, within a
\* session, from a token to the one it was exchanged for.
THEOREM CookiesMoveForward == Spec => CookieMovesForward
<1> DEFINE Forward == \A c \in Clients :
              LET old == jar[c]  new == jar'[c] IN
              (old # new /\ NoToken \notin {old, new} /\ root[old] = root[new])
                 => new \in exchangedFor[old]
<1>1. CookieInv /\ BrowserInv /\ [Next]_vars => [Forward]_vars
  <2> SUFFICES ASSUME CookieInv, BrowserInv, [Next]_vars PROVE Forward
    OBVIOUS
  <2>0. TypeOK /\ PendingIsNext
    BY DEF CookieInv, SessionInv, BrowserInv
  <2>1. CASE jar' = jar
    BY <2>1
  <2>2. ASSUME NEW r \in Requests, Delivered(r) PROVE Forward
    <3>1. \A c \in Clients : c # Client(r) => jar'[c] = jar[c]
      BY <2>0, <2>2 DEF Delivered, TypeOK, Pending
    <3>2. jar'[Client(r)] = NoToken \/ (Pending(r) /\ jar'[Client(r)] = req[r].out)
      BY <2>0, <2>2 DEF Delivered, TypeOK, Requests, Client, Pending
    <3> QED
      BY <2>0, <3>1, <3>2 DEF PendingIsNext, SameSession
  <2> QED
    BY <2>0, <2>1, <2>2, BrowserSteps DEF Quiet, Presented, Answered, OpenedBy, SwappedBy
<1> QED
  BY <1>1, BrowserInvariant, PTL DEF Spec, CookieMovesForward
=============================================================================
