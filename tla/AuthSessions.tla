---------------------------- MODULE AuthSessions ----------------------------
(***************************************************************************)
(* Refresh tokens of one user: a login creates one, a refresh trades one   *)
(* for a new one, a logout revokes one.  The rows of AuthRefreshToken say  *)
(* which are good; every row is read and written by statements of their    *)
(* own, without a transaction, and the new row of a refresh is created     *)
(* before the old one is spent.                                            *)
(***************************************************************************)
CONSTANTS
  Tokens,    \* ids of refresh tokens
  AuthCalls, \* calls of POST /auth/login, /auth/refresh and /auth/logout
  NoToken

ASSUME AuthAssumption == NoToken \notin Tokens

VARIABLES
  tokenRow,    \* none, live, or revoked
  replacedBy,  \* replacedByTokenId
  expired,     \* tokens whose time has passed
  given,       \* tokens a client was given
  reqAt,       \* where each request is
  carried,     \* the token it came with
  issued,      \* the token it created
  raced,       \* refreshes whose token another request spent meanwhile
  reqHit       \* requests that failed or died on the way

authVars ==
  <<tokenRow, replacedBy, expired, given, reqAt, carried, issued, raced, reqHit>>

Maybe == Tokens \cup {NoToken}

AuthTypeOK ==
  /\ tokenRow \in [Tokens -> {"none", "live", "revoked"}]
  /\ replacedBy \in [Tokens -> Maybe]
  /\ expired \subseteq Tokens
  /\ given \subseteq Tokens
  /\ reqAt \in [AuthCalls -> {"idle", "find", "create", "revoke", "respond", "done"}]
  /\ carried \in [AuthCalls -> Maybe]
  /\ issued \in [AuthCalls -> Maybe]
  /\ raced \subseteq AuthCalls
  /\ reqHit \subseteq AuthCalls

AuthInit ==
  /\ tokenRow = [t \in Tokens |-> "none"]
  /\ replacedBy = [t \in Tokens |-> NoToken]
  /\ expired = {}
  /\ given = {}
  /\ reqAt = [q \in AuthCalls |-> "idle"]
  /\ carried = [q \in AuthCalls |-> NoToken]
  /\ issued = [q \in AuthCalls |-> NoToken]
  /\ raced = {}
  /\ reqHit = {}

-----------------------------------------------------------------------------
RequestGoes(q, from, to) ==
  /\ reqAt[q] = from
  /\ reqAt' = [reqAt EXCEPT ![q] = to]

\* The refreshes of t, but for q's, that found it good and are not done with it.
Overtaken(t, q) ==
  {r \in AuthCalls \ {q} : carried[r] = t /\ reqAt[r] \in {"create", "revoke"}}

\* The credentials are right and the user is active.
login(q) ==
  /\ RequestGoes(q, "idle", "create")
  /\ UNCHANGED <<tokenRow, replacedBy, expired, given, carried, issued, raced, reqHit>>

\* A client presents a token it was given, be it the newest or not.
refresh(q) ==
  /\ RequestGoes(q, "idle", "find")
  /\ \E t \in given : carried' = [carried EXCEPT ![q] = t]
  /\ UNCHANGED <<tokenRow, replacedBy, expired, given, issued, raced, reqHit>>

\* Variant: the row need only exist.
FindAnyToken(q) ==
  /\ RequestGoes(q, "find", "create")
  /\ carried[q] \notin expired
  /\ UNCHANGED <<tokenRow, replacedBy, expired, given, carried, issued, raced, reqHit>>

\* A token that is revoked or expired ends the request.
findToken(q) ==
  /\ RequestGoes(q, "find",
       IF tokenRow[carried[q]] = "live" /\ carried[q] \notin expired
       THEN "create" ELSE "done")
  /\ UNCHANGED <<tokenRow, replacedBy, expired, given, carried, issued, raced, reqHit>>

\* createRefreshSession: the new row, under an id nobody had.
createToken(q) ==
  /\ RequestGoes(q, "create", IF carried[q] = NoToken THEN "respond" ELSE "revoke")
  /\ \E t \in Tokens :
       /\ tokenRow[t] = "none"
       /\ tokenRow' = [tokenRow EXCEPT ![t] = "live"]
       /\ issued' = [issued EXCEPT ![q] = t]
  /\ UNCHANGED <<replacedBy, expired, given, carried, raced, reqHit>>

\* Variant: a token that is revoked already is written again.
RevokeAgain(q) ==
  /\ RequestGoes(q, "revoke", "respond")
  /\ tokenRow' = [tokenRow EXCEPT ![carried[q]] = "revoked"]
  /\ replacedBy' = [replacedBy EXCEPT ![carried[q]] = issued[q]]
  /\ raced' = raced \cup Overtaken(carried[q], q)
  /\ UNCHANGED <<expired, given, carried, issued, reqHit>>

\* The old token is spent, where it is not revoked yet.
revokePrevious(q) ==
  /\ RequestGoes(q, "revoke", "respond")
  /\ IF tokenRow[carried[q]] = "live"
     THEN /\ tokenRow' = [tokenRow EXCEPT ![carried[q]] = "revoked"]
          /\ replacedBy' = [replacedBy EXCEPT ![carried[q]] = issued[q]]
          /\ raced' = raced \cup Overtaken(carried[q], q)
     ELSE UNCHANGED <<tokenRow, replacedBy, raced>>
  /\ UNCHANGED <<expired, given, carried, issued, reqHit>>

\* The answer reaches the client, with the new token in a cookie.
respond(q) ==
  /\ RequestGoes(q, "respond", "done")
  /\ given' = given \cup {issued[q]}
  /\ UNCHANGED <<tokenRow, replacedBy, expired, carried, issued, raced, reqHit>>

\* A statement fails, the user is no longer active, the process dies, or the answer
\* is lost: what was written stays.
RequestFails(q) ==
  /\ reqAt[q] \in {"find", "create", "revoke", "respond"}
  /\ reqAt' = [reqAt EXCEPT ![q] = "done"]
  /\ reqHit' = reqHit \cup {q}
  /\ UNCHANGED <<tokenRow, replacedBy, expired, given, carried, issued, raced>>

\* The refresh cookie is bound to the path of the refresh endpoint, so that a browser
\* logs out without it and nothing is revoked; other clients may send it.
logout(q) ==
  /\ RequestGoes(q, "idle", "done")
  /\ \/ UNCHANGED <<tokenRow, raced>>
     \/ \E t \in given :
          /\ tokenRow[t] = "live"
          /\ tokenRow' = [tokenRow EXCEPT ![t] = "revoked"]
          /\ raced' = raced \cup Overtaken(t, q)
  /\ UNCHANGED <<replacedBy, expired, given, carried, issued, reqHit>>

Expire(t) ==
  /\ tokenRow[t] # "none" /\ t \notin expired
  /\ expired' = expired \cup {t}
  /\ UNCHANGED <<tokenRow, replacedBy, given, reqAt, carried, issued, raced, reqHit>>

RequestStep(q) ==
  \/ login(q) \/ refresh(q) \/ logout(q)
  \/ findToken(q) \/ createToken(q) \/ revokePrevious(q) \/ respond(q)
  \/ RequestFails(q)

AuthNext ==
  \/ \E q \in AuthCalls : RequestStep(q)
  \/ \E t \in Tokens : Expire(t)

AuthSpec == AuthInit /\ [][AuthNext]_authVars

-----------------------------------------------------------------------------
(* Properties                                                              *)

\* A refresh that created a token is on record as what replaced the one it came
\* with, or is about to be, or was interrupted, or another request spent that token
\* while this one was on its way: only then does a session have a second living
\* token, or one after its logout.
SessionsAccounted ==
  \A q \in AuthCalls :
    carried[q] # NoToken /\ issued[q] # NoToken =>
      \/ replacedBy[carried[q]] = issued[q]
      \/ reqAt[q] = "revoke"
      \/ q \in raced \cup reqHit

\* What became of a token stands: a revoked one is never good again, and its
\* successor, or that it has none, is never rewritten, however many requests hold it.
SpentStaysSpent ==
  [][\A t \in Tokens :
       tokenRow[t] = "revoked" =>
         tokenRow'[t] = "revoked" /\ replacedBy'[t] = replacedBy[t]]_authVars
=============================================================================
