-------------------------- MODULE AuthSessionsProofs --------------------------
(***************************************************************************)
(* SessionsAccounted and SpentStaysSpent for any number of tokens and      *)
(* requests.                                                               *)
(***************************************************************************)
EXTENDS AuthSessions, TLAPS

\* Until it is created, a request has no token of its own, and one that is about to
\* spend a token has both.
RequestsCarry ==
  \A q \in AuthCalls :
    /\ reqAt[q] = "idle" => carried[q] = NoToken
    /\ reqAt[q] \in {"find", "revoke"} => carried[q] # NoToken
    /\ reqAt[q] \in {"idle", "find", "create"} => issued[q] = NoToken
    /\ reqAt[q] \in {"revoke", "respond"} => issued[q] # NoToken

\* A refresh that goes on holds a good token, unless it was overtaken.
GoodOrRaced ==
  \A q \in AuthCalls :
    reqAt[q] \in {"create", "revoke"} /\ carried[q] # NoToken =>
      tokenRow[carried[q]] = "live" \/ q \in raced

\* Only a revoked token has a successor.
ReplacedAreRevoked ==
  \A t \in Tokens : replacedBy[t] # NoToken => tokenRow[t] = "revoked"

AuthInv ==
  AuthTypeOK /\ RequestsCarry /\ GoodOrRaced /\ ReplacedAreRevoked /\ SessionsAccounted

-----------------------------------------------------------------------------
\* No request is on its way at the beginning.
LEMMA AuthInitInv == AuthInit => AuthInv
BY AuthAssumption DEF AuthInit, AuthInv, AuthTypeOK, RequestsCarry, GoodOrRaced,
   ReplacedAreRevoked, SessionsAccounted, Maybe

\* Every step keeps the types.
LEMMA AuthStepTypes == AuthTypeOK /\ RequestsCarry /\ [AuthNext]_authVars => AuthTypeOK'
<1> SUFFICES ASSUME AuthTypeOK, RequestsCarry, [AuthNext]_authVars PROVE AuthTypeOK'
  OBVIOUS
<1> USE DEF AuthTypeOK, Maybe, RequestGoes
<1>1. ASSUME NEW q \in AuthCalls, login(q) PROVE AuthTypeOK'
  BY <1>1 DEF login
<1>2. ASSUME NEW q \in AuthCalls, refresh(q) PROVE AuthTypeOK'
  BY <1>2 DEF refresh
<1>3. ASSUME NEW q \in AuthCalls, logout(q) PROVE AuthTypeOK'
  BY <1>3 DEF logout, Overtaken
<1>4. ASSUME NEW q \in AuthCalls, findToken(q) PROVE AuthTypeOK'
  BY <1>4 DEF findToken
<1>5. ASSUME NEW q \in AuthCalls, createToken(q) PROVE AuthTypeOK'
  BY <1>5 DEF createToken
<1>6. ASSUME NEW q \in AuthCalls, revokePrevious(q) PROVE AuthTypeOK'
  BY <1>6 DEF revokePrevious, Overtaken
<1>7. ASSUME NEW q \in AuthCalls, respond(q) PROVE AuthTypeOK'
  BY <1>7 DEF respond, RequestsCarry
<1>8. ASSUME NEW q \in AuthCalls, RequestFails(q) PROVE AuthTypeOK'
  BY <1>8 DEF RequestFails
<1>9. ASSUME NEW t \in Tokens, Expire(t) PROVE AuthTypeOK'
  BY <1>9 DEF Expire
<1>10. CASE UNCHANGED authVars
  BY <1>10 DEF authVars
<1> QED
  BY <1>1, <1>2, <1>3, <1>4, <1>5, <1>6, <1>7, <1>8, <1>9, <1>10
  DEF AuthNext, RequestStep

\* A request keeps the token it came with and gains one when it creates it.
LEMMA CarryStep ==
  AuthInv /\ [AuthNext]_authVars => RequestsCarry'
<1> SUFFICES ASSUME AuthInv, [AuthNext]_authVars PROVE RequestsCarry'
  OBVIOUS
<1> USE AuthAssumption DEF AuthInv, AuthTypeOK, Maybe, RequestGoes, RequestsCarry
<1>1. ASSUME NEW q \in AuthCalls, login(q) PROVE RequestsCarry'
  BY <1>1 DEF login
<1>2. ASSUME NEW q \in AuthCalls, refresh(q) PROVE RequestsCarry'
  BY <1>2 DEF refresh
<1>3. ASSUME NEW q \in AuthCalls, logout(q) PROVE RequestsCarry'
  BY <1>3 DEF logout, Overtaken
<1>4. ASSUME NEW q \in AuthCalls, findToken(q) PROVE RequestsCarry'
  BY <1>4 DEF findToken
<1>5. ASSUME NEW q \in AuthCalls, createToken(q) PROVE RequestsCarry'
  BY <1>5 DEF createToken
<1>6. ASSUME NEW q \in AuthCalls, revokePrevious(q) PROVE RequestsCarry'
  BY <1>6 DEF revokePrevious, Overtaken
<1>7. ASSUME NEW q \in AuthCalls, respond(q) PROVE RequestsCarry'
  BY <1>7 DEF respond
<1>8. ASSUME NEW q \in AuthCalls, RequestFails(q) PROVE RequestsCarry'
  BY <1>8 DEF RequestFails
<1>9. ASSUME NEW t \in Tokens, Expire(t) PROVE RequestsCarry'
  BY <1>9 DEF Expire
<1>10. CASE UNCHANGED authVars
  BY <1>10 DEF authVars
<1> QED
  BY <1>1, <1>2, <1>3, <1>4, <1>5, <1>6, <1>7, <1>8, <1>9, <1>10
  DEF AuthNext, RequestStep

\* Whoever spends a token marks the refreshes it overtakes.
LEMMA GoodStep ==
  AuthInv /\ [AuthNext]_authVars => GoodOrRaced'
<1> SUFFICES ASSUME AuthInv, [AuthNext]_authVars PROVE GoodOrRaced'
  OBVIOUS
<1> USE AuthAssumption DEF AuthInv, AuthTypeOK, Maybe, RequestGoes, GoodOrRaced, RequestsCarry
<1>1. ASSUME NEW q \in AuthCalls, login(q) PROVE GoodOrRaced'
  BY <1>1 DEF login
<1>2. ASSUME NEW q \in AuthCalls, refresh(q) PROVE GoodOrRaced'
  BY <1>2 DEF refresh
<1>3. ASSUME NEW q \in AuthCalls, logout(q) PROVE GoodOrRaced'
  BY <1>3 DEF logout, Overtaken
<1>4. ASSUME NEW q \in AuthCalls, findToken(q) PROVE GoodOrRaced'
  BY <1>4 DEF findToken
<1>5. ASSUME NEW q \in AuthCalls, createToken(q) PROVE GoodOrRaced'
  BY <1>5 DEF createToken
<1>6. ASSUME NEW q \in AuthCalls, revokePrevious(q) PROVE GoodOrRaced'
  BY <1>6 DEF revokePrevious, Overtaken
<1>7. ASSUME NEW q \in AuthCalls, respond(q) PROVE GoodOrRaced'
  BY <1>7 DEF respond
<1>8. ASSUME NEW q \in AuthCalls, RequestFails(q) PROVE GoodOrRaced'
  BY <1>8 DEF RequestFails
<1>9. ASSUME NEW t \in Tokens, Expire(t) PROVE GoodOrRaced'
  BY <1>9 DEF Expire
<1>10. CASE UNCHANGED authVars
  BY <1>10 DEF authVars
<1> QED
  BY <1>1, <1>2, <1>3, <1>4, <1>5, <1>6, <1>7, <1>8, <1>9, <1>10
  DEF AuthNext, RequestStep

\* A successor is written together with the revocation.
LEMMA ReplacedStep ==
  AuthInv /\ [AuthNext]_authVars => ReplacedAreRevoked'
<1> SUFFICES ASSUME AuthInv, [AuthNext]_authVars PROVE ReplacedAreRevoked'
  OBVIOUS
<1> USE AuthAssumption DEF AuthInv, AuthTypeOK, Maybe, RequestGoes, ReplacedAreRevoked, RequestsCarry
<1>1. ASSUME NEW q \in AuthCalls, login(q) PROVE ReplacedAreRevoked'
  BY <1>1 DEF login
<1>2. ASSUME NEW q \in AuthCalls, refresh(q) PROVE ReplacedAreRevoked'
  BY <1>2 DEF refresh
<1>3. ASSUME NEW q \in AuthCalls, logout(q) PROVE ReplacedAreRevoked'
  BY <1>3 DEF logout, Overtaken
<1>4. ASSUME NEW q \in AuthCalls, findToken(q) PROVE ReplacedAreRevoked'
  BY <1>4 DEF findToken
<1>5. ASSUME NEW q \in AuthCalls, createToken(q) PROVE ReplacedAreRevoked'
  BY <1>5 DEF createToken
<1>6. ASSUME NEW q \in AuthCalls, revokePrevious(q) PROVE ReplacedAreRevoked'
  BY <1>6 DEF revokePrevious, Overtaken
<1>7. ASSUME NEW q \in AuthCalls, respond(q) PROVE ReplacedAreRevoked'
  BY <1>7 DEF respond
<1>8. ASSUME NEW q \in AuthCalls, RequestFails(q) PROVE ReplacedAreRevoked'
  BY <1>8 DEF RequestFails
<1>9. ASSUME NEW t \in Tokens, Expire(t) PROVE ReplacedAreRevoked'
  BY <1>9 DEF Expire
<1>10. CASE UNCHANGED authVars
  BY <1>10 DEF authVars
<1> QED
  BY <1>1, <1>2, <1>3, <1>4, <1>5, <1>6, <1>7, <1>8, <1>9, <1>10
  DEF AuthNext, RequestStep

\* A refresh that finds its token spent has been overtaken.
LEMMA AccountedStep ==
  AuthInv /\ [AuthNext]_authVars => SessionsAccounted'
<1> SUFFICES ASSUME AuthInv, [AuthNext]_authVars PROVE SessionsAccounted'
  OBVIOUS
<1> USE AuthAssumption DEF AuthInv, AuthTypeOK, Maybe, RequestGoes, SessionsAccounted, RequestsCarry, GoodOrRaced, ReplacedAreRevoked
<1>1. ASSUME NEW q \in AuthCalls, login(q) PROVE SessionsAccounted'
  BY <1>1 DEF login
<1>2. ASSUME NEW q \in AuthCalls, refresh(q) PROVE SessionsAccounted'
  BY <1>2 DEF refresh
<1>3. ASSUME NEW q \in AuthCalls, logout(q) PROVE SessionsAccounted'
  BY <1>3 DEF logout, Overtaken
<1>4. ASSUME NEW q \in AuthCalls, findToken(q) PROVE SessionsAccounted'
  BY <1>4 DEF findToken
<1>5. ASSUME NEW q \in AuthCalls, createToken(q) PROVE SessionsAccounted'
  BY <1>5 DEF createToken
<1>6. ASSUME NEW q \in AuthCalls, revokePrevious(q) PROVE SessionsAccounted'
  BY <1>6 DEF revokePrevious, Overtaken
<1>7. ASSUME NEW q \in AuthCalls, respond(q) PROVE SessionsAccounted'
  BY <1>7 DEF respond
<1>8. ASSUME NEW q \in AuthCalls, RequestFails(q) PROVE SessionsAccounted'
  BY <1>8 DEF RequestFails
<1>9. ASSUME NEW t \in Tokens, Expire(t) PROVE SessionsAccounted'
  BY <1>9 DEF Expire
<1>10. CASE UNCHANGED authVars
  BY <1>10 DEF authVars
<1> QED
  BY <1>1, <1>2, <1>3, <1>4, <1>5, <1>6, <1>7, <1>8, <1>9, <1>10
  DEF AuthNext, RequestStep

-----------------------------------------------------------------------------
\* The invariant is inductive.
THEOREM AuthInvariant == AuthSpec => []AuthInv
<1>1. AuthInv /\ [AuthNext]_authVars => AuthInv'
  BY AuthStepTypes, CarryStep, GoodStep, ReplacedStep, AccountedStep DEF AuthInv
<1> QED
  BY <1>1, AuthInitInv, PTL DEF AuthSpec

\* Every refresh accounts for the token it created: the session it belongs to goes on
\* in it alone, unless the refresh was interrupted or overtaken.
THEOREM SessionsAreAccounted == AuthSpec => []SessionsAccounted
BY AuthInvariant, PTL DEF AuthInv

\* No request revives a token or rewrites its successor.
THEOREM TokensStaySpent == AuthSpec => SpentStaysSpent
<1> DEFINE Stays(t) ==
      tokenRow[t] = "revoked" => tokenRow'[t] = "revoked" /\ replacedBy'[t] = replacedBy[t]
<1>1. ASSUME AuthTypeOK, [AuthNext]_authVars, NEW t \in Tokens PROVE Stays(t)
  <2> USE DEF AuthTypeOK
  <2>1. ASSUME NEW q \in AuthCalls, createToken(q) PROVE Stays(t)
    BY <1>1, <2>1 DEF createToken
  <2>2. ASSUME NEW q \in AuthCalls, revokePrevious(q) PROVE Stays(t)
    BY <1>1, <2>2 DEF revokePrevious
  <2>3. ASSUME NEW q \in AuthCalls, logout(q) PROVE Stays(t)
    BY <1>1, <2>3 DEF logout
  <2>4. CASE UNCHANGED <<tokenRow, replacedBy>>
    BY <2>4
  <2> QED
    BY <1>1, <2>1, <2>2, <2>3, <2>4
    DEF AuthNext, RequestStep, login, refresh, findToken, respond, RequestFails,
        Expire, authVars
<1>2. AuthTypeOK /\ [AuthNext]_authVars => [\A t \in Tokens : Stays(t)]_authVars
  BY <1>1
<1>3. AuthSpec => []AuthTypeOK
  BY AuthInvariant, PTL DEF AuthInv
<1> QED
  BY <1>2, <1>3, PTL DEF AuthSpec, SpentStaysSpent
=============================================================================
