------------------------------ MODULE LiveSlot ------------------------------
(***************************************************************************)
(* What the reservation in the live-trading service promises, seen from    *)
(* outside: every broker symbol is a slot that at most one execution       *)
(* request holds, a slot is never handed from one request to another       *)
(* without being free in between, and a request whose claim was given up   *)
(* never claims again (one call of the endpoint is one attempt).           *)
(***************************************************************************)
CONSTANTS
  Requests,   \* execution requests, one per call of the endpoint
  Symbols,    \* broker symbols
  NoOne       \* the holder of a free slot

VARIABLES
  holder,     \* symbol -> the request that holds it, or NoOne
  givenUp     \* requests whose claim was released

slotVars == <<holder, givenUp>>

Init ==
  /\ holder = [y \in Symbols |-> NoOne]
  /\ givenUp = {}

Claim(r, y) ==
  /\ holder[y] = NoOne
  /\ r \notin givenUp
  /\ \A z \in Symbols : holder[z] # r
  /\ holder' = [holder EXCEPT ![y] = r]
  /\ UNCHANGED givenUp

Release(r, y) ==
  /\ holder[y] = r
  /\ holder' = [holder EXCEPT ![y] = NoOne]
  /\ givenUp' = givenUp \cup {r}

Next == \E r \in Requests, y \in Symbols : Claim(r, y) \/ Release(r, y)

Spec == Init /\ [][Next]_slotVars
=============================================================================
