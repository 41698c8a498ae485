---------------------------- MODULE TradeConsent ----------------------------
(***************************************************************************)
(* What the decision of one signal promises, whoever evaluates, decides    *)
(* and approves it and however their steps interleave: the supervisor      *)
(* speaks once, an OPERATE comes after an approved assessment and in a     *)
(* mode that trades, a person consents to an OPERATE alone, and a trade is *)
(* asked for after an OPERATE of the paper mode or after a consent.        *)
(***************************************************************************)
CONSTANT Modes      \* system modes; "OFF" allows no trading

VARIABLES
  approved,   \* whether the signal has an approved assessment
  decision,   \* what the supervisor decided, and the mode it decided in
  consented,  \* whether a person approved the signal for paper trading
  requested   \* whether a paper trade was asked for

consentVars == <<approved, decision, consented, requested>>

Init ==
  /\ ~approved /\ ~consented /\ ~requested
  /\ decision = [decision |-> "none", mode |-> "OFF"]

Approve ==
  /\ ~approved
  /\ approved' = TRUE
  /\ UNCHANGED <<decision, consented, requested>>

Decide(d, m) ==
  /\ decision.decision = "none"
  /\ d = "OPERATE" => approved /\ m # "OFF"
  /\ decision' = [decision |-> d, mode |-> m]
  /\ UNCHANGED <<approved, consented, requested>>

Consent ==
  /\ ~consented
  /\ decision.decision = "OPERATE"
  /\ consented' = TRUE
  /\ UNCHANGED <<approved, decision, requested>>

Request ==
  /\ ~requested
  /\ consented \/ decision = [decision |-> "OPERATE", mode |-> "PAPER"]
  /\ requested' = TRUE
  /\ UNCHANGED <<approved, decision, consented>>

Next ==
  \/ Approve
  \/ \E d \in {"OPERATE", "WAIT", "BLOCK"}, m \in Modes : Decide(d, m)
  \/ Consent
  \/ Request

Spec == Init /\ [][Next]_consentVars
=============================================================================
