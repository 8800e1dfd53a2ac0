------------------------------- MODULE Engine -------------------------------
(***************************************************************************)
(* The decision engine (proxy/engine.py): hard signals block, soft signals *)
(* score.  A binding b is a record of the binding store, dpop a validated  *)
(* proof [valid, jkt], and the result a record [outcome, reason, risk].    *)
(* The weights and thresholds are those proxy/policy.py accepts.           *)
(***************************************************************************)
EXTENDS Identities, Integers

CONSTANTS
  RiskThreshold,        (* policy.yaml risk_threshold                       *)
  ChallengeThreshold,   (* policy.yaml challenge_threshold                  *)
  IpWeight,             (* soft_signal_weights.ip_delta                     *)
  Ja4hWeight            (* soft_signal_weights.ja4h_delta                   *)

(* What load_policy insists on: a step-up band that is not empty, and      *)
(* weights that never lower the score.                                     *)
AcceptedPolicy ==
  /\ RiskThreshold \in Nat \ {0}
  /\ ChallengeThreshold \in Nat
  /\ ChallengeThreshold < RiskThreshold
  /\ IpWeight \in Nat
  /\ Ja4hWeight \in Nat

(* The addon does not start with a policy that load_policy raises on.      *)
ASSUME PolicyAssumption == AcceptedPolicy

IpDelta(b, ip) == ip # b.source_ip

(* A missing fingerprint on either side is no evidence of a change.        *)
Ja4hDelta(b, ja4h) ==
  /\ ja4h # None
  /\ b.ja4h # None
  /\ ja4h # b.ja4h

(* The score, and a bug that leaves the headers out.                       *)
RiskOfAddress(b, ip, ja4h) == IF IpDelta(b, ip) THEN IpWeight ELSE 0

Risk(b, ip, ja4h) ==
  (IF IpDelta(b, ip) THEN IpWeight ELSE 0)
    + (IF Ja4hDelta(b, ja4h) THEN Ja4hWeight ELSE 0)

(* A revoked token, and a bug that forgets to look.                        *)
NeverRevoked(b) == FALSE

IsRevoked(b) == b.revoked

(* The TLS stack the token was issued to, and a bug that takes any.        *)
AnyJa4Matches(b, ja4) == TRUE

Ja4Matches(b, ja4) == ja4 = b.ja4

(* Hard signals in the order the engine tests them, then the score.        *)
Reason(b, ja4, dpop, ip, ja4h) ==
  IF IsRevoked(b) THEN "token revoked"
  ELSE IF ~dpop.valid THEN "DPoP invalid"
  ELSE IF ~Ja4Matches(b, ja4) THEN "JA4 mismatch"
  ELSE IF dpop.jkt # b.jkt THEN "DPoP jkt mismatch"
  ELSE IF Risk(b, ip, ja4h) >= RiskThreshold THEN "risk threshold exceeded"
  ELSE "ok"

Evaluate(b, ja4, dpop, ip, ja4h) ==
  LET reason == Reason(b, ja4, dpop, ip, ja4h)
  IN  [outcome |-> IF reason = "ok" THEN "PASS" ELSE "BLOCK",
       reason  |-> reason,
       risk    |-> Risk(b, ip, ja4h)]

(* The addon holds a PASS in this band for step-up.                        *)
InChallengeBand(decision) ==
  /\ decision.outcome = "PASS"
  /\ ChallengeThreshold <= decision.risk
  /\ decision.risk < RiskThreshold
=============================================================================
