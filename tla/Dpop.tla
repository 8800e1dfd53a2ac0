-------------------------------- MODULE Dpop --------------------------------
(***************************************************************************)
(* Validation of a DPoP proof (proxy/dpop.py), which the proxy and the     *)
(* backend both run on the proof they receive.  A proof is a record; its   *)
(* field "signed" stands for everything that makes the JWT itself good:    *)
(* typ, algorithm, a P-256 jwk, all required claims, a signature by that   *)
(* jwk.  htu and htm are the endpoint the proof was made for.              *)
(***************************************************************************)
EXTENDS Identities, Integers

CONSTANT DpopWindow    (* config.DPOP_FRESHNESS_WINDOW_SECONDS              *)

ASSUME DpopWindowAssumption == DpopWindow \in Nat

Proof ==
  [jti: ProofJtis, jkt: Keys, htu: Paths, signed: BOOLEAN,
   iat: Nat, nonce: Nat]

ASSUME NoneIsNoProof == None \notin Proof

(* PyJWT refuses an iat in the future, the module itself one too far away. *)
FreshProof(p, time) ==
  /\ p.iat <= time
  /\ time - p.iat <= DpopWindow

ValidDpop(p, path, time) ==
  /\ p.signed
  /\ p.htu = path
  /\ FreshProof(p, time)
=============================================================================
