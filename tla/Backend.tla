------------------------------ MODULE Backend -------------------------------
(***************************************************************************)
(* The mock bank (backend/auth.py, backend/main.py) as far as the proxy    *)
(* relies on it: it issues tokens bound to the key of the proof it was     *)
(* shown, and verifies token and proof again on every other request.  It   *)
(* keeps no replay cache of its own.                                       *)
(***************************************************************************)
EXTENDS Dpop, BindingStore

VARIABLES
  tokens,      (* [Tokens -> TokenRecord or None]: the tokens signed so far *)
  executed     (* history: the [token, proof] pairs whose request was run   *)

backendVars == <<tokens, executed>>

(* cnf.jkt and exp of a token, and whether the process that signed it (the *)
(* signing key is drawn at start-up) is still the one running.             *)
TokenRecord == [jkt: Keys, exp: Nat, verifiable: BOOLEAN]

ASSUME NoneIsNoToken == None \notin TokenRecord

(* A request of the protected API, identified by its token and proof jti.  *)
Use == [token: Tokens, proof: ProofJtis]

BackendTypeOK ==
  /\ tokens \in [Tokens -> Optional(TokenRecord)]
  /\ executed \subseteq Use

BackendInit ==
  /\ tokens = [t \in Tokens |-> None]
  /\ executed = {}

(* issue_token: t is the fresh jti that secrets.token_urlsafe yields.      *)
IssueToken(t, proof, time) ==
  /\ tokens[t] = None
  /\ tokens' = [tokens EXCEPT ![t] =
       [jkt |-> proof.jkt, exp |-> time + TokenTTL, verifiable |-> TRUE]]

(* verify_access_token: signature under the current key, exp in the future.*)
TokenVerifies(t, time) ==
  /\ t # None
  /\ tokens[t] # None
  /\ tokens[t].verifiable
  /\ time < tokens[t].exp

(* _authenticate, in the order of its three checks.                        *)
Authenticates(t, proof, time) ==
  /\ TokenVerifies(t, time)
  /\ proof # None
  /\ ValidDpop(proof, "api", time)
  /\ proof.jkt = tokens[t].jkt

(* A restarted backend signs and verifies with another key.                *)
LoseSigningKey ==
  tokens' = [t \in Tokens |->
    IF tokens[t] = None THEN None ELSE [tokens[t] EXCEPT !.verifiable = FALSE]]
=============================================================================
