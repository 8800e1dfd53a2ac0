---------------------------- MODULE BindingStore ----------------------------
(***************************************************************************)
(* InMemoryBindingStore (proxy/binding.py): what each token was issued to, *)
(* and the replay cache of DPoP proof identifiers.  Every method runs      *)
(* under one lock, so every operator below is one atomic operation; t is   *)
(* a token, time the clock the method reads.                               *)
(***************************************************************************)
EXTENDS Identities, Integers

CONSTANT TokenTTL    (* config.TOKEN_TTL_SECONDS, shared with the backend  *)

ASSUME TokenTTLAssumption == TokenTTL \in Nat

VARIABLES
  bindings,      (* [Tokens -> Binding or None]: the _bindings dict         *)
  dpopJtiSeen    (* the _dpop_jti_seen set; nothing ever leaves it          *)

bindingVars == <<bindings, dpopJtiSeen>>

Binding ==
  [jkt: Keys, ja4: JA4s, source_ip: IPs, issued_at: Nat,
   ja4h: Optional(JA4Hs), revoked: BOOLEAN]

ASSUME NoneIsNoBinding == None \notin Binding

BindingStoreTypeOK ==
  /\ bindings \in [Tokens -> Optional(Binding)]
  /\ dpopJtiSeen \subseteq ProofJtis

BindingStoreInit ==
  /\ bindings = [t \in Tokens |-> None]
  /\ dpopJtiSeen = {}

Bind(t, jkt, ja4, ip, issuedAt, ja4h) ==
  bindings' = [bindings EXCEPT ![t] =
    [jkt |-> jkt, ja4 |-> ja4, source_ip |-> ip, issued_at |-> issuedAt,
     ja4h |-> ja4h, revoked |-> FALSE]]

Expired(t, time) == time - bindings[t].issued_at > TokenTTL

(* What get(t) returns ...                                                 *)
Found(t, time) ==
  IF t = None \/ bindings[t] = None \/ Expired(t, time)
    THEN None
    ELSE bindings[t]

(* A bug: the binding is popped when it is read.                           *)
GetAndForget(t, time) ==
  bindings' = IF t # None THEN [bindings EXCEPT ![t] = None] ELSE bindings

(* ... and what it does: an expired binding is deleted on the way.         *)
Get(t, time) ==
  bindings' = IF t # None /\ bindings[t] # None /\ Expired(t, time)
                THEN [bindings EXCEPT ![t] = None]
                ELSE bindings

(* revoke(t) answers whether there was a binding, expired or not.          *)
Revocable(t) == bindings[t] # None

Revoke(t) == bindings' = [bindings EXCEPT ![t].revoked = TRUE]

(* A bug: a replayed proof is taken for a new one.                         *)
DpopJtiAlwaysFresh(j) == TRUE

(* check_and_mark_dpop_jti: the test and the insertion are one step.       *)
DpopJtiFresh(j) == j \notin dpopJtiSeen

MarkDpopJti(j) == dpopJtiSeen' = dpopJtiSeen \cup {j}
=============================================================================
