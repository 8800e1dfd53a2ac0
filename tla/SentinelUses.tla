---------------------------- MODULE SentinelUses ----------------------------
(***************************************************************************)
(* How often a token is used, and for how long: theorems of Sentinel about *)
(* the replay cache, about what reaches the backend, about expiry, and     *)
(* about TokenGuard, the promise all of this adds up to.                   *)
(***************************************************************************)
EXTENDS SentinelProofs

(* A request that is let pass: its proof was not in the cache and is now,  *)
(* its binding stays, and nothing but its flow goes on its way.            *)
UsesUp(r) ==
  /\ \E nonce : PassesWith(r, nonce)
  /\ r.path = "api"
  /\ r.proof # None
  /\ r.proof.jti \notin dpopJtiSeen
  /\ r.proof.jti \in dpopJtiSeen'
  /\ UNCHANGED bindings
  /\ upstream' = upstream \cup {FlowOf(r, None)}

(* Any other request: with a working audit file, only token requests that  *)
(* go on to the token endpoint are added to the flows on their way.        *)
LetsNothingPass ==
  /\ UNCHANGED <<admitted, passes>>
  /\ ~AuditMayFail => \A f \in upstream' : f \in upstream \/ f.path = "token"

LEMMA RefusalLetsNothingPass ==
  ASSUME NEW r, NEW kind, NEW reason, NEW risk, Refuse(r, kind, reason, risk)
  PROVE  LetsNothingPass
<1>1. ASSUME ~AuditMayFail  PROVE upstream' = upstream
  BY <1>1 DEF Refuse, AuditOutcomes
<1> QED BY <1>1 DEF Refuse, LetsNothingPass

LEMMA PassUsesUp ==
  ASSUME NEW r, NEW kind, NEW risk, NEW nonce, FindsBinding(r),
         DecisionOn(r).outcome = "PASS", Admit(r, kind, risk, nonce)
  PROVE  UsesUp(r)
<1>1. PassesWith(r, nonce)
  BY DEF Admit, PassesWith, AdmissionOf
<1>2. UNCHANGED bindings
  BY DEF FindsBinding, Found, Get
<1>3. /\ r.path = "api" /\ r.proof # None
      /\ r.proof.jti \notin dpopJtiSeen
      /\ r.proof.jti \in dpopJtiSeen'
  BY DEF FindsBinding, AcceptsProof, DpopJtiFresh, MarkDpopJti
<1> QED BY <1>1, <1>2, <1>3 DEF UsesUp, Admit

(* The request hook never takes a proof out of the cache, and either uses  *)
(* one up or lets nothing pass.                                            *)
LEMMA RequestUses ==
  ASSUME NEW r, Request(r)
  PROVE  /\ dpopJtiSeen \subseteq dpopJtiSeen'
         /\ UsesUp(r) \/ LetsNothingPass
<1>1. ASSUME AcceptsProof(r)  PROVE dpopJtiSeen \subseteq dpopJtiSeen'
  BY <1>1 DEF AcceptsProof, MarkDpopJti
<1>2. CASE RateLimited(r) \/ MissingProof(r) \/ InvalidProof(r) \/ ReplayedProof(r)
  BY <1>2, RefusalLetsNothingPass
  DEF RateLimited, MissingProof, InvalidProof, ReplayedProof, bindingVars
<1>3. CASE ForwardTokenRequest(r)
  BY <1>1, <1>3 DEF ForwardTokenRequest, FlowOf, LetsNothingPass
<1>4. CASE UnboundToken(r) \/ BlockedByEngine(r) \/ StepUpRequired(r)
  BY <1>1, <1>4, RefusalLetsNothingPass
  DEF UnboundToken, BlockedByEngine, StepUpRequired, FindsBinding
<1>5. CASE PassedByEngine(r)
  BY <1>1, <1>5, PassUsesUp DEF PassedByEngine, FindsBinding
<1>6. CASE StepUpPassed(r)
  BY <1>1, <1>6, PassUsesUp DEF StepUpPassed, FindsBinding, InChallengeBand
<1> QED BY <1>2, <1>3, <1>4, <1>5, <1>6 DEF Request

(***************************************************************************)
(* What the hooks and the backend do to a binding and to a token.          *)
(***************************************************************************)
LEMMA BindEffect ==
  ASSUME TypeOK, NEW reply \in replies, BindIssuedToken(reply)
  PROVE  /\ UNCHANGED <<tokens, admitted, passes, dpopJtiSeen, now>>
         /\ replies' = replies \ {reply}
         /\ reply.token \in Tokens
         /\ reply.meta.jkt \in Keys /\ reply.meta.ja4 \in JA4s
         /\ bindings'[reply.token] # None
         /\ bindings'[reply.token].jkt = reply.meta.jkt
         /\ bindings'[reply.token].ja4 = reply.meta.ja4
         /\ bindings'[reply.token].ja4h = reply.meta.ja4h
         /\ bindings'[reply.token].source_ip = reply.meta.source_ip
         /\ bindings'[reply.token].issued_at = now
         /\ ~bindings'[reply.token].revoked
         /\ \A t \in Tokens : t # reply.token => bindings'[t] = bindings[t]
<1>1. /\ UNCHANGED <<tokens, admitted, passes, dpopJtiSeen, now>>
      /\ replies' = replies \ {reply}
  BY DEF BindIssuedToken, HookFrame, backendVars
<1>2. reply.token \in Tokens /\ reply.meta \in Metadata /\ reply.meta.ja4 \in JA4s
  BY DEF BindIssuedToken, Bindable, TypeOK, Reply, Optional, Metadata
<1> DEFINE b == [jkt |-> reply.meta.jkt, ja4 |-> reply.meta.ja4,
                 source_ip |-> reply.meta.source_ip, issued_at |-> now,
                 ja4h |-> reply.meta.ja4h, revoked |-> FALSE]
<1>3. b \in Binding
  BY <1>2 DEF Binding, Metadata, TypeOK
<1>4. /\ b # None /\ b.jkt = reply.meta.jkt /\ b.ja4 = reply.meta.ja4
      /\ b.ja4h = reply.meta.ja4h /\ b.source_ip = reply.meta.source_ip
      /\ b.issued_at = now /\ ~b.revoked
  BY <1>3, NoneIsNoBinding
<1>5. bindings' = [bindings EXCEPT ![reply.token] = b]
  BY DEF BindIssuedToken, Bind
<1>6. /\ bindings'[reply.token] = b
      /\ \A t \in Tokens : t # reply.token => bindings'[t] = bindings[t]
  BY <1>2, <1>5 DEF TypeOK, BindingStoreTypeOK
<1>7. reply.meta.jkt \in Keys
  BY <1>2 DEF Metadata
<1> HIDE DEF b
<1> QED BY <1>1, <1>2, <1>6, <1>4, <1>7

LEMMA RevokeEffect ==
  ASSUME TypeOK, NEW t \in Tokens, RevokeToken(t)
  PROVE  /\ UNCHANGED <<tokens, admitted, passes, dpopJtiSeen, replies, now>>
         /\ bindings[t] # None
         /\ bindings'[t] # None
         /\ bindings'[t].revoked
         /\ bindings'[t].jkt = bindings[t].jkt
         /\ bindings'[t].ja4 = bindings[t].ja4
         /\ bindings'[t].ja4h = bindings[t].ja4h
         /\ bindings'[t].source_ip = bindings[t].source_ip
         /\ bindings'[t].issued_at = bindings[t].issued_at
         /\ \A u \in Tokens : u # t => bindings'[u] = bindings[u]
<1>1. UNCHANGED <<tokens, admitted, passes, dpopJtiSeen, replies, now>>
  BY DEF RevokeToken, HookFrame, backendVars
<1>2. bindings[t] # None /\ bindings[t] \in Binding
  BY DEF RevokeToken, Revocable, TypeOK, BindingStoreTypeOK, Optional
<1> DEFINE b == [bindings[t] EXCEPT !.revoked = TRUE]
<1>3. /\ b \in Binding /\ b.revoked /\ b.issued_at = bindings[t].issued_at
      /\ b.jkt = bindings[t].jkt /\ b.ja4 = bindings[t].ja4
      /\ b.ja4h = bindings[t].ja4h /\ b.source_ip = bindings[t].source_ip
  BY <1>2 DEF Binding
<1>4. bindings' = [bindings EXCEPT ![t] = b]
  BY DEF RevokeToken, Revoke
<1> HIDE DEF b
<1>5. bindings'[t] = b /\ \A u \in Tokens : u # t => bindings'[u] = bindings[u]
  BY <1>4 DEF TypeOK, BindingStoreTypeOK
<1> QED BY <1>1, <1>2, <1>3, <1>5, NoneIsNoBinding

LEMMA IssueEffect ==
  ASSUME TypeOK, NEW f \in upstream, NEW t \in Tokens, BackendIssues(f, t)
  PROVE  /\ UNCHANGED <<bindings, admitted, passes, dpopJtiSeen, now>>
         /\ replies' = replies \cup {[token |-> t, meta |-> f.meta]}
         /\ tokens[t] = None
         /\ tokens'[t] # None
         /\ tokens'[t].exp = now + TokenTTL
         /\ \A u \in Tokens : u # t => tokens'[u] = tokens[u]
<1>1. /\ UNCHANGED <<bindings, admitted, passes, dpopJtiSeen, now>>
      /\ replies' = replies \cup {[token |-> t, meta |-> f.meta]}
  BY DEF BackendIssues, ServerFrame, bindingVars, historyVars
<1>2. f.proof \in Proof
  BY DEF BackendIssues, TokenRequestValid, TypeOK, Flow, Optional
<1> DEFINE new == [jkt |-> f.proof.jkt, exp |-> now + TokenTTL, verifiable |-> TRUE]
<1>3. new \in TokenRecord
  BY <1>2, TokenTTLAssumption DEF Proof, TypeOK, TokenRecord
<1>4. new # None /\ new.exp = now + TokenTTL
  BY <1>3, NoneIsNoToken
<1>5. tokens[t] = None /\ tokens' = [tokens EXCEPT ![t] = new]
  BY DEF BackendIssues, IssueToken
<1>6. tokens'[t] = new /\ \A u \in Tokens : u # t => tokens'[u] = tokens[u]
  BY <1>5 DEF TypeOK, BackendTypeOK
<1> HIDE DEF new
<1> QED BY <1>1, <1>4, <1>5, <1>6

(* A restarted backend forgets neither whose its tokens were nor how long. *)
LEMMA RestartEffect ==
  ASSUME TypeOK, BackendRestarts
  PROVE  /\ UNCHANGED <<bindings, admitted, passes, dpopJtiSeen, replies, now>>
         /\ \A t \in Tokens :
              /\ tokens'[t] = None <=> tokens[t] = None
              /\ tokens[t] # None => tokens'[t].exp = tokens[t].exp
<1>1. UNCHANGED <<bindings, admitted, passes, dpopJtiSeen, replies, now>>
  BY DEF BackendRestarts, bindingVars, historyVars
<1>2. \A t \in Tokens :
        tokens[t] # None =>
          /\ [tokens[t] EXCEPT !.verifiable = FALSE] \in TokenRecord
          /\ [tokens[t] EXCEPT !.verifiable = FALSE].exp = tokens[t].exp
  BY DEF TypeOK, BackendTypeOK, TokenRecord, Optional
<1> QED BY <1>1, <1>2, NoneIsNoToken DEF BackendRestarts, LoseSigningKey

(***************************************************************************)
(* One use of a token per proof.                                           *)
(***************************************************************************)
LEMMA UsedUpStep ==
  TypeOK /\ SenderInvariant /\ ProofsAreUsedUp /\ [Next]_vars => ProofsAreUsedUp'
<1> SUFFICES ASSUME TypeOK, SenderInvariant, ProofsAreUsedUp, [Next]_vars
             PROVE  ProofsAreUsedUp'
  OBVIOUS
<1>1. ASSUME UNCHANGED admitted, dpopJtiSeen \subseteq dpopJtiSeen',
             \A a \in admitted : bindings[a.token] = None => bindings'[a.token] = None
      PROVE  ProofsAreUsedUp'
  BY <1>1 DEF ProofsAreUsedUp
<1>2. \A a \in admitted : a.token \in Tokens
  BY DEF TypeOK, Admission
<1>3. ASSUME NEW r \in Requests, Request(r)  PROVE ProofsAreUsedUp'
  <2>1. dpopJtiSeen \subseteq dpopJtiSeen'
    BY <1>3, RequestUses
  <2>2. \A t \in Tokens : bindings'[t] \in {bindings[t], None}
    BY <1>3, RequestEffect
  <2>3. CASE UsesUp(r)
    <3>1. PICK nonce : admitted' = admitted \cup {AdmissionOf(r, nonce)}
      BY <2>3 DEF UsesUp, PassesWith
    <3>2. AdmissionOf(r, nonce).proof \in dpopJtiSeen'
      BY <2>3 DEF UsesUp, AdmissionOf
    <3> QED BY <1>2, <2>1, <2>2, <3>1, <3>2 DEF ProofsAreUsedUp
  <2>4. CASE LetsNothingPass
    BY <1>1, <1>2, <2>1, <2>2, <2>4 DEF LetsNothingPass
  <2> QED BY <1>3, <2>3, <2>4, RequestUses
<1>4. ASSUME NEW reply \in replies, BindIssuedToken(reply)
      PROVE  ProofsAreUsedUp'
  <2>1. UNCHANGED <<admitted, dpopJtiSeen>>
    BY <1>4 DEF BindIssuedToken, HookFrame
  <2>2. \A t \in Tokens : t # reply.token => bindings'[t] = bindings[t]
    BY <1>4 DEF BindIssuedToken, Bind, TypeOK, BindingStoreTypeOK
  <2>3. \A a \in admitted : a.token # reply.token
    BY DEF SenderInvariant, AdmittedStayBound
  <2> QED BY <1>1, <1>2, <2>1, <2>2, <2>3
<1>5. ASSUME NEW t \in Tokens, RevokeToken(t)  PROVE ProofsAreUsedUp'
  <2>1. UNCHANGED <<admitted, dpopJtiSeen>> /\ bindings[t] # None
    BY <1>5 DEF RevokeToken, Revocable, HookFrame
  <2>2. \A u \in Tokens : u # t => bindings'[u] = bindings[u]
    BY <1>5 DEF RevokeToken, Revoke, TypeOK, BindingStoreTypeOK
  <2> QED BY <1>1, <1>2, <2>1, <2>2
<1>6. CASE ProxyRestarts
  BY <1>2, <1>6 DEF ProxyRestarts, historyVars, ProofsAreUsedUp
<1>7. ASSUME UNCHANGED <<bindings, dpopJtiSeen, admitted>>  PROVE ProofsAreUsedUp'
  BY <1>7 DEF ProofsAreUsedUp
<1> QED
  BY <1>3, <1>4, <1>5, <1>6, <1>7
  DEF Next, vars, TlsClientHello, IgnoreReply, LoseReply, RevokeUnknown,
      BackendIssues, BackendExecutes, BackendRefuses, LoseRequest,
      BackendRestarts, Tick, HookFrame, ServerFrame, bindingVars, historyVars

LEMMA UsedUpInit == Init => ProofsAreUsedUp
BY DEF Init, ProofsAreUsedUp

(* No token passes twice with one proof, although a restart of the proxy   *)
(* empties the replay cache: it forgets the bindings with it.              *)
THEOREM ProofsAreUsedUpForGood == Spec => []ProofsAreUsedUp
BY TypeCorrect, SenderInvariantHolds, UsedUpInit, UsedUpStep, PTL DEF Spec

(***************************************************************************)
(* What the backend sees and what it has run.                              *)
(***************************************************************************)

(* A use of a token that was let pass.                                     *)
WasAdmitted(t, j) == \E a \in admitted : a.token = t /\ a.proof = j

LEMMA UseInit == Init => UseInvariant
BY DEF Init, BackendInit, UseInvariant, ProofsAreUsedUp, BackendSeesOnlyAdmitted,
       NotExecutedTwice

(* Whatever takes flows off their way, runs nothing and forgets no use     *)
(* keeps the invariant.                                                    *)
LEMMA FewerFlows ==
  ASSUME UseInvariant, ProofsAreUsedUp', UNCHANGED <<admitted, executed>>,
         \A f \in upstream' : f \in upstream \/ f.path = "token"
  PROVE  UseInvariant'
BY DEF UseInvariant, BackendSeesOnlyAdmitted, NotExecutedTwice

(* A use that is let pass is a new one: nothing on its way and nothing     *)
(* that was run has its token and its proof.                               *)
LEMMA NewUse ==
  ASSUME TypeOK, UseInvariant, ProofsAreUsedUp', NEW r,
         UsesUp(r), UNCHANGED executed
  PROVE  UseInvariant'
<1>1. PICK nonce : PassesWith(r, nonce)
  BY DEF UsesUp
<1>2. bindings[r.token] # None
  BY <1>1, PassMatches DEF PassesWith, FindsBinding
<1>3. ~WasAdmitted(r.token, r.proof.jti)
  BY <1>2 DEF UseInvariant, ProofsAreUsedUp, UsesUp, WasAdmitted
<1>4. WasAdmitted(r.token, r.proof.jti)'
  <2>1. AdmissionOf(r, nonce) \in admitted'
    BY <1>1 DEF PassesWith
  <2>2. /\ AdmissionOf(r, nonce).token = r.token
        /\ AdmissionOf(r, nonce).proof = r.proof.jti
    BY DEF AdmissionOf
  <2> QED BY <2>1, <2>2 DEF WasAdmitted
<1>5. \A t, j : WasAdmitted(t, j) => WasAdmitted(t, j)'
  BY <1>1 DEF PassesWith, WasAdmitted
<1> DEFINE new == FlowOf(r, None)
<1>6. /\ upstream' = upstream \cup {new}
      /\ new.path = "api" /\ new.token = r.token /\ new.proof = r.proof
      /\ r.proof # None
  BY DEF UsesUp, FlowOf
<1> HIDE DEF new
<1>7. \A f \in upstream :
        f.path = "api" => f.proof # None /\ WasAdmitted(f.token, f.proof.jti)
  BY DEF UseInvariant, BackendSeesOnlyAdmitted, WasAdmitted
<1>8. \A e \in executed : WasAdmitted(e.token, e.proof)
  BY DEF UseInvariant, WasAdmitted
<1>9. BackendSeesOnlyAdmitted'
  BY <1>4, <1>5, <1>6, <1>7 DEF BackendSeesOnlyAdmitted, WasAdmitted
<1>10. NotExecutedTwice'
  BY <1>3, <1>6, <1>8 DEF UseInvariant, NotExecutedTwice
<1>11. \A e \in executed' :
         \E a \in admitted' : a.token = e.token /\ a.proof = e.proof
  BY <1>5, <1>8 DEF WasAdmitted
<1>12. \A f, g \in upstream' :
         /\ f.path = "api" /\ g.path = "api"
         /\ f.token = g.token /\ f.proof.jti = g.proof.jti
         => f = g
  BY <1>3, <1>6, <1>7 DEF UseInvariant
<1> QED BY <1>9, <1>10, <1>11, <1>12 DEF UseInvariant

(* The backend runs what is on its way, and then it is not on its way any  *)
(* more.                                                                   *)
LEMMA ExecutedOnce ==
  ASSUME UseInvariant, ProofsAreUsedUp', NEW f \in upstream, BackendExecutes(f)
  PROVE  UseInvariant'
<1>1. /\ f.path = "api"
      /\ executed' = executed \cup {[token |-> f.token, proof |-> f.proof.jti]}
      /\ upstream' = upstream \ {f}
      /\ UNCHANGED admitted
  BY DEF BackendExecutes, ServerFrame, historyVars
<1>2. BackendSeesOnlyAdmitted'
  BY <1>1 DEF UseInvariant, BackendSeesOnlyAdmitted
<1>3. NotExecutedTwice'
  <2> SUFFICES ASSUME NEW g \in upstream', g.path = "api",
                      NEW e \in executed', e.token = g.token, e.proof = g.proof.jti
               PROVE  FALSE
    BY DEF NotExecutedTwice
  <2>1. g \in upstream /\ g # f
    BY <1>1
  <2>2. e \notin executed
    BY <2>1 DEF UseInvariant, NotExecutedTwice
  <2>3. e.token = f.token /\ e.proof = f.proof.jti
    BY <1>1, <2>2
  <2> QED BY <1>1, <2>1, <2>3 DEF UseInvariant
<1>4. \A e \in executed' :
        \E a \in admitted' : a.token = e.token /\ a.proof = e.proof
  BY <1>1 DEF UseInvariant, BackendSeesOnlyAdmitted
<1> QED BY <1>1, <1>2, <1>3, <1>4 DEF UseInvariant

LEMMA UseStep ==
  ASSUME ~AuditMayFail
  PROVE  TypeOK /\ SenderInvariant /\ UseInvariant /\ [Next]_vars => UseInvariant'
<1> SUFFICES ASSUME TypeOK, SenderInvariant, UseInvariant, [Next]_vars
             PROVE  UseInvariant'
  OBVIOUS
<1>1. ProofsAreUsedUp'
  BY UsedUpStep DEF UseInvariant
<1>2. ASSUME NEW r \in Requests, Request(r)  PROVE UseInvariant'
  <2>1. UNCHANGED executed
    BY <1>2, RequestEffect
  <2>2. CASE UsesUp(r)
    BY <1>1, <2>1, <2>2, NewUse
  <2>3. CASE LetsNothingPass
    BY <1>1, <2>1, <2>3, FewerFlows DEF LetsNothingPass
  <2> QED BY <1>2, <2>2, <2>3, RequestUses
<1>3. ASSUME NEW f \in upstream, BackendExecutes(f)  PROVE UseInvariant'
  BY <1>1, <1>3, ExecutedOnce
<1>4. ASSUME UNCHANGED <<admitted, executed>>, upstream' \subseteq upstream
      PROVE  UseInvariant'
  BY <1>1, <1>4, FewerFlows
<1> QED
  BY <1>2, <1>3, <1>4
  DEF Next, vars, TlsClientHello, BindIssuedToken, IgnoreReply, LoseReply,
      RevokeToken, RevokeUnknown, BackendIssues, BackendRefuses, LoseRequest,
      ProxyRestarts, BackendRestarts, Tick, HookFrame, ServerFrame, backendVars,
      historyVars

(* While audit entries can be written, the invariant of the backend's side *)
(* holds.  (An entry that cannot be written lets the blocked request go on *)
(* its way: without the assumption the theorem is false.)                  *)
THEOREM UseInvariantHolds ==
  ASSUME ~AuditMayFail
  PROVE  Spec => []UseInvariant
<1>1. TypeOK /\ SenderInvariant /\ UseInvariant /\ [Next]_vars => UseInvariant'
  BY UseStep
<1> QED BY <1>1, TypeCorrect, SenderInvariantHolds, UseInit, PTL DEF Spec

(* The backend, which has no replay cache, runs no request a second time,  *)
(* whatever restarts empty the cache it relies on.                         *)
THEOREM NothingRunsTwice ==
  ASSUME ~AuditMayFail
  PROVE  Spec => []NotExecutedTwice
<1>1. UseInvariant => NotExecutedTwice
  BY DEF UseInvariant
<1> QED BY <1>1, UseInvariantHolds, PTL

(* FR-7 as far as it is true: while audit entries can be written, a        *)
(* request that was blocked or challenged never reaches the backend.       *)
THEOREM BlockedStaysBlocked ==
  ASSUME ~AuditMayFail
  PROVE  Spec => []BackendSeesOnlyAdmitted
<1>1. UseInvariant => BackendSeesOnlyAdmitted
  BY DEF UseInvariant
<1> QED BY <1>1, UseInvariantHolds, PTL

(***************************************************************************)
(* How long a binding lasts.                                               *)
(***************************************************************************)

(* A request takes no time, and forgets a binding only when it has         *)
(* outlived the lifetime of a token.                                       *)
LEMMA RequestForgets ==
  ASSUME TypeOK, NEW r, Request(r)
  PROVE  /\ UNCHANGED <<now, restarts>>
         /\ \A t \in Tokens :
              bindings[t] # None /\ bindings'[t] # bindings[t] => Expired(t, now)
<1>1. UNCHANGED <<now, restarts>>
  BY DEF Request, RateLimited, MissingProof, InvalidProof, ReplayedProof,
         ForwardTokenRequest, UnboundToken, BlockedByEngine, PassedByEngine,
         StepUpPassed, StepUpRequired, RequestFrame, restartVars
<1>2. UNCHANGED bindings \/ Get(r.token, now)
  BY DEF Request, RateLimited, MissingProof, InvalidProof, ReplayedProof,
         ForwardTokenRequest, UnboundToken, BlockedByEngine, PassedByEngine,
         StepUpPassed, StepUpRequired, FindsBinding, bindingVars
<1>3. ASSUME Get(r.token, now), NEW t \in Tokens, bindings'[t] # bindings[t]
      PROVE  Expired(t, now)
  BY <1>3 DEF Get, TypeOK, BindingStoreTypeOK
<1> QED BY <1>1, <1>2, <1>3

LEMMA ExpiryInit == Init => TokensExpireFirst
BY DEF Init, ProxyInit, BindingStoreInit, BackendInit, TokensExpireFirst

LEMMA ExpiryTypes ==
  ASSUME TypeOK
  PROVE  /\ now \in Nat /\ TokenTTL \in Nat
         /\ \A t \in Tokens :
              /\ tokens[t] # None => tokens[t].exp \in Nat
              /\ bindings[t] # None => bindings[t].issued_at \in Nat
BY TokenTTLAssumption
DEF TypeOK, BackendTypeOK, BindingStoreTypeOK, Optional, TokenRecord, Binding

LEMMA ExpiryStep ==
  TypeOK /\ SenderInvariant /\ TokensExpireFirst /\ [Next]_vars
    => TokensExpireFirst'
<1> SUFFICES ASSUME TypeOK, SenderInvariant, TokensExpireFirst, [Next]_vars
             PROVE  TokensExpireFirst'
  OBVIOUS
<1>1. ASSUME UNCHANGED tokens, now' \in {now, now + 1},
             \A t \in Tokens : bindings'[t] \in {bindings[t], None}
      PROVE  TokensExpireFirst'
  BY <1>1, ExpiryTypes DEF TokensExpireFirst
<1>2. ASSUME NEW r \in Requests, Request(r)  PROVE TokensExpireFirst'
  BY <1>1, <1>2, RequestEffect, RequestForgets
<1>3. ASSUME NEW reply \in replies, BindIssuedToken(reply)
      PROVE  TokensExpireFirst'
  <2>1. tokens[reply.token] # None
    BY DEF SenderInvariant, RepliesAreFresh
  <2> QED BY <1>3, <2>1, BindEffect, ExpiryTypes DEF TokensExpireFirst
<1>4. ASSUME NEW t \in Tokens, RevokeToken(t)  PROVE TokensExpireFirst'
  BY <1>4, RevokeEffect DEF TokensExpireFirst
<1>5. ASSUME NEW f \in upstream, NEW t \in Tokens, BackendIssues(f, t)
      PROVE  TokensExpireFirst'
  <2>1. bindings[t] = None
    BY <1>5, IssueEffect DEF SenderInvariant, BindingMatchesToken
  <2> QED BY <1>5, <2>1, IssueEffect, ExpiryTypes DEF TokensExpireFirst
<1>6. CASE BackendRestarts
  BY <1>6, RestartEffect
  DEF TokensExpireFirst, SenderInvariant, BindingMatchesToken
<1>7. CASE ProxyRestarts
  BY <1>7 DEF ProxyRestarts, backendVars, TokensExpireFirst
<1>8. CASE Tick
  BY <1>1, <1>8 DEF Tick, bindingVars, backendVars
<1>9. ASSUME UNCHANGED <<bindings, tokens, now>>  PROVE TokensExpireFirst'
  BY <1>9 DEF TokensExpireFirst
<1> QED
  BY <1>2, <1>3, <1>4, <1>5, <1>6, <1>7, <1>8, <1>9
  DEF Next, vars, TlsClientHello, IgnoreReply, LoseReply, RevokeUnknown,
      BackendExecutes, BackendRefuses, LoseRequest, HookFrame, ServerFrame,
      bindingVars, backendVars

(* A binding that goes, goes in a restart of the proxy or after its token. *)
LEMMA ForgetsExpired ==
  ASSUME TypeOK, TypeOK', TokensExpireFirst, SenderInvariant, Next,
         NEW t \in Tokens, bindings[t] # None, bindings'[t] = None
  PROVE  restarts' # restarts \/ tokens[t].exp <= now
<1>1. ASSUME NEW r \in Requests, Request(r)  PROVE tokens[t].exp <= now
  <2>1. now - bindings[t].issued_at > TokenTTL
    BY <1>1, RequestForgets DEF Expired
  <2>2. tokens[t] # None
    BY DEF SenderInvariant, BindingMatchesToken
  <2> QED BY <2>1, <2>2, ExpiryTypes DEF TokensExpireFirst
<1>2. ASSUME NEW reply \in replies, BindIssuedToken(reply)  PROVE FALSE
  BY <1>2, BindEffect
<1>3. ASSUME NEW u \in Tokens, RevokeToken(u)  PROVE FALSE
  BY <1>3, RevokeEffect
<1>4. CASE ProxyRestarts
  BY <1>4 DEF ProxyRestarts, TypeOK
<1>5. ASSUME UNCHANGED bindings  PROVE FALSE
  BY <1>5
<1> QED
  BY <1>1, <1>2, <1>3, <1>4, <1>5
  DEF Next, TlsClientHello, IgnoreReply, LoseReply, RevokeUnknown,
      BackendIssues, BackendExecutes, BackendRefuses, LoseRequest,
      BackendRestarts, Tick, HookFrame, ServerFrame, bindingVars

(* Short of a restart the proxy locks no live token out: what get deletes  *)
(* is the binding of a token that the backend would refuse as well,        *)
(* although the binding was made later than the token.                     *)
THEOREM LiveTokensStayBound == Spec => BoundUntilExpiry
<1>1. TypeOK /\ TypeOK' /\ SenderInvariant /\ TokensExpireFirst /\ [Next]_vars
        => [\A t \in Tokens :
              bindings[t] # None /\ bindings'[t] = None =>
                restarts' # restarts \/ tokens[t].exp <= now]_vars
  BY ForgetsExpired
<1> QED
  BY <1>1, TypeCorrect, SenderInvariantHolds, ExpiryInit, ExpiryStep, PTL
  DEF Spec, BoundUntilExpiry

(***************************************************************************)
(* What the proxy counts as a pass it has on record as an admission: a     *)
(* proof that is not used up has never passed.                             *)
(***************************************************************************)
CountedAreAdmitted ==
  \A t \in Tokens, p \in ProofJtis :
    passes[<<t, p>>] # 0 => \E a \in admitted : a.token = t /\ a.proof = p

LEMMA CountedInit == Init => CountedAreAdmitted
BY DEF Init, CountedAreAdmitted

LEMMA CountedStep ==
  TypeOK /\ CountedAreAdmitted /\ [Next]_vars => CountedAreAdmitted'
<1> SUFFICES ASSUME TypeOK, CountedAreAdmitted, [Next]_vars
             PROVE  CountedAreAdmitted'
  OBVIOUS
<1>1. ASSUME UNCHANGED <<admitted, passes>>  PROVE CountedAreAdmitted'
  BY <1>1 DEF CountedAreAdmitted
<1>2. ASSUME NEW r, NEW nonce, PassesWith(r, nonce)  PROVE CountedAreAdmitted'
  <2>1. /\ admitted' = admitted \cup {AdmissionOf(r, nonce)}
        /\ passes' = [passes EXCEPT ![<<r.token, r.proof.jti>>] = @ + 1]
    BY <1>2 DEF PassesWith
  <2>2. /\ AdmissionOf(r, nonce).token = r.token
        /\ AdmissionOf(r, nonce).proof = r.proof.jti
    BY DEF AdmissionOf
  <2>3. \A t \in Tokens, p \in ProofJtis :
          \/ passes'[<<t, p>>] = passes[<<t, p>>]
          \/ t = r.token /\ p = r.proof.jti
    BY <2>1 DEF TypeOK
  <2> QED BY <2>1, <2>2, <2>3 DEF CountedAreAdmitted
<1>3. CASE \E r \in Requests : Request(r)
  BY <1>1, <1>2, <1>3, RequestEffect
<1> QED
  BY <1>1, <1>3
  DEF Next, vars, TlsClientHello, BindIssuedToken, IgnoreReply, LoseReply,
      RevokeToken, RevokeUnknown, BackendIssues, BackendExecutes,
      BackendRefuses, LoseRequest, ProxyRestarts, BackendRestarts, Tick,
      HookFrame, ServerFrame, historyVars

(***************************************************************************)
(* Sentinel implements TokenGuard: whatever proxy, backend, network and    *)
(* clients do together is, seen from a token, a binding, a death, a pass   *)
(* or nothing at all.  The mapping is LifeOf and SenderOf of Sentinel.     *)
(***************************************************************************)
RefinementInvariant ==
  TypeOK /\ SenderInvariant /\ ProofsAreUsedUp /\ CountedAreAdmitted

(***************************************************************************)
(* Facts about the mapping.                                                *)
(***************************************************************************)

(* A token with a binding is bound to its sender, or dead once revoked.    *)
LEMMA LifeOfBound ==
  ASSUME NEW t, bindings[t] # None
  PROVE  /\ ~bindings[t].revoked =>
              /\ LifeOf(t) = "bound"
              /\ SenderOf(t) = <<bindings[t].jkt, bindings[t].ja4>>
         /\ bindings[t].revoked => LifeOf(t) = "dead"
BY DEF LifeOf, SenderOf

(* A token without one is dead as soon as it has been issued and no answer *)
(* is left to bind it.                                                     *)
LEMMA LifeOfUnbound ==
  ASSUME NEW t, bindings[t] = None
  PROVE  /\ SenderOf(t) = None
         /\ tokens[t] = None => LifeOf(t) = "unbound"
         /\ (\E reply \in replies : reply.token = t) => LifeOf(t) = "unbound"
         /\ tokens[t] # None /\ (\A reply \in replies : reply.token # t)
              => LifeOf(t) = "dead"
BY DEF LifeOf, SenderOf

(* The life and the sender of a token are read off its own state.          *)
LEMMA SameLife ==
  ASSUME NEW t, UNCHANGED bindings[t], tokens'[t] = None <=> tokens[t] = None,
         (\E reply \in replies' : reply.token = t)
           <=> (\E reply \in replies : reply.token = t)
  PROVE  LifeOf(t)' = LifeOf(t) /\ SenderOf(t)' = SenderOf(t)
BY DEF LifeOf, SenderOf

(* A step that leaves every token as it is or kills it is a Die step.      *)
LEMMA DeathsAreDie ==
  ASSUME UNCHANGED <<admitted, passes>>,
         \A t \in Tokens : \/ LifeOf(t)' = LifeOf(t) /\ SenderOf(t)' = SenderOf(t)
                           \/ LifeOf(t)' = "dead"
  PROVE  Guard!GuardNext
<1> DEFINE dying == {t \in Tokens : LifeOf(t)' = "dead"}
<1>1. \A t \in Tokens : LifeOf(t)' = "dead" => SenderOf(t)' = None
  BY DEF SenderOf
<1>2. [t \in Tokens |-> LifeOf(t)]' =
        [t \in Tokens |->
           IF t \in dying THEN "dead" ELSE [u \in Tokens |-> LifeOf(u)][t]]
  OBVIOUS
<1>3. [t \in Tokens |-> SenderOf(t)]' =
        [t \in Tokens |->
           IF t \in dying THEN None ELSE [u \in Tokens |-> SenderOf(u)][t]]
  BY <1>1
<1>4. Guard!Die(dying)
  BY <1>2, <1>3 DEF Guard!Die
<1> QED BY <1>4 DEF Guard!GuardNext

(* Most steps concern no token at all.                                     *)
LEMMA NothingHappens ==
  ASSUME UNCHANGED <<admitted, passes, bindings, tokens, replies>>
  PROVE  Guard!GuardNext
BY SameLife, DeathsAreDie

(***************************************************************************)
(* The steps.                                                              *)
(***************************************************************************)

(* A request that passes is a Pass; the others can only find a binding     *)
(* expired.                                                                *)
LEMMA PassesArePass ==
  ASSUME RefinementInvariant, NEW r \in RequestType, Request(r), UsesUp(r)
  PROVE  Guard!GuardNext
<1> USE DEF RefinementInvariant
<1> DEFINE t == r.token
           s == <<r.proof.jkt, Presented(r)>>
           p == r.proof.jti
<1>1. PICK nonce : PassesWith(r, nonce)
  BY DEF UsesUp
<1>2. /\ t \in Tokens
      /\ bindings[t] # None /\ ~bindings[t].revoked
      /\ s = <<bindings[t].jkt, bindings[t].ja4>>
  BY <1>1, PassMatches, DecisionTyped DEF PassesWith, FindsBinding
<1>3. s \in Keys \X JA4s /\ p \in ProofJtis
  <2>1. bindings[t] \in Binding
    BY <1>2 DEF TypeOK, BindingStoreTypeOK, Optional
  <2>2. r.proof \in Proof
    BY DEF RequestType, Optional, UsesUp
  <2> QED BY <1>2, <2>1, <2>2 DEF Binding, Proof
<1>4. LifeOf(t) = "bound" /\ SenderOf(t) = s
  BY <1>2, LifeOfBound
<1>5. \A u \in Tokens : LifeOf(u)' = LifeOf(u) /\ SenderOf(u)' = SenderOf(u)
  BY RequestEffect, SameLife DEF UsesUp
<1>6. \A a \in admitted : ~(a.token = t /\ a.proof = p)
  BY <1>2 DEF UsesUp, ProofsAreUsedUp
<1>7. admitted' = admitted \cup {AdmissionOf(r, nonce)}
  BY <1>1 DEF PassesWith
<1> DEFINE Passed(a) == <<a.token, <<a.jkt, a.ja4>>, a.proof>>
           used == {Passed(a) : a \in admitted}
<1>8. used' = used \cup {<<t, s, p>>}
  <2>1. Passed(AdmissionOf(r, nonce)) = <<t, s, p>>
    BY DEF AdmissionOf
  <2>2. used' = {Passed(a) : a \in admitted'}
    OBVIOUS
  <2> HIDE DEF Passed
  <2> QED BY <1>7, <2>1, <2>2
<1>9. passes[<<t, p>>] = 0
  BY <1>2, <1>3, <1>6 DEF CountedAreAdmitted
<1>10. passes' = [passes EXCEPT ![<<t, p>>] = 1]
  BY <1>1, <1>9 DEF PassesWith
<1>11. Guard!Pass(t, s, p)
  BY <1>2, <1>4, <1>5, <1>8, <1>9, <1>10 DEF Guard!Pass
<1> QED BY <1>2, <1>3, <1>11 DEF Guard!GuardNext

LEMMA RefusalsAreDie ==
  ASSUME RefinementInvariant, NEW r, Request(r), UNCHANGED <<admitted, passes>>
  PROVE  Guard!GuardNext
<1> USE DEF RefinementInvariant
<1>1. /\ UNCHANGED <<tokens, replies>>
      /\ \A t \in Tokens : bindings'[t] \in {bindings[t], None}
  BY RequestEffect
<1>2. ASSUME NEW t \in Tokens, bindings[t] # None, bindings'[t] = None
      PROVE  LifeOf(t)' = "dead"
  <2>1. tokens[t] # None /\ \A reply \in replies : reply.token # t
    BY <1>2 DEF SenderInvariant, BindingMatchesToken, RepliesAreFresh
  <2> QED BY <1>1, <1>2, <2>1 DEF LifeOf
<1>3. ASSUME NEW t \in Tokens, UNCHANGED bindings[t]
      PROVE  LifeOf(t)' = LifeOf(t) /\ SenderOf(t)' = SenderOf(t)
  BY <1>1, <1>3, SameLife
<1> QED BY <1>1, <1>2, <1>3, DeathsAreDie

(* The response hook binds a token that is not bound yet.                  *)
LEMMA BindingsAreBindTo ==
  ASSUME RefinementInvariant, NEW reply \in replies, BindIssuedToken(reply)
  PROVE  Guard!GuardNext
<1> USE DEF RefinementInvariant
<1> DEFINE t == reply.token
           s == <<reply.meta.jkt, reply.meta.ja4>>
<1>1. t \in Tokens /\ s \in Keys \X JA4s
  BY BindEffect
<1>2. LifeOf(t) = "unbound"
  BY LifeOfUnbound DEF SenderInvariant, RepliesAreFresh
<1>3. LifeOf(t)' = "bound" /\ SenderOf(t)' = s
  BY BindEffect DEF LifeOf, SenderOf
<1>4. \A u \in Tokens : u # t =>
        LifeOf(u)' = LifeOf(u) /\ SenderOf(u)' = SenderOf(u)
  BY BindEffect, SameLife
<1>5. [u \in Tokens |-> LifeOf(u)]' =
        [[u \in Tokens |-> LifeOf(u)] EXCEPT ![t] = "bound"]
  BY <1>3, <1>4
<1>6. [u \in Tokens |-> SenderOf(u)]' =
        [[u \in Tokens |-> SenderOf(u)] EXCEPT ![t] = s]
  BY <1>3, <1>4
<1>7. Guard!BindTo(t, s)
  BY <1>1, <1>2, <1>5, <1>6, BindEffect DEF Guard!BindTo
<1> QED BY <1>1, <1>7 DEF Guard!GuardNext

(* An answer that is ignored or lost leaves nobody to bind its token.      *)
LEMMA LostRepliesAreDie ==
  ASSUME RefinementInvariant, NEW reply \in replies,
         UNCHANGED <<admitted, passes, bindings, tokens>>,
         replies' = replies \ {reply}
  PROVE  Guard!GuardNext
<1> USE DEF RefinementInvariant
<1>1. LifeOf(reply.token)' = "dead"
  BY DEF LifeOf, SenderInvariant, RepliesAreFresh
<1>2. ASSUME NEW t \in Tokens, t # reply.token
      PROVE  LifeOf(t)' = LifeOf(t) /\ SenderOf(t)' = SenderOf(t)
  BY <1>2, SameLife
<1> QED BY <1>1, <1>2, DeathsAreDie

(* A revocation kills one token.                                           *)
LEMMA RevocationsAreDie ==
  ASSUME RefinementInvariant, NEW t \in Tokens, RevokeToken(t)
  PROVE  Guard!GuardNext
<1> USE DEF RefinementInvariant
<1>1. LifeOf(t)' = "dead"
  BY RevokeEffect DEF LifeOf
<1>2. ASSUME NEW u \in Tokens, u # t
      PROVE  LifeOf(u)' = LifeOf(u) /\ SenderOf(u)' = SenderOf(u)
  BY <1>2, RevokeEffect, SameLife
<1> QED BY <1>1, <1>2, RevokeEffect, DeathsAreDie

(* The token endpoint signs a token that no binding and no answer knows.   *)
LEMMA IssuancesChangeNothing ==
  ASSUME RefinementInvariant, NEW f \in upstream, NEW t \in Tokens,
         BackendIssues(f, t)
  PROVE  Guard!GuardNext
<1> USE DEF RefinementInvariant
<1> DEFINE new == [token |-> t, meta |-> f.meta]
<1>1. new.token = t /\ replies' = replies \cup {new}
  BY IssueEffect
<1> HIDE DEF new
<1>2. LifeOf(t)' = LifeOf(t) /\ SenderOf(t)' = SenderOf(t)
  <2>1. bindings[t] = None /\ UNCHANGED bindings
    BY IssueEffect DEF SenderInvariant, BindingMatchesToken
  <2> QED BY <1>1, <2>1, IssueEffect DEF LifeOf, SenderOf
<1>3. ASSUME NEW u \in Tokens, u # t
      PROVE  LifeOf(u)' = LifeOf(u) /\ SenderOf(u)' = SenderOf(u)
  BY <1>1, <1>3, IssueEffect, SameLife
<1> QED BY <1>2, <1>3, IssueEffect, DeathsAreDie

(* A restart of the proxy kills every token that was ever issued, one of   *)
(* the backend none: the proxy does not see its signature.                 *)
LEMMA RestartsAreDie ==
  ASSUME RefinementInvariant, ProxyRestarts \/ BackendRestarts
  PROVE  Guard!GuardNext
<1> USE DEF RefinementInvariant
<1>1. CASE ProxyRestarts
  <2>1. /\ UNCHANGED <<admitted, passes, tokens>> /\ replies' = {}
        /\ \A t \in Tokens : bindings'[t] = None
    BY <1>1 DEF ProxyRestarts, backendVars, historyVars
  <2>2. ASSUME NEW t \in Tokens, tokens[t] # None  PROVE LifeOf(t)' = "dead"
    BY <2>1, <2>2 DEF LifeOf
  <2>3. ASSUME NEW t \in Tokens, tokens[t] = None
        PROVE  LifeOf(t)' = LifeOf(t) /\ SenderOf(t)' = SenderOf(t)
    <3>1. bindings[t] = None
      BY <2>3 DEF SenderInvariant, BindingMatchesToken
    <3> QED BY <2>1, <2>3, <3>1 DEF LifeOf, SenderOf
  <2> QED BY <2>1, <2>2, <2>3, DeathsAreDie
<1>2. CASE BackendRestarts
  BY <1>2, RestartEffect, SameLife, DeathsAreDie
<1> QED BY <1>1, <1>2

LEMMA StepRefines ==
  RefinementInvariant /\ [Next]_vars => [Guard!GuardNext]_(Guard!guardVars)
<1> SUFFICES ASSUME RefinementInvariant, Next  PROVE Guard!GuardNext
  <2>1. UNCHANGED vars => UNCHANGED Guard!guardVars
    BY DEF vars, bindingVars, backendVars, historyVars, Guard!guardVars,
           LifeOf, SenderOf
  <2> QED BY <2>1
<1>1. ASSUME NEW r \in Requests, Request(r)  PROVE Guard!GuardNext
  <2>1. TypeOK /\ r \in RequestType
    BY RequestTyped DEF RefinementInvariant
  <2>2. UsesUp(r) \/ UNCHANGED <<admitted, passes>>
    BY <1>1, RequestUses DEF LetsNothingPass
  <2> QED BY <1>1, <2>1, <2>2, PassesArePass, RefusalsAreDie
<1>2. ASSUME NEW reply \in replies, BindIssuedToken(reply)
      PROVE  Guard!GuardNext
  BY <1>2, BindingsAreBindTo
<1>3. ASSUME NEW reply \in replies, IgnoreReply(reply) \/ LoseReply(reply)
      PROVE  Guard!GuardNext
  BY <1>3, LostRepliesAreDie
  DEF IgnoreReply, LoseReply, HookFrame, ServerFrame, bindingVars, backendVars,
      historyVars
<1>4. ASSUME NEW t \in Tokens, RevokeToken(t)  PROVE Guard!GuardNext
  BY <1>4, RevocationsAreDie
<1>5. ASSUME NEW f \in upstream, NEW t \in Tokens, BackendIssues(f, t)
      PROVE  Guard!GuardNext
  BY <1>5, IssuancesChangeNothing
<1>6. CASE ProxyRestarts \/ BackendRestarts
  BY <1>6, RestartsAreDie
<1>7. ASSUME UNCHANGED <<admitted, passes, bindings, tokens, replies>>
      PROVE  Guard!GuardNext
  BY <1>7, NothingHappens
<1> QED
  BY <1>1, <1>2, <1>3, <1>4, <1>5, <1>6, <1>7
  DEF Next, TlsClientHello, RevokeUnknown, BackendExecutes, BackendRefuses,
      LoseRequest, Tick, HookFrame, ServerFrame, bindingVars, backendVars,
      historyVars

LEMMA InitRefines == Init => Guard!GuardInit
BY DEF Init, ProxyInit, BindingStoreInit, BackendInit, LifeOf, SenderOf,
       Guard!GuardInit

(* The proxy keeps the promise of TokenGuard: a token is bound at most     *)
(* once in its life, only its sender passes under it, each time with       *)
(* another proof, and a dead token stays dead, for any number of clients,  *)
(* tokens, proofs and restarts.                                            *)
THEOREM PromiseIsKept == Spec => KeepsTokenPromise
<1>1. RefinementInvariant /\ [Next]_vars => [Guard!GuardNext]_(Guard!guardVars)
  BY StepRefines
<1> QED
  BY <1>1, TypeCorrect, SenderInvariantHolds, ProofsAreUsedUpForGood,
     CountedInit, CountedStep, InitRefines, PTL
  DEF Spec, RefinementInvariant, KeepsTokenPromise, Guard!GuardSpec
=============================================================================
