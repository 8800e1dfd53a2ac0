------------------------------ MODULE Sentinel ------------------------------
(***************************************************************************)
(* The proxy addon (proxy/addon.py) between its clients and the backend.   *)
(* mitmproxy runs every hook of the addon on one thread and none of them   *)
(* awaits, so one hook call is one action.  Between the request hook and   *)
(* the response hook of a flow anything may happen: other flows, the       *)
(* passing of time, a revocation, a lost connection, a restart of either   *)
(* process.                                                                *)
(*                                                                         *)
(* "report" is what the last hook handed to its observers: the dashboard   *)
(* call and the audit entry it made.  The modules of the observers take it *)
(* from there.                                                             *)
(***************************************************************************)
EXTENDS Engine, BindingStore, ChallengeStore, RateLimiter, Backend, FiniteSets

CONSTANTS
  Conns,           (* client connections                                    *)
  ConnIP,          (* [Conns -> IPs]: the peer address of a connection      *)
  HelloOf,         (* [Conns -> SUBSET Optional(JA4s)]: what the            *)
                   (* ClientHello of a connection may compute to; None is   *)
                   (* a ClientHello that does not parse                     *)
  HeadersOf,       (* [Conns -> SUBSET Optional(JA4Hs)]: the same for the   *)
                   (* headers of the requests sent on it                    *)
  ProofTemplates,  (* the proofs clients mint, without iat and nonce        *)
  AuditMayFail,    (* whether an append to the audit file may raise         *)
  MaxTime,         (* bound: the clock stops here                           *)
  MaxNonces,       (* bound: nonces drawn                                   *)
  MaxAttempts,     (* bound: recorded token attempts per key                *)
  MaxInFlight,     (* bound: requests on their way to the backend           *)
  MaxProxyRestarts,    (* bound: restarts of the proxy                      *)
  MaxBackendRestarts   (* bound: restarts of the backend                    *)

ASSUME ClientAssumption ==
  /\ ConnIP \in [Conns -> IPs]
  /\ HelloOf \in [Conns -> SUBSET Optional(JA4s)]
  /\ HeadersOf \in [Conns -> SUBSET Optional(JA4Hs)]
  /\ ProofTemplates \subseteq
       [jti: ProofJtis, jkt: Keys, htu: Paths, signed: BOOLEAN]
  /\ AuditMayFail \in BOOLEAN

ASSUME BoundAssumption ==
  /\ MaxTime \in Nat
  /\ MaxNonces \in Nat
  /\ MaxAttempts \in Nat
  /\ MaxInFlight \in Nat
  /\ MaxProxyRestarts \in Nat
  /\ MaxBackendRestarts \in Nat

VARIABLES
  now,               (* time.time(), in whole seconds, same for everybody   *)
  restarts,          (* how often the proxy has started again               *)
  backendRestarts,   (* how often the backend has                           *)
  connected,         (* connections whose ClientHello has been seen         *)
  ja4ByConnection,   (* [Conns -> Optional(JA4s)]: _ja4_by_connection.get   *)
  upstream,          (* flows forwarded and not answered yet                *)
  replies,           (* 200 answers of the token endpoint to be handled     *)
  report,            (* what the last hook reported                         *)
  admitted,          (* history: the API requests the proxy let pass        *)
  passes,            (* history: how often it let one with that token and   *)
                     (* that proof pass                                     *)
  revoked            (* history: the tokens /oauth/revoke answered 200 for  *)

networkVars == <<connected, ja4ByConnection>>
restartVars == <<restarts, backendRestarts>>
historyVars == <<admitted, passes, revoked>>
vars == <<bindingVars, challengeVars, attempts, backendVars, networkVars,
          restartVars, historyVars, now, upstream, replies, report>>

(* What a hook tells its observers: the kind of its audit entry (one that  *)
(* passed a challenge also makes a "decision" entry), the token (story_id),*)
(* the reason and risk of its decision, and how many of its audit entries  *)
(* got written before a write raised, if one did.                          *)
ReportKinds ==
  {"none", "rate_limited", "block", "decision", "challenge_issued",
   "challenge_passed", "issuance", "revocation"}

Reasons ==
  {"", "missing DPoP proof", "DPoP invalid", "DPoP proof replayed",
   "no binding found", "token revoked", "JA4 mismatch", "DPoP jkt mismatch",
   "risk threshold exceeded", "ok"}

Report ==
  [kind: ReportKinds, token: Optional(Tokens), reason: Reasons, risk: Nat,
   written: 0..2]

NoReport ==
  [kind |-> "none", token |-> None, reason |-> "", risk |-> 0, written |-> 0]

(* flow.metadata of a token request, from the request to the response hook.*)
Metadata ==
  [jkt: Keys, ja4: Optional(JA4s), ja4h: Optional(JA4Hs), source_ip: IPs]

Flow ==
  [path: Paths, token: Optional(Tokens), proof: Optional(Proof),
   meta: Optional(Metadata)]

Reply == [token: Tokens, meta: Optional(Metadata)]

(* A request let pass: its token and proof, the key and TLS stack it came  *)
(* from, and the nonce it answered (NoNonce if it needed no step-up).      *)
Admission ==
  [token: Tokens, proof: ProofJtis, jkt: Keys, ja4: Optional(JA4s), nonce: Nat]

TypeOK ==
  /\ BindingStoreTypeOK
  /\ ChallengeStoreTypeOK
  /\ RateLimiterTypeOK
  /\ BackendTypeOK
  /\ now \in Nat
  /\ restarts \in Nat
  /\ backendRestarts \in Nat
  /\ connected \subseteq Conns
  /\ ja4ByConnection \in [Conns -> Optional(JA4s)]
  /\ upstream \subseteq Flow
  /\ replies \subseteq Reply
  /\ report \in Report
  /\ admitted \subseteq Admission
  /\ passes \in [Tokens \X ProofJtis -> Nat]
  /\ revoked \subseteq Tokens

ProxyInit ==
  /\ BindingStoreInit
  /\ challenges = [t \in Tokens |-> None]
  /\ RateLimiterInit
  /\ connected = {}
  /\ ja4ByConnection = [c \in Conns |-> None]

Init ==
  /\ ProxyInit
  /\ noncesDrawn = 0
  /\ BackendInit
  /\ now = 0
  /\ restarts = 0
  /\ backendRestarts = 0
  /\ upstream = {}
  /\ replies = {}
  /\ report = NoReport
  /\ admitted = {}
  /\ passes = [use \in Tokens \X ProofJtis |-> 0]
  /\ revoked = {}
-----------------------------------------------------------------------------
(***************************************************************************)
(* Requests as they arrive.  A client may present any proof at any later   *)
(* time and as often as it likes; it knows only nonces already drawn.  A   *)
(* token may be presented whether or not it has been issued (the addon     *)
(* reads its jti without verifying it); a token request carries no token   *)
(* and no nonce.                                                           *)
(***************************************************************************)
PresentableProofs ==
  {[jti |-> m.jti, jkt |-> m.jkt, htu |-> m.htu, signed |-> m.signed,
    iat |-> iat, nonce |-> nonce] :
      m \in ProofTemplates, iat \in 0..now, nonce \in 0..noncesDrawn}

Requests ==
  [conn: connected, path: Paths, token: Optional(Tokens),
   ja4h: Optional(JA4Hs), proof: Optional(PresentableProofs)]

Sendable(r) ==
  /\ r.ja4h \in HeadersOf[r.conn]
  /\ r.path = "token" => r.token = None /\ (r.proof # None => r.proof.nonce = NoNonce)
  /\ Cardinality(upstream) < MaxInFlight

Presented(r) == ja4ByConnection[r.conn]

Source(r) == ConnIP[r.conn]
-----------------------------------------------------------------------------
(***************************************************************************)
(* How a request hook ends.                                                *)
(***************************************************************************)
AuditOutcomes(n) == IF AuditMayFail THEN 0..n ELSE {n}

FlowOf(r, meta) ==
  [path |-> r.path, token |-> r.token, proof |-> r.proof, meta |-> meta]

Reported(kind, token, reason, risk, written) ==
  report' = [kind |-> kind, token |-> token, reason |-> reason,
             risk |-> risk, written |-> written]

(***************************************************************************)
(* The proxy answers the request itself.  The audit entry is written       *)
(* before flow.response is set: when the write raises, the hook is left    *)
(* without a response and mitmproxy, having logged the exception, forwards *)
(* the flow.                                                               *)
(***************************************************************************)
Refuse(r, kind, reason, risk) ==
  \E written \in AuditOutcomes(1) :
    /\ Reported(kind, r.token, reason, risk, written)
    /\ upstream' = IF written = 1 THEN upstream
                                  ELSE upstream \cup {FlowOf(r, None)}
    /\ UNCHANGED <<admitted, passes>>

(* The proxy reports a PASS and leaves the flow to be forwarded.           *)
Admit(r, kind, risk, nonce) ==
  /\ \E written \in AuditOutcomes(IF nonce = NoNonce THEN 1 ELSE 2) :
       Reported(kind, r.token, "ok", risk, written)
  /\ upstream' = upstream \cup {FlowOf(r, None)}
  /\ admitted' = admitted \cup
       {[token |-> r.token, proof |-> r.proof.jti, jkt |-> r.proof.jkt,
         ja4 |-> Presented(r), nonce |-> nonce]}
  /\ passes' = [passes EXCEPT ![<<r.token, r.proof.jti>>] = @ + 1]
-----------------------------------------------------------------------------
(***************************************************************************)
(* The request hook, one action per way it can end.                        *)
(***************************************************************************)
RequestFrame ==
  UNCHANGED <<backendVars, networkVars, restartVars, revoked, now, replies>>

RateLimited(r) ==
  /\ r.path = "token"
  /\ ~Allowed(Presented(r), now)
  /\ RecordAttempt(Presented(r), now)
  /\ Refuse(r, "rate_limited", "", 0)
  /\ UNCHANGED <<bindingVars, challengeVars>>
  /\ RequestFrame

(* Token requests are counted before anything else is looked at.           *)
PassesLimiter(r) ==
  IF r.path = "token"
    THEN /\ Allowed(Presented(r), now)
         /\ RecordAttempt(Presented(r), now)
    ELSE UNCHANGED attempts

MissingProof(r) ==
  /\ PassesLimiter(r)
  /\ r.proof = None
  /\ Refuse(r, "block", "missing DPoP proof", 0)
  /\ UNCHANGED <<bindingVars, challengeVars>>
  /\ RequestFrame

InvalidProof(r) ==
  /\ PassesLimiter(r)
  /\ r.proof # None
  /\ ~ValidDpop(r.proof, r.path, now)
  /\ Refuse(r, "block", "DPoP invalid", 0)
  /\ UNCHANGED <<bindingVars, challengeVars>>
  /\ RequestFrame

ReplayedProof(r) ==
  /\ PassesLimiter(r)
  /\ r.proof # None
  /\ ValidDpop(r.proof, r.path, now)
  /\ ~DpopJtiFresh(r.proof.jti)
  /\ Refuse(r, "block", "DPoP proof replayed", 0)
  /\ UNCHANGED <<bindingVars, challengeVars>>
  /\ RequestFrame

(* From here on the proof is good, and used up whatever happens next.      *)
AcceptsProof(r) ==
  /\ PassesLimiter(r)
  /\ r.proof # None
  /\ ValidDpop(r.proof, r.path, now)
  /\ DpopJtiFresh(r.proof.jti)
  /\ MarkDpopJti(r.proof.jti)

ForwardTokenRequest(r) ==
  /\ AcceptsProof(r)
  /\ r.path = "token"
  /\ upstream' = upstream \cup {FlowOf(r,
       [jkt |-> r.proof.jkt, ja4 |-> Presented(r), ja4h |-> r.ja4h,
        source_ip |-> Source(r)])}
  /\ report' = NoReport
  /\ UNCHANGED <<bindings, challengeVars, admitted, passes>>
  /\ RequestFrame

UnboundToken(r) ==
  /\ AcceptsProof(r)
  /\ r.path = "api"
  /\ Found(r.token, now) = None
  /\ Get(r.token, now)
  /\ Refuse(r, "block", "no binding found", 0)
  /\ UNCHANGED challengeVars
  /\ RequestFrame

FindsBinding(r) ==
  /\ AcceptsProof(r)
  /\ r.path = "api"
  /\ Found(r.token, now) # None
  /\ Get(r.token, now)

DecisionOn(r) ==
  Evaluate(Found(r.token, now), Presented(r),
           [valid |-> TRUE, jkt |-> r.proof.jkt], Source(r), r.ja4h)

BlockedByEngine(r) ==
  /\ FindsBinding(r)
  /\ DecisionOn(r).outcome = "BLOCK"
  /\ Refuse(r, "decision", DecisionOn(r).reason, DecisionOn(r).risk)
  /\ UNCHANGED challengeVars
  /\ RequestFrame

PassedByEngine(r) ==
  /\ FindsBinding(r)
  /\ DecisionOn(r).outcome = "PASS"
  /\ ~InChallengeBand(DecisionOn(r))
  /\ Admit(r, "decision", DecisionOn(r).risk, NoNonce)
  /\ UNCHANGED challengeVars
  /\ RequestFrame

StepUpPassed(r) ==
  /\ FindsBinding(r)
  /\ InChallengeBand(DecisionOn(r))
  /\ Answers(r.token, r.proof.nonce, now)
  /\ ConsumeChallenge(r.token)
  /\ Admit(r, "challenge_passed", DecisionOn(r).risk, r.proof.nonce)
  /\ RequestFrame

StepUpRequired(r) ==
  /\ FindsBinding(r)
  /\ InChallengeBand(DecisionOn(r))
  /\ ~Answers(r.token, r.proof.nonce, now)
  /\ noncesDrawn < MaxNonces
  /\ IssueChallenge(r.token, now)
  /\ Refuse(r, "challenge_issued", "", DecisionOn(r).risk)
  /\ RequestFrame

Request(r) ==
  /\ Sendable(r)
  /\ r.path = "token" => Len(attempts[Presented(r)]) < MaxAttempts
  /\ \/ RateLimited(r)
     \/ MissingProof(r)
     \/ InvalidProof(r)
     \/ ReplayedProof(r)
     \/ ForwardTokenRequest(r)
     \/ UnboundToken(r)
     \/ BlockedByEngine(r)
     \/ PassedByEngine(r)
     \/ StepUpPassed(r)
     \/ StepUpRequired(r)
-----------------------------------------------------------------------------
(***************************************************************************)
(* The other hooks.                                                        *)
(***************************************************************************)
TlsClientHello(c) ==
  /\ c \notin connected
  /\ connected' = connected \cup {c}
  /\ \E ja4 \in HelloOf[c] :
       ja4ByConnection' = [ja4ByConnection EXCEPT ![c] = ja4]
  /\ report' = NoReport
  /\ UNCHANGED <<bindingVars, challengeVars, attempts, backendVars,
                 restartVars, historyVars, now, upstream, replies>>

HookFrame ==
  UNCHANGED <<dpopJtiSeen, challengeVars, attempts, backendVars, networkVars,
              restartVars, admitted, passes, now, upstream>>

(* A bug: a fingerprint that could not be computed is bound like any other.*)
BindableWithoutJa4(reply) == reply.meta # None

Bindable(reply) == reply.meta # None /\ reply.meta.ja4 # None

(* response: the answer to a token request, with what the request stashed. *)
BindIssuedToken(reply) ==
  /\ Bindable(reply)
  /\ Bind(reply.token, reply.meta.jkt, reply.meta.ja4, reply.meta.source_ip,
          now, reply.meta.ja4h)
  /\ \E written \in AuditOutcomes(1) :
       Reported("issuance", reply.token, "", 0, written)
  /\ replies' = replies \ {reply}
  /\ UNCHANGED revoked
  /\ HookFrame

IgnoreReply(reply) ==
  /\ ~Bindable(reply)
  /\ report' = NoReport
  /\ replies' = replies \ {reply}
  /\ UNCHANGED <<bindings, revoked>>
  /\ HookFrame

(* POST /oauth/revoke: 200 for a token that is bound, 404 for one that is  *)
(* not, 400 without a jti.  (When its audit entry cannot be written, the   *)
(* backend answers 404 to the forwarded request; the token is revoked.)    *)
RevokeToken(t) ==
  /\ Revocable(t)
  /\ Revoke(t)
  /\ \E written \in AuditOutcomes(1) :
       /\ Reported("revocation", t, "", 0, written)
       /\ revoked' = IF written = 1 THEN revoked \cup {t} ELSE revoked
  /\ UNCHANGED replies
  /\ HookFrame

RevokeUnknown(t) ==
  /\ ~(t # None /\ Revocable(t))
  /\ report' = NoReport
  /\ UNCHANGED <<bindings, revoked, replies>>
  /\ HookFrame
-----------------------------------------------------------------------------
(***************************************************************************)
(* The backend's side of a forwarded flow, and what may go wrong.          *)
(***************************************************************************)
ServerFrame ==
  UNCHANGED <<bindingVars, challengeVars, attempts, networkVars, restartVars,
              historyVars, now>>

TokenRequestValid(f) ==
  f.path = "token" /\ f.proof # None /\ ValidDpop(f.proof, "token", now)

(* A bug: the metadata of token requests is kept per addon, not per flow,  *)
(* so that the reply is handled with that of any of them.                  *)
BackendIssuesCrossed(f, t) ==
  /\ TokenRequestValid(f)
  /\ IssueToken(t, f.proof, now)
  /\ \E g \in upstream :
       replies' = replies \cup {[token |-> t, meta |-> g.meta]}
  /\ upstream' = upstream \ {f}
  /\ report' = NoReport
  /\ UNCHANGED executed
  /\ ServerFrame

BackendIssues(f, t) ==
  /\ TokenRequestValid(f)
  /\ IssueToken(t, f.proof, now)
  /\ replies' = replies \cup {[token |-> t, meta |-> f.meta]}
  /\ upstream' = upstream \ {f}
  /\ report' = NoReport
  /\ UNCHANGED executed
  /\ ServerFrame

BackendExecutes(f) ==
  /\ f.path = "api"
  /\ Authenticates(f.token, f.proof, now)
  /\ executed' = executed \cup {[token |-> f.token, proof |-> f.proof.jti]}
  /\ upstream' = upstream \ {f}
  /\ report' = NoReport
  /\ UNCHANGED <<tokens, replies>>
  /\ ServerFrame

(* A 401 of the backend passes the response hook without effect.           *)
BackendRefuses(f) ==
  /\ IF f.path = "token" THEN ~TokenRequestValid(f)
                         ELSE ~Authenticates(f.token, f.proof, now)
  /\ upstream' = upstream \ {f}
  /\ report' = NoReport
  /\ UNCHANGED <<backendVars, replies>>
  /\ ServerFrame

(* A connection breaks: the request never arrives, or its answer never     *)
(* reaches the response hook.                                              *)
LoseRequest(f) ==
  /\ upstream' = upstream \ {f}
  /\ report' = NoReport
  /\ UNCHANGED <<backendVars, replies>>
  /\ ServerFrame

LoseReply(reply) ==
  /\ replies' = replies \ {reply}
  /\ report' = NoReport
  /\ UNCHANGED <<backendVars, upstream>>
  /\ ServerFrame

(* A bug: bindings survive a restart, the replay cache does not.           *)
ProxyRestartsKeepingBindings ==
  /\ restarts < MaxProxyRestarts
  /\ restarts' = restarts + 1
  /\ dpopJtiSeen' = {}
  /\ challenges' = [t \in Tokens |-> None]
  /\ attempts' = [k \in RateKeys |-> <<>>]
  /\ connected' = {}
  /\ ja4ByConnection' = [c \in Conns |-> None]
  /\ upstream' = {f \in upstream : f.path = "api"}
  /\ replies' = {}
  /\ report' = NoReport
  /\ UNCHANGED <<bindings, noncesDrawn, backendVars, backendRestarts,
                 historyVars, now>>

(* Nothing of the proxy's state is persistent.  API requests it has sent   *)
(* on may still be executed; the answers to token requests are lost.       *)
ProxyRestarts ==
  /\ restarts < MaxProxyRestarts
  /\ restarts' = restarts + 1
  /\ bindings' = [t \in Tokens |-> None]
  /\ dpopJtiSeen' = {}
  /\ challenges' = [t \in Tokens |-> None]
  /\ attempts' = [k \in RateKeys |-> <<>>]
  /\ connected' = {}
  /\ ja4ByConnection' = [c \in Conns |-> None]
  /\ upstream' = {f \in upstream : f.path = "api"}
  /\ replies' = {}
  /\ report' = NoReport
  /\ UNCHANGED <<noncesDrawn, backendVars, backendRestarts, historyVars, now>>

BackendRestarts ==
  /\ backendRestarts < MaxBackendRestarts
  /\ backendRestarts' = backendRestarts + 1
  /\ LoseSigningKey
  /\ upstream' = {}
  /\ report' = NoReport
  /\ UNCHANGED <<bindingVars, challengeVars, attempts, networkVars, restarts,
                 historyVars, executed, now, replies>>

Tick ==
  /\ now < MaxTime
  /\ now' = now + 1
  /\ report' = NoReport
  /\ UNCHANGED <<bindingVars, challengeVars, attempts, backendVars,
                 networkVars, restartVars, historyVars, upstream, replies>>
-----------------------------------------------------------------------------
Next ==
  \/ \E r \in Requests : Request(r)
  \/ \E c \in Conns : TlsClientHello(c)
  \/ \E reply \in replies :
       BindIssuedToken(reply) \/ IgnoreReply(reply) \/ LoseReply(reply)
  \/ \E t \in Tokens : RevokeToken(t)
  \/ \E t \in Optional(Tokens) : RevokeUnknown(t)
  \/ \E f \in upstream :
       \/ \E t \in Tokens : BackendIssues(f, t)
       \/ BackendExecutes(f)
       \/ BackendRefuses(f)
       \/ LoseRequest(f)
  \/ ProxyRestarts
  \/ BackendRestarts
  \/ Tick

Spec == Init /\ [][Next]_vars
-----------------------------------------------------------------------------
(***************************************************************************)
(* Properties.                                                             *)
(***************************************************************************)

(* The key a token is bound to in the proxy is the key the backend put     *)
(* into its cnf claim, although each side takes it from its own reading of *)
(* the proof and the binding is made a hook later than the token.          *)
BindingMatchesToken ==
  \A t \in Tokens :
    bindings[t] # None =>
      /\ tokens[t] # None
      /\ bindings[t].jkt = tokens[t].jkt

(* Whatever was ever let pass under one token came from one key, the       *)
(* token's own, and from one TLS stack: across reconnects, revocations,    *)
(* expiries and restarts a token never changes hands.                      *)
OneSenderPerToken ==
  \A a \in admitted :
    /\ tokens[a.token] # None
    /\ a.jkt = tokens[a.token].jkt
    /\ \A b \in admitted : a.token = b.token => a.ja4 = b.ja4

(* A step-up nonce lets at most one request pass, ever.                    *)
OneAdmissionPerNonce ==
  \A a, b \in admitted : a.nonce # NoNonce /\ a.nonce = b.nonce => a = b

(* No request on its way to the backend repeats one the backend has run:   *)
(* the backend relies on the proxy's replay cache, which a restart empties.*)
NotExecutedTwice ==
  \A f \in upstream :
    f.path = "api" =>
      \A e \in executed : ~(e.token = f.token /\ e.proof = f.proof.jti)

(* Once /oauth/revoke has answered 200 for a token, nothing passes under   *)
(* it again, whatever is still in flight and whoever restarts.             *)
RevocationIsPermanent ==
  [][\A use \in Tokens \X ProofJtis :
       passes'[use] # passes[use] => use[1] \notin revoked]_vars

(* Short of a restart, the proxy forgets a binding only when the backend   *)
(* would refuse the token anyway: no live token is locked out.             *)
BoundUntilExpiry ==
  [][\A t \in Tokens :
       bindings[t] # None /\ bindings'[t] = None =>
         restarts' # restarts \/ tokens[t].exp <= now]_vars
-----------------------------------------------------------------------------
(***************************************************************************)
(* Why they hold: the invariants that are inductive.                       *)
(***************************************************************************)

(* The metadata of a forwarded token request is that of its own proof.     *)
FlowsCarryTheirKey ==
  \A f \in upstream :
    f.meta # None => f.path = "token" /\ f.proof # None /\ f.meta.jkt = f.proof.jkt

(* An answer that waits for the response hook is the only one for its      *)
(* token, which is issued to the key stashed with it and not bound yet.    *)
RepliesAreFresh ==
  \A reply \in replies :
    /\ tokens[reply.token] # None
    /\ bindings[reply.token] = None
    /\ reply.meta # None => reply.meta.jkt = tokens[reply.token].jkt
    /\ \A other \in replies : other.token = reply.token => other = reply

(* A token that has passed has been bound before: it can no longer be      *)
(* bound to another TLS stack.                                             *)
AdmittedStayBound ==
  \A a \in admitted :
    /\ \A reply \in replies : reply.token # a.token
    /\ bindings[a.token] # None => bindings[a.token].ja4 = a.ja4

SenderInvariant ==
  /\ FlowsCarryTheirKey
  /\ RepliesAreFresh
  /\ BindingMatchesToken
  /\ OneSenderPerToken
  /\ AdmittedStayBound

(* A token out of use has been issued and can no longer be bound: its      *)
(* binding is revoked or gone, and no answer is left to bind it again.     *)
OutOfUse(t) ==
  /\ tokens[t] # None
  /\ \A reply \in replies : reply.token # t
  /\ bindings[t] # None => bindings[t].revoked

RevokedStayUnbound == \A t \in revoked : OutOfUse(t)

(* Every nonce is one that was drawn, stands for one token, and is gone    *)
(* from the store once it has let a request pass.                          *)
NoncesAreDrawnOnce ==
  /\ \A t \in Tokens :
       challenges[t] # None =>
         /\ challenges[t].nonce <= noncesDrawn
         /\ \A u \in Tokens :
              challenges[u] # None /\ challenges[u].nonce = challenges[t].nonce => u = t
         /\ \A a \in admitted : a.nonce # challenges[t].nonce
  /\ \A a \in admitted : a.nonce <= noncesDrawn

(* A proof that let a request pass is in the replay cache, or the token it *)
(* passed with is bound no more, and so never again.                       *)
ProofsAreUsedUp ==
  \A a \in admitted : a.proof \in dpopJtiSeen \/ bindings[a.token] = None

(* A token expires within its lifetime from now, and no later than the     *)
(* binding made when its answer came by.                                   *)
TokensExpireFirst ==
  \A t \in Tokens :
    /\ tokens[t] # None => tokens[t].exp <= now + TokenTTL
    /\ bindings[t] # None => tokens[t].exp <= bindings[t].issued_at + TokenTTL
-----------------------------------------------------------------------------
(***************************************************************************)
(* What the repository says of the proxy and the proxy does not do.        *)
(***************************************************************************)

(* FR-7: a blocked request is one the backend never sees.                  *)
BackendSeesOnlyAdmitted ==
  \A f \in upstream :
    f.path = "api" =>
      \E a \in admitted : f.proof # None /\ a.token = f.token /\ a.proof = f.proof.jti

(* As long as the audit file can be written, what the backend sees and has *)
(* run is what was let pass, and each use of a token is there only once.   *)
UseInvariant ==
  /\ ProofsAreUsedUp
  /\ BackendSeesOnlyAdmitted
  /\ NotExecutedTwice
  /\ \A e \in executed :
       \E a \in admitted : a.token = e.token /\ a.proof = e.proof
  /\ \A f, g \in upstream :
       /\ f.path = "api" /\ g.path = "api"
       /\ f.token = g.token /\ f.proof.jti = g.proof.jti
       => f = g

(* proxy/binding.py: a binding must not outlive the token it was issued    *)
(* for.  (At the second of expiry itself both may still be there.)         *)
BindingDoesNotOutliveToken ==
  \A t \in Tokens : Found(t, now) # None => now <= tokens[t].exp
-----------------------------------------------------------------------------
(***************************************************************************)
(* The proxy keeps the promise of TokenGuard.  A token lives from its      *)
(* binding to the moment the binding is revoked or gone; it is dead too    *)
(* when it has been issued and no answer is left that could bind it.       *)
(***************************************************************************)
LifeOf(t) ==
  IF bindings[t] # None
    THEN IF bindings[t].revoked THEN "dead" ELSE "bound"
    ELSE IF tokens[t] = None \/ \E reply \in replies : reply.token = t
           THEN "unbound" ELSE "dead"

SenderOf(t) ==
  IF LifeOf(t) = "bound" THEN <<bindings[t].jkt, bindings[t].ja4>> ELSE None

Guard == INSTANCE TokenGuard WITH
  Senders <- Keys \X JA4s,
  Proofs  <- ProofJtis,
  Nobody  <- None,
  life    <- [t \in Tokens |-> LifeOf(t)],
  sender  <- [t \in Tokens |-> SenderOf(t)],
  passed  <- {<<a.token, <<a.jkt, a.ja4>>, a.proof>> : a \in admitted},
  uses    <- passes

(* Every step of proxy, backend and network is a step of TokenGuard, or    *)
(* changes nothing a token's holder could notice.                          *)
KeepsTokenPromise == Guard!GuardSpec
=============================================================================
