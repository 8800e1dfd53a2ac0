--------------------------- MODULE SentinelProofs ---------------------------
(***************************************************************************)
(* Theorems about Sentinel, for all values of its constants: types first,  *)
(* then safety, from its inductive invariants.                             *)
(***************************************************************************)
EXTENDS Sentinel, TLAPS, FiniteSetTheorems, SequenceTheorems

(***************************************************************************)
(* Lemmas about the operators.                                             *)
(***************************************************************************)

(* Dropping the old prefix of a deque of times leaves a deque of times.    *)
LEMMA PrunedType ==
  ASSUME NEW w \in Seq(Nat), NEW time \in Int
  PROVE  Pruned(w, time) \in Seq(Nat)
<1> DEFINE cutoff == time - RateWindow
           old == {i \in 1..Len(w) : \A j \in 1..i : w[j] < cutoff}
<1>1. Len(w) \in Nat /\ \A i \in 1..Len(w) : w[i] \in Nat
  OBVIOUS
<1>2. Cardinality(old) \in Nat
  <2>1. IsFiniteSet(1..Len(w))
    BY <1>1, FS_Interval
  <2>2. old \in SUBSET (1..Len(w))
    OBVIOUS
  <2>3. IsFiniteSet(old)
    BY <2>1, <2>2, FS_Subset
  <2> QED BY <2>3, FS_CardinalityType
<1>3. OldPrefix(w, cutoff) = Cardinality(old)
  BY DEF OldPrefix
<1>4. SubSeq(w, Cardinality(old) + 1, Len(w)) \in Seq(Nat)
  <2>1. \A i \in (Cardinality(old) + 1)..Len(w) : w[i] \in Nat
    BY <1>1, <1>2
  <2>2. Cardinality(old) + 1 \in Int /\ Len(w) \in Int
    BY <1>1, <1>2
  <2> HIDE DEF old
  <2> QED BY <2>1, <2>2, SubSeqProperties
<1> QED BY <1>3, <1>4 DEF Pruned

(* What check_and_record leaves behind is again one deque per key.         *)
LEMMA RecordAttemptType ==
  ASSUME RateLimiterTypeOK, NEW k \in RateKeys, NEW time \in Nat,
         RecordAttempt(k, time)
  PROVE  RateLimiterTypeOK'
<1>1. Append(Pruned(attempts[k], time), time) \in Seq(Nat)
  <2>1. Pruned(attempts[k], time) \in Seq(Nat)
    BY PrunedType DEF RateLimiterTypeOK
  <2> QED BY <2>1
<1> QED BY <1>1 DEF RecordAttempt, RateLimiterTypeOK

(* What a request can look like, whatever the state it arrives in.         *)
RequestType ==
  [conn: Conns, path: Paths, token: Optional(Tokens), ja4h: Optional(JA4Hs),
   proof: Optional(Proof)]

LEMMA RequestTyped ==
  ASSUME TypeOK, NEW r \in Requests
  PROVE  r \in RequestType
<1>1. PresentableProofs \subseteq Proof
  BY ClientAssumption DEF PresentableProofs, Proof, TypeOK, ChallengeStoreTypeOK
<1> QED BY <1>1 DEF Requests, RequestType, Optional, TypeOK

(***************************************************************************)
(* Type correctness.                                                       *)
(***************************************************************************)

(* A flow made from a request.                                             *)
LEMMA FlowTyped ==
  ASSUME NEW r \in RequestType, NEW meta \in Optional(Metadata)
  PROVE  FlowOf(r, meta) \in Flow
BY DEF FlowOf, Flow, RequestType, Optional

(* A report keeps its type, however much of it got written.                *)
LEMMA ReportedTyped ==
  ASSUME NEW kind \in ReportKinds, NEW t \in Optional(Tokens),
         NEW reason \in Reasons, NEW risk \in Nat,
         NEW n \in {1, 2}, NEW written \in AuditOutcomes(n),
         Reported(kind, t, reason, risk, written)
  PROVE  report' \in Report
<1>1. written \in 0..2
  BY DEF AuditOutcomes
<1> QED BY <1>1 DEF Reported, Report

(* The ends of a request hook keep the types of what they assign.          *)
LEMMA RefuseTyped ==
  ASSUME TypeOK, NEW r \in RequestType, NEW kind \in ReportKinds,
         NEW reason \in Reasons, NEW risk \in Nat,
         Refuse(r, kind, reason, risk)
  PROVE  (report \in Report /\ upstream \subseteq Flow
            /\ admitted \subseteq Admission
            /\ passes \in [Tokens \X ProofJtis -> Nat])'
<1>1. PICK written \in AuditOutcomes(1) :
        /\ Reported(kind, r.token, reason, risk, written)
        /\ upstream' = IF written = 1 THEN upstream
                                      ELSE upstream \cup {FlowOf(r, None)}
        /\ UNCHANGED <<admitted, passes>>
  BY DEF Refuse
<1>2. report' \in Report
  BY <1>1, ReportedTyped DEF RequestType
<1>3. upstream' \subseteq Flow
  BY <1>1, FlowTyped DEF TypeOK, Optional
<1> QED BY <1>1, <1>2, <1>3 DEF TypeOK

LEMMA AdmitTyped ==
  ASSUME TypeOK, NEW r \in RequestType, r.token \in Tokens, r.proof \in Proof,
         NEW kind \in ReportKinds, NEW risk \in Nat, NEW nonce \in Nat,
         Admit(r, kind, risk, nonce)
  PROVE  (report \in Report /\ upstream \subseteq Flow
            /\ admitted \subseteq Admission
            /\ passes \in [Tokens \X ProofJtis -> Nat])'
<1>1. report' \in Report
  <2>1. PICK n \in {1, 2} :
          \E written \in AuditOutcomes(n) :
            Reported(kind, r.token, "ok", risk, written)
    BY DEF Admit
  <2> QED BY <2>1, ReportedTyped DEF RequestType, Reasons
<1>2. upstream' \subseteq Flow
  BY FlowTyped DEF Admit, TypeOK, Optional
<1>3. Presented(r) \in Optional(JA4s)
  BY DEF Presented, TypeOK, RequestType
<1>4. admitted' \subseteq Admission
  BY <1>3 DEF Admit, Admission, TypeOK, Proof
<1>5. passes' \in [Tokens \X ProofJtis -> Nat]
  BY DEF Admit, TypeOK, Proof
<1> QED BY <1>1, <1>2, <1>4, <1>5

(* A hook that reports nothing.                                            *)
LEMMA NoReportTyped == NoReport \in Report
BY DEF NoReport, Report, ReportKinds, Reasons, Optional

(* A binding that is found is a binding of the presented token.            *)
LEMMA FoundIsBound ==
  ASSUME NEW t, NEW time, Found(t, time) # None
  PROVE  /\ t # None
         /\ bindings[t] # None
         /\ Found(t, time) = bindings[t]
         /\ ~Expired(t, time)
BY DEF Found

(* The engine's reasons are among those a report can carry.                *)
LEMMA DecisionTyped ==
  ASSUME TypeOK, NEW r \in RequestType, Found(r.token, now) # None
  PROVE  /\ r.token \in Tokens
         /\ bindings[r.token] \in Binding
         /\ DecisionOn(r).reason \in Reasons
         /\ DecisionOn(r).risk \in Nat
<1>1. r.token \in Tokens /\ bindings[r.token] \in Binding
  BY FoundIsBound DEF TypeOK, BindingStoreTypeOK, RequestType, Optional
<1>2. DecisionOn(r).reason \in Reasons
  BY DEF DecisionOn, Evaluate, Reason, Reasons
<1>3. DecisionOn(r).risk \in Nat
  BY PolicyAssumption DEF AcceptedPolicy, DecisionOn, Evaluate, Risk
<1> QED BY <1>1, <1>2, <1>3

(* The store operations keep the type of the store.                        *)
LEMMA GetTyped ==
  ASSUME BindingStoreTypeOK, NEW t, NEW time, Get(t, time)
  PROVE  bindings' \in [Tokens -> Optional(Binding)]
BY DEF Get, BindingStoreTypeOK, Optional

LEMMA IssueTyped ==
  ASSUME ChallengeStoreTypeOK, NEW t, NEW time \in Nat, IssueChallenge(t, time)
  PROVE  ChallengeStoreTypeOK'
<1> DEFINE c == [nonce |-> noncesDrawn + 1, issued_at |-> time]
<1>1. noncesDrawn + 1 \in Nat \ {0}
  BY DEF ChallengeStoreTypeOK
<1>2. c \in Challenge
  BY <1>1 DEF Challenge
<1>3. challenges' = [challenges EXCEPT ![t] = c]
  BY DEF IssueChallenge
<1>4. noncesDrawn' \in Nat
  BY <1>1 DEF IssueChallenge
<1> HIDE DEF c
<1> QED BY <1>2, <1>3, <1>4 DEF ChallengeStoreTypeOK, Optional

LEMMA LimiterTyped ==
  ASSUME TypeOK, NEW r \in RequestType, PassesLimiter(r)
  PROVE  RateLimiterTypeOK'
<1>1. Presented(r) \in RateKeys
  BY DEF Presented, RateKeys, TypeOK, RequestType
<1> QED BY <1>1, RecordAttemptType
        DEF PassesLimiter, TypeOK, RateLimiterTypeOK

(* One request, however it ends.                                           *)
LEMMA RequestTypeOK ==
  ASSUME TypeOK, NEW r \in RequestType, Request(r)
  PROVE  TypeOK'
<1> DEFINE Assigned == report \in Report /\ upstream \subseteq Flow
                         /\ admitted \subseteq Admission
                         /\ passes \in [Tokens \X ProofJtis -> Nat]
           Framed == /\ BackendTypeOK
                     /\ now \in Nat
                     /\ restarts \in Nat
                     /\ backendRestarts \in Nat
                     /\ connected \subseteq Conns
                     /\ ja4ByConnection \in [Conns -> Optional(JA4s)]
                     /\ replies \subseteq Reply
                     /\ revoked \subseteq Tokens
<1>1. ASSUME RequestFrame  PROVE Framed'
  BY <1>1 DEF RequestFrame, TypeOK, BackendTypeOK, backendVars, networkVars,
              restartVars
<1>2. ASSUME UNCHANGED bindingVars  PROVE BindingStoreTypeOK'
  BY <1>2 DEF TypeOK, BindingStoreTypeOK, bindingVars
<1>3. ASSUME UNCHANGED challengeVars  PROVE ChallengeStoreTypeOK'
  BY <1>3 DEF TypeOK, ChallengeStoreTypeOK, challengeVars
<1>4. ASSUME AcceptsProof(r)
      PROVE  /\ r.proof \in Proof
             /\ dpopJtiSeen' \subseteq ProofJtis
             /\ RateLimiterTypeOK'
  <2>1. r.proof \in Proof
    BY <1>4 DEF AcceptsProof, RequestType, Optional
  <2> QED BY <1>4, <2>1, LimiterTyped
          DEF AcceptsProof, MarkDpopJti, TypeOK, BindingStoreTypeOK, Proof
<1>5. ASSUME FindsBinding(r)
      PROVE  /\ r.proof \in Proof
             /\ r.token \in Tokens
             /\ BindingStoreTypeOK'
             /\ RateLimiterTypeOK'
             /\ DecisionOn(r).reason \in Reasons
             /\ DecisionOn(r).risk \in Nat
  <2>1. bindings' \in [Tokens -> Optional(Binding)]
    BY <1>5, GetTyped DEF FindsBinding, TypeOK
  <2> QED BY <1>4, <1>5, <2>1, DecisionTyped
          DEF FindsBinding, BindingStoreTypeOK
<1> HIDE DEF Assigned, Framed
<1>6. SUFFICES /\ BindingStoreTypeOK' /\ ChallengeStoreTypeOK'
               /\ RateLimiterTypeOK' /\ Framed' /\ Assigned'
  BY DEF TypeOK, Assigned, Framed
<1>7. CASE RateLimited(r)
  <2>1. Presented(r) \in RateKeys /\ now \in Nat /\ RateLimiterTypeOK
    BY DEF Presented, RateKeys, TypeOK, RequestType
  <2>2. RateLimiterTypeOK'
    BY <1>7, <2>1, RecordAttemptType DEF RateLimited
  <2>3. Assigned'
    BY <1>7, RefuseTyped DEF RateLimited, ReportKinds, Reasons, Assigned
  <2> QED BY <1>1, <1>2, <1>3, <1>7, <2>2, <2>3 DEF RateLimited
<1>8. CASE MissingProof(r)
  <2>1. Assigned'
    BY <1>8, RefuseTyped DEF MissingProof, ReportKinds, Reasons, Assigned
  <2> QED BY <1>1, <1>2, <1>3, <1>8, <2>1, LimiterTyped DEF MissingProof
<1>9. CASE InvalidProof(r)
  <2>1. Assigned'
    BY <1>9, RefuseTyped DEF InvalidProof, ReportKinds, Reasons, Assigned
  <2> QED BY <1>1, <1>2, <1>3, <1>9, <2>1, LimiterTyped DEF InvalidProof
<1>10. CASE ReplayedProof(r)
  <2>1. Assigned'
    BY <1>10, RefuseTyped DEF ReplayedProof, ReportKinds, Reasons, Assigned
  <2> QED BY <1>1, <1>2, <1>3, <1>10, <2>1, LimiterTyped DEF ReplayedProof
<1>11. CASE ForwardTokenRequest(r)
  <2> DEFINE meta == [jkt |-> r.proof.jkt, ja4 |-> Presented(r),
                      ja4h |-> r.ja4h, source_ip |-> Source(r)]
  <2>1. meta \in Optional(Metadata)
    BY <1>4, <1>11, ClientAssumption
    DEF ForwardTokenRequest, Metadata, Optional, Proof, Presented, Source,
        RequestType, TypeOK
  <2> HIDE DEF meta
  <2>2. FlowOf(r, meta) \in Flow
    BY <2>1, FlowTyped
  <2>3. upstream' \subseteq Flow
    BY <1>11, <2>2 DEF ForwardTokenRequest, TypeOK, meta
  <2>4. Assigned'
    BY <1>11, <2>3, NoReportTyped DEF ForwardTokenRequest, Assigned, TypeOK
  <2>5. BindingStoreTypeOK'
    BY <1>4, <1>11 DEF ForwardTokenRequest, TypeOK, BindingStoreTypeOK
  <2> QED BY <1>1, <1>3, <1>4, <1>11, <2>4, <2>5 DEF ForwardTokenRequest
<1>12. CASE UnboundToken(r)
  <2>1. Assigned'
    BY <1>12, RefuseTyped DEF UnboundToken, ReportKinds, Reasons, Assigned
  <2>2. BindingStoreTypeOK'
    BY <1>4, <1>12, GetTyped DEF UnboundToken, TypeOK, BindingStoreTypeOK
  <2> QED BY <1>1, <1>3, <1>4, <1>12, <2>1, <2>2 DEF UnboundToken
<1>13. CASE BlockedByEngine(r)
  <2>1. Assigned'
    BY <1>5, <1>13, RefuseTyped DEF BlockedByEngine, ReportKinds, Assigned
  <2> QED BY <1>1, <1>3, <1>5, <1>13, <2>1 DEF BlockedByEngine
<1>14. CASE PassedByEngine(r)
  <2>1. Assigned'
    BY <1>5, <1>14, AdmitTyped
    DEF PassedByEngine, ReportKinds, Assigned, NoNonce
  <2> QED BY <1>1, <1>3, <1>5, <1>14, <2>1 DEF PassedByEngine
<1>15. CASE StepUpPassed(r)
  <2>1. r.proof.nonce \in Nat /\ FindsBinding(r)
    BY <1>5, <1>15 DEF StepUpPassed, Proof
  <2>2. Assigned'
    BY <1>5, <1>15, <2>1, AdmitTyped DEF StepUpPassed, ReportKinds, Assigned
  <2>3. ChallengeStoreTypeOK'
    BY <1>15 DEF StepUpPassed, ConsumeChallenge, TypeOK, ChallengeStoreTypeOK,
                 Optional
  <2> QED BY <1>1, <1>5, <1>15, <2>2, <2>3 DEF StepUpPassed
<1>16. CASE StepUpRequired(r)
  <2>1. Assigned'
    BY <1>5, <1>16, RefuseTyped
    DEF StepUpRequired, ReportKinds, Reasons, Assigned
  <2>2. ChallengeStoreTypeOK'
    BY <1>16, IssueTyped DEF StepUpRequired, TypeOK
  <2> QED BY <1>1, <1>5, <1>16, <2>1, <2>2 DEF StepUpRequired
<1> QED BY <1>7, <1>8, <1>9, <1>10, <1>11, <1>12, <1>13, <1>14, <1>15, <1>16
        DEF Request

(* The other hooks.                                                        *)
LEMMA HookTypeOK ==
  ASSUME TypeOK,
         \/ \E c \in Conns : TlsClientHello(c)
         \/ \E reply \in replies : BindIssuedToken(reply) \/ IgnoreReply(reply)
         \/ \E t \in Tokens : RevokeToken(t)
         \/ \E t \in Optional(Tokens) : RevokeUnknown(t)
  PROVE  TypeOK'
<1>1. ASSUME HookFrame
      PROVE  /\ dpopJtiSeen' \subseteq ProofJtis
             /\ ChallengeStoreTypeOK'
             /\ RateLimiterTypeOK'
             /\ BackendTypeOK'
             /\ (now \in Nat /\ restarts \in Nat /\ backendRestarts \in Nat)'
             /\ (connected \subseteq Conns)'
             /\ (ja4ByConnection \in [Conns -> Optional(JA4s)])'
             /\ (upstream \subseteq Flow /\ admitted \subseteq Admission)'
             /\ (passes \in [Tokens \X ProofJtis -> Nat])'
  BY <1>1 DEF HookFrame, TypeOK, BindingStoreTypeOK, ChallengeStoreTypeOK,
              RateLimiterTypeOK, BackendTypeOK, challengeVars, backendVars,
              networkVars, restartVars
<1>2. CASE \E c \in Conns : TlsClientHello(c)
  <2>1. PICK c \in Conns : TlsClientHello(c)
    BY <1>2
  <2>2. (connected \subseteq Conns)'
    BY <2>1 DEF TlsClientHello, TypeOK
  <2>3. (ja4ByConnection \in [Conns -> Optional(JA4s)])'
    BY <2>1, ClientAssumption DEF TlsClientHello, TypeOK
  <2>4. (report \in Report)'
    BY <2>1, NoReportTyped DEF TlsClientHello
  <2> QED
    BY <2>1, <2>2, <2>3, <2>4
    DEF TlsClientHello, TypeOK, BindingStoreTypeOK, ChallengeStoreTypeOK,
        RateLimiterTypeOK, BackendTypeOK, bindingVars, challengeVars,
        backendVars, restartVars, historyVars
<1>3. CASE \E reply \in replies : BindIssuedToken(reply)
  <2>1. PICK reply \in replies : BindIssuedToken(reply)
    BY <1>3
  <2>2. reply.token \in Tokens /\ reply.meta \in Metadata
        /\ reply.meta.ja4 \in JA4s
    BY <2>1 DEF BindIssuedToken, Bindable, TypeOK, Reply, Metadata, Optional
  <2>3. (bindings \in [Tokens -> Optional(Binding)])'
    BY <2>1, <2>2
    DEF BindIssuedToken, Bind, TypeOK, BindingStoreTypeOK, Binding, Metadata,
        Optional
  <2>4. (report \in Report)'
    <3>1. PICK written \in AuditOutcomes(1) :
            Reported("issuance", reply.token, "", 0, written)
      BY <2>1 DEF BindIssuedToken
    <3>2. "issuance" \in ReportKinds /\ "" \in Reasons
          /\ reply.token \in Optional(Tokens) /\ 0 \in Nat
      BY <2>2 DEF ReportKinds, Reasons, Optional
    <3> QED BY <3>1, <3>2, ReportedTyped
  <2> QED
    BY <1>1, <2>1, <2>3, <2>4
    DEF BindIssuedToken, TypeOK, BindingStoreTypeOK
<1>4. CASE \E reply \in replies : IgnoreReply(reply)
  BY <1>1, <1>4, NoReportTyped DEF IgnoreReply, TypeOK, BindingStoreTypeOK
<1>5. CASE \E t \in Tokens : RevokeToken(t)
  <2>1. PICK t \in Tokens : RevokeToken(t)
    BY <1>5
  <2>2. bindings[t] \in Binding
    BY <2>1 DEF RevokeToken, Revocable, TypeOK, BindingStoreTypeOK, Optional
  <2>3. (bindings \in [Tokens -> Optional(Binding)])'
    <3>1. [bindings[t] EXCEPT !.revoked = TRUE] \in Binding
      BY <2>2 DEF Binding
    <3> QED
      BY <2>1, <3>1
      DEF RevokeToken, Revoke, TypeOK, BindingStoreTypeOK, Optional
  <2>4. (report \in Report /\ revoked \subseteq Tokens)'
    <3>1. PICK written \in AuditOutcomes(1) :
            /\ Reported("revocation", t, "", 0, written)
            /\ revoked' = IF written = 1 THEN revoked \cup {t} ELSE revoked
      BY <2>1 DEF RevokeToken
    <3>2. "revocation" \in ReportKinds /\ "" \in Reasons
          /\ t \in Optional(Tokens) /\ 0 \in Nat
      BY DEF ReportKinds, Reasons, Optional
    <3> QED BY <3>1, <3>2, ReportedTyped DEF TypeOK
  <2> QED
    BY <1>1, <2>1, <2>3, <2>4 DEF RevokeToken, TypeOK, BindingStoreTypeOK
<1>6. CASE \E t \in Optional(Tokens) : RevokeUnknown(t)
  BY <1>1, <1>6, NoReportTyped DEF RevokeUnknown, TypeOK, BindingStoreTypeOK
<1> QED BY <1>2, <1>3, <1>4, <1>5, <1>6

(* The backend and the connections to it.                                  *)
LEMMA ServerTypeOK ==
  ASSUME TypeOK,
         \/ \E f \in upstream :
              \/ \E t \in Tokens : BackendIssues(f, t)
              \/ BackendExecutes(f)
              \/ BackendRefuses(f)
              \/ LoseRequest(f)
         \/ \E reply \in replies : LoseReply(reply)
  PROVE  TypeOK'
<1>1. ASSUME ServerFrame
      PROVE  /\ BindingStoreTypeOK'
             /\ ChallengeStoreTypeOK'
             /\ RateLimiterTypeOK'
             /\ (now \in Nat /\ restarts \in Nat /\ backendRestarts \in Nat)'
             /\ (connected \subseteq Conns)'
             /\ (ja4ByConnection \in [Conns -> Optional(JA4s)])'
             /\ (admitted \subseteq Admission /\ revoked \subseteq Tokens)'
             /\ (passes \in [Tokens \X ProofJtis -> Nat])'
  BY <1>1 DEF ServerFrame, TypeOK, BindingStoreTypeOK, ChallengeStoreTypeOK,
              RateLimiterTypeOK, bindingVars, challengeVars, networkVars,
              restartVars, historyVars
<1>2. ASSUME NEW f \in upstream, NEW t \in Tokens, BackendIssues(f, t)
      PROVE  TypeOK'
  <2>1. f \in Flow /\ f.proof \in Proof
    BY <1>2 DEF BackendIssues, TokenRequestValid, TypeOK, Flow, Optional
  <2>2. BackendTypeOK'
    BY <1>2, <2>1, TokenTTLAssumption
    DEF BackendIssues, IssueToken, TypeOK, BackendTypeOK, TokenRecord,
        Optional, Proof
  <2>3. (replies \subseteq Reply)'
    BY <1>2, <2>1 DEF BackendIssues, TypeOK, Flow, Reply
  <2> QED
    BY <1>1, <1>2, <2>2, <2>3, NoReportTyped DEF BackendIssues, TypeOK
<1>3. ASSUME NEW f \in upstream, BackendExecutes(f)  PROVE TypeOK'
  <2>1. f \in Flow /\ f.token \in Tokens /\ f.proof \in Proof
    BY <1>3 DEF BackendExecutes, Authenticates, TokenVerifies, TypeOK, Flow,
                Optional
  <2>2. BackendTypeOK'
    BY <1>3, <2>1
    DEF BackendExecutes, TypeOK, BackendTypeOK, Use, Proof
  <2> QED BY <1>1, <1>3, <2>2, NoReportTyped DEF BackendExecutes, TypeOK
<1>4. ASSUME NEW f \in upstream, BackendRefuses(f) \/ LoseRequest(f)
      PROVE  TypeOK'
  BY <1>1, <1>4, NoReportTyped
  DEF BackendRefuses, LoseRequest, TypeOK, BackendTypeOK, backendVars
<1>5. ASSUME NEW reply \in replies, LoseReply(reply)  PROVE TypeOK'
  BY <1>1, <1>5, NoReportTyped
  DEF LoseReply, TypeOK, BackendTypeOK, backendVars
<1> QED BY <1>2, <1>3, <1>4, <1>5

(* Restarts and the clock.                                                 *)
LEMMA RestartTypeOK ==
  ASSUME TypeOK, ProxyRestarts \/ BackendRestarts \/ Tick
  PROVE  TypeOK'
<1>1. CASE ProxyRestarts
  BY <1>1, NoReportTyped
  DEF ProxyRestarts, TypeOK, BindingStoreTypeOK, ChallengeStoreTypeOK,
      RateLimiterTypeOK, BackendTypeOK, backendVars, historyVars, Optional
<1>2. CASE BackendRestarts
  <2>1. BackendTypeOK'
    <3>1. \A t \in Tokens :
            tokens[t] # None =>
              [tokens[t] EXCEPT !.verifiable = FALSE] \in TokenRecord
      BY DEF TypeOK, BackendTypeOK, TokenRecord, Optional
    <3> QED
      BY <1>2, <3>1
      DEF BackendRestarts, LoseSigningKey, TypeOK, BackendTypeOK, Optional
  <2> QED
    BY <1>2, <2>1, NoReportTyped
    DEF BackendRestarts, TypeOK, BindingStoreTypeOK, ChallengeStoreTypeOK,
        RateLimiterTypeOK, bindingVars, challengeVars, networkVars, historyVars
<1>3. CASE Tick
  BY <1>3, NoReportTyped
  DEF Tick, TypeOK, BindingStoreTypeOK, ChallengeStoreTypeOK,
      RateLimiterTypeOK, BackendTypeOK, bindingVars, challengeVars,
      backendVars, networkVars, restartVars, historyVars
<1> QED BY <1>1, <1>2, <1>3

(* The types hold initially.                                               *)
LEMMA InitTypeOK == Init => TypeOK
BY NoReportTyped
DEF Init, ProxyInit, TypeOK, BindingStoreInit, BindingStoreTypeOK,
    ChallengeStoreTypeOK, RateLimiterInit, RateLimiterTypeOK, BackendInit,
    BackendTypeOK, Optional

(* Every step of proxy, backend, network and clock keeps the types.        *)
LEMMA NextTypeOK == TypeOK /\ [Next]_vars => TypeOK'
<1> SUFFICES ASSUME TypeOK, [Next]_vars  PROVE TypeOK'
  OBVIOUS
<1>1. CASE \E r \in Requests : Request(r)
  BY <1>1, RequestTyped, RequestTypeOK
<1>2. CASE UNCHANGED vars
  BY <1>2
  DEF vars, TypeOK, BindingStoreTypeOK, ChallengeStoreTypeOK,
      RateLimiterTypeOK, BackendTypeOK, bindingVars, challengeVars,
      backendVars, networkVars, restartVars, historyVars
<1> QED BY <1>1, <1>2, HookTypeOK, ServerTypeOK, RestartTypeOK DEF Next

(* Every variable of the proxy and its surroundings keeps its type: no     *)
(* hook stores a fingerprint, a proof or a time that is none, and nothing  *)
(* without a TLS fingerprint is ever bound.                                *)
THEOREM TypeCorrect == Spec => []TypeOK
<1>1. Init => TypeOK
  BY InitTypeOK
<1>2. TypeOK /\ [Next]_vars => TypeOK'
  BY NextTypeOK
<1> QED BY <1>1, <1>2, PTL DEF Spec

(***************************************************************************)
(* What a request can do to the state the invariants speak of.             *)
(***************************************************************************)

(* The engine passes only what matches the binding, and never a revoked    *)
(* one.                                                                    *)
LEMMA PassMatches ==
  ASSUME NEW r, Found(r.token, now) # None, DecisionOn(r).outcome = "PASS"
  PROVE  /\ bindings[r.token] # None
         /\ ~bindings[r.token].revoked
         /\ Presented(r) = bindings[r.token].ja4
         /\ r.proof.jkt = bindings[r.token].jkt
<1>1. Found(r.token, now) = bindings[r.token] /\ bindings[r.token] # None
  BY FoundIsBound
<1>2. DecisionOn(r).reason = "ok"
  BY DEF DecisionOn, Evaluate
<1> QED BY <1>1, <1>2 DEF DecisionOn, Evaluate, Reason, IsRevoked, Ja4Matches

(* A request that is let pass, and what is remembered of it.               *)
AdmissionOf(r, nonce) ==
  [token |-> r.token, proof |-> r.proof.jti, jkt |-> r.proof.jkt,
   ja4 |-> Presented(r), nonce |-> nonce]

PassesWith(r, nonce) ==
  /\ FindsBinding(r)
  /\ DecisionOn(r).outcome = "PASS"
  /\ admitted' = admitted \cup {AdmissionOf(r, nonce)}
  /\ passes' = [passes EXCEPT ![<<r.token, r.proof.jti>>] = @ + 1]

(* A flow that a request may add to those on their way.                    *)
ForwardedFor(r, f) ==
  /\ f.path = r.path
  /\ f.token = r.token
  /\ f.proof = r.proof
  /\ f.meta # None => /\ f.path = "token"
                      /\ f.proof # None
                      /\ f.meta.jkt = f.proof.jkt

LEMMA RequestEffect ==
  ASSUME TypeOK, NEW r, Request(r)
  PROVE  /\ UNCHANGED <<tokens, executed, replies, revoked>>
         /\ \A t \in Tokens : bindings'[t] \in {bindings[t], None}
         /\ UNCHANGED <<admitted, passes>> \/ \E nonce : PassesWith(r, nonce)
         /\ \A f \in upstream' : f \in upstream \/ ForwardedFor(r, f)
<1>1. ASSUME RequestFrame  PROVE UNCHANGED <<tokens, executed, replies, revoked>>
  BY <1>1 DEF RequestFrame, backendVars
<1>2. ASSUME UNCHANGED bindings \/ Get(r.token, now)
      PROVE  \A t \in Tokens : bindings'[t] \in {bindings[t], None}
  BY <1>2 DEF Get, TypeOK, BindingStoreTypeOK
<1>3. ASSUME NEW kind, NEW reason, NEW risk, Refuse(r, kind, reason, risk)
      PROVE  /\ UNCHANGED <<admitted, passes>>
             /\ \A f \in upstream' : f \in upstream \/ ForwardedFor(r, f)
  BY <1>3 DEF Refuse, FlowOf, ForwardedFor
<1>4. ASSUME NEW kind, NEW risk, NEW nonce, Admit(r, kind, risk, nonce),
             FindsBinding(r), DecisionOn(r).outcome = "PASS"
      PROVE  /\ \E n : PassesWith(r, n)
             /\ \A f \in upstream' : f \in upstream \/ ForwardedFor(r, f)
  <2>1. PassesWith(r, nonce)
    BY <1>4 DEF Admit, PassesWith, AdmissionOf
  <2> QED BY <1>4, <2>1 DEF Admit, FlowOf, ForwardedFor
<1>5. CASE RateLimited(r)
  BY <1>1, <1>2, <1>3, <1>5 DEF RateLimited, bindingVars
<1>6. CASE MissingProof(r)
  BY <1>1, <1>2, <1>3, <1>6 DEF MissingProof, bindingVars
<1>7. CASE InvalidProof(r)
  BY <1>1, <1>2, <1>3, <1>7 DEF InvalidProof, bindingVars
<1>8. CASE ReplayedProof(r)
  BY <1>1, <1>2, <1>3, <1>8 DEF ReplayedProof, bindingVars
<1>9. CASE ForwardTokenRequest(r)
  BY <1>1, <1>2, <1>9
  DEF ForwardTokenRequest, AcceptsProof, FlowOf, ForwardedFor
<1>10. CASE UnboundToken(r)
  BY <1>1, <1>2, <1>3, <1>10 DEF UnboundToken
<1>11. CASE BlockedByEngine(r)
  BY <1>1, <1>2, <1>3, <1>11 DEF BlockedByEngine, FindsBinding
<1>12. CASE PassedByEngine(r)
  BY <1>1, <1>2, <1>4, <1>12 DEF PassedByEngine, FindsBinding
<1>13. CASE StepUpPassed(r)
  BY <1>1, <1>2, <1>4, <1>13 DEF StepUpPassed, FindsBinding, InChallengeBand
<1>14. CASE StepUpRequired(r)
  BY <1>1, <1>2, <1>3, <1>14 DEF StepUpRequired, FindsBinding
<1> QED BY <1>5, <1>6, <1>7, <1>8, <1>9, <1>10, <1>11, <1>12, <1>13, <1>14
        DEF Request

(***************************************************************************)
(* One token, one sender.                                                  *)
(***************************************************************************)
LEMMA SenderInit == Init => SenderInvariant
BY DEF Init, ProxyInit, BindingStoreInit, BackendInit, SenderInvariant,
       FlowsCarryTheirKey, RepliesAreFresh, BindingMatchesToken,
       OneSenderPerToken, AdmittedStayBound

LEMMA SenderRequest ==
  ASSUME TypeOK, TypeOK', SenderInvariant, NEW r \in RequestType, Request(r)
  PROVE  SenderInvariant'
<1> USE RequestEffect
<1>1. FlowsCarryTheirKey'
  BY DEF SenderInvariant, FlowsCarryTheirKey, ForwardedFor
<1>2. RepliesAreFresh'
  BY DEF SenderInvariant, RepliesAreFresh, TypeOK, Reply
<1>3. BindingMatchesToken'
  BY DEF SenderInvariant, BindingMatchesToken
<1>4. CASE admitted' = admitted
  <2>1. OneSenderPerToken'
    BY <1>4 DEF SenderInvariant, OneSenderPerToken
  <2>2. AdmittedStayBound'
    BY <1>4 DEF SenderInvariant, AdmittedStayBound, TypeOK, Admission
  <2> QED BY <1>1, <1>2, <1>3, <2>1, <2>2 DEF SenderInvariant
<1>5. CASE \E nonce : PassesWith(r, nonce)
  <2>1. PICK nonce : PassesWith(r, nonce)
    BY <1>5
  <2> DEFINE new == AdmissionOf(r, nonce)
  <2>2. /\ r.token \in Tokens
        /\ bindings[r.token] # None
        /\ new.ja4 = bindings[r.token].ja4
        /\ new.jkt = bindings[r.token].jkt
        /\ new.token = r.token
    BY <2>1, PassMatches, DecisionTyped
    DEF PassesWith, FindsBinding, AdmissionOf
  <2>3. /\ tokens[new.token] # None
        /\ new.jkt = tokens[new.token].jkt
        /\ \A reply \in replies : reply.token # new.token
        /\ \A b \in admitted : b.token = new.token => b.ja4 = new.ja4
    BY <2>2 DEF SenderInvariant, BindingMatchesToken, RepliesAreFresh,
                AdmittedStayBound
  <2>4. admitted' = admitted \cup {new}
    BY <2>1 DEF PassesWith
  <2> HIDE DEF new
  <2>5. OneSenderPerToken'
    BY <2>3, <2>4 DEF SenderInvariant, OneSenderPerToken
  <2>6. AdmittedStayBound'
    BY <2>2, <2>3, <2>4
    DEF SenderInvariant, AdmittedStayBound, TypeOK, Admission
  <2> QED BY <1>1, <1>2, <1>3, <2>5, <2>6 DEF SenderInvariant
<1> QED BY <1>4, <1>5

LEMMA SenderHook ==
  ASSUME TypeOK, TypeOK', SenderInvariant,
         \/ \E c \in Conns : TlsClientHello(c)
         \/ \E reply \in replies : BindIssuedToken(reply) \/ IgnoreReply(reply)
         \/ \E t \in Tokens : RevokeToken(t)
         \/ \E t \in Optional(Tokens) : RevokeUnknown(t)
  PROVE  SenderInvariant'
<1>1. CASE \E c \in Conns : TlsClientHello(c)
  BY <1>1
  DEF TlsClientHello, bindingVars, backendVars, historyVars, SenderInvariant,
      FlowsCarryTheirKey, RepliesAreFresh, BindingMatchesToken,
      OneSenderPerToken, AdmittedStayBound
<1>2. ASSUME HookFrame  PROVE UNCHANGED <<tokens, admitted, upstream>>
  BY <1>2 DEF HookFrame, backendVars
<1>3. CASE \E reply \in replies : BindIssuedToken(reply)
  <2>1. PICK reply \in replies : BindIssuedToken(reply)
    BY <1>3
  <2>2. /\ UNCHANGED <<tokens, admitted, upstream>>
        /\ replies' = replies \ {reply}
        /\ reply.token \in Tokens
        /\ reply.meta # None
    BY <1>2, <2>1 DEF BindIssuedToken, Bindable, TypeOK, Reply
  <2>3. /\ bindings'[reply.token].jkt = reply.meta.jkt
        /\ \A t \in Tokens : t # reply.token => bindings'[t] = bindings[t]
    BY <2>1, <2>2 DEF BindIssuedToken, Bind, TypeOK, BindingStoreTypeOK
  <2>4. FlowsCarryTheirKey'
    BY <2>2 DEF SenderInvariant, FlowsCarryTheirKey
  <2>5. RepliesAreFresh'
    BY <2>2, <2>3 DEF SenderInvariant, RepliesAreFresh, TypeOK, Reply
  <2>6. BindingMatchesToken'
    BY <2>2, <2>3 DEF SenderInvariant, RepliesAreFresh, BindingMatchesToken
  <2>7. OneSenderPerToken'
    BY <2>2 DEF SenderInvariant, OneSenderPerToken
  <2>8. AdmittedStayBound'
    BY <2>2, <2>3 DEF SenderInvariant, AdmittedStayBound, TypeOK, Admission
  <2> QED BY <2>4, <2>5, <2>6, <2>7, <2>8 DEF SenderInvariant
<1>4. CASE \E reply \in replies : IgnoreReply(reply)
  BY <1>2, <1>4
  DEF IgnoreReply, SenderInvariant, FlowsCarryTheirKey, RepliesAreFresh,
      BindingMatchesToken, OneSenderPerToken, AdmittedStayBound
<1>5. CASE \E t \in Tokens : RevokeToken(t)
  <2>1. PICK t \in Tokens : RevokeToken(t)
    BY <1>5
  <2>2. UNCHANGED <<tokens, admitted, upstream, replies>>
    BY <1>2, <2>1 DEF RevokeToken
  <2>3. /\ bindings[t] # None
        /\ \A u \in Tokens :
             /\ bindings'[u] = None <=> bindings[u] = None
             /\ bindings[u] # None =>
                  /\ bindings'[u].jkt = bindings[u].jkt
                  /\ bindings'[u].ja4 = bindings[u].ja4
    <3>1. bindings[t] \in Binding
      BY <2>1 DEF RevokeToken, Revocable, TypeOK, BindingStoreTypeOK, Optional
    <3>2. [bindings[t] EXCEPT !.revoked = TRUE] \in Binding
      BY <3>1 DEF Binding
    <3>3. bindings' =
            [bindings EXCEPT ![t] = [bindings[t] EXCEPT !.revoked = TRUE]]
      BY <2>1 DEF RevokeToken, Revoke
    <3> QED
      BY <3>1, <3>2, <3>3, NoneIsNoBinding DEF TypeOK, BindingStoreTypeOK, Binding
  <2> QED
    BY <2>2, <2>3
    DEF SenderInvariant, FlowsCarryTheirKey, RepliesAreFresh,
        BindingMatchesToken, OneSenderPerToken, AdmittedStayBound, TypeOK,
        Reply, Admission
<1>6. CASE \E t \in Optional(Tokens) : RevokeUnknown(t)
  BY <1>2, <1>6
  DEF RevokeUnknown, SenderInvariant, FlowsCarryTheirKey, RepliesAreFresh,
      BindingMatchesToken, OneSenderPerToken, AdmittedStayBound
<1> QED BY <1>1, <1>3, <1>4, <1>5, <1>6

LEMMA SenderServer ==
  ASSUME TypeOK, TypeOK', SenderInvariant,
         \/ \E f \in upstream :
              \/ \E t \in Tokens : BackendIssues(f, t)
              \/ BackendExecutes(f)
              \/ BackendRefuses(f)
              \/ LoseRequest(f)
         \/ \E reply \in replies : LoseReply(reply)
  PROVE  SenderInvariant'
<1>1. ASSUME ServerFrame  PROVE UNCHANGED <<bindings, admitted>>
  BY <1>1 DEF ServerFrame, bindingVars, historyVars
<1>2. ASSUME UNCHANGED <<bindings, admitted, tokens>>,
             upstream' \subseteq upstream, replies' \subseteq replies
      PROVE  SenderInvariant'
  BY <1>2
  DEF SenderInvariant, FlowsCarryTheirKey, RepliesAreFresh,
      BindingMatchesToken, OneSenderPerToken, AdmittedStayBound
<1>3. ASSUME NEW f \in upstream, NEW t \in Tokens, BackendIssues(f, t)
      PROVE  SenderInvariant'
  <2> DEFINE new == [token |-> t, meta |-> f.meta]
  <2>1. /\ UNCHANGED <<bindings, admitted>>
        /\ upstream' \subseteq upstream
        /\ replies' = replies \cup {new}
        /\ tokens[t] = None
        /\ tokens'[t] # None
        /\ tokens'[t].jkt = f.proof.jkt
        /\ \A u \in Tokens : u # t => tokens'[u] = tokens[u]
    <3>1. f.proof \in Proof
      BY <1>3 DEF BackendIssues, TokenRequestValid, TypeOK, Flow, Optional
    <3>2. [jkt |-> f.proof.jkt, exp |-> now + TokenTTL, verifiable |-> TRUE]
            \in TokenRecord
      BY <3>1, TokenTTLAssumption DEF Proof, TypeOK, TokenRecord
    <3> QED
      BY <1>1, <1>3, <3>2, NoneIsNoToken
      DEF BackendIssues, IssueToken, TypeOK, BackendTypeOK
  <2>2. bindings[t] = None /\ \A reply \in replies : reply.token # t
    BY <2>1 DEF SenderInvariant, BindingMatchesToken, RepliesAreFresh
  <2>3. FlowsCarryTheirKey'
    BY <2>1 DEF SenderInvariant, FlowsCarryTheirKey
  <2>4. RepliesAreFresh'
    <3>1. f.meta # None => f.meta.jkt = f.proof.jkt
      BY DEF SenderInvariant, FlowsCarryTheirKey
    <3> QED
      BY <2>1, <2>2, <3>1 DEF SenderInvariant, RepliesAreFresh, TypeOK, Reply
  <2>5. BindingMatchesToken'
    BY <2>1, <2>2 DEF SenderInvariant, BindingMatchesToken
  <2>6. \A a \in admitted : a.token # t
    BY <2>1 DEF SenderInvariant, OneSenderPerToken
  <2>7. OneSenderPerToken'
    BY <2>1, <2>6 DEF SenderInvariant, OneSenderPerToken, TypeOK, Admission
  <2>8. AdmittedStayBound'
    BY <2>1, <2>6 DEF SenderInvariant, AdmittedStayBound
  <2> QED BY <2>3, <2>4, <2>5, <2>7, <2>8 DEF SenderInvariant
<1>4. ASSUME NEW f \in upstream,
             BackendExecutes(f) \/ BackendRefuses(f) \/ LoseRequest(f)
      PROVE  SenderInvariant'
  BY <1>1, <1>2, <1>4
  DEF BackendExecutes, BackendRefuses, LoseRequest, backendVars
<1>5. ASSUME NEW reply \in replies, LoseReply(reply)  PROVE SenderInvariant'
  BY <1>1, <1>2, <1>5 DEF LoseReply, backendVars
<1> QED BY <1>3, <1>4, <1>5

LEMMA SenderRestart ==
  ASSUME TypeOK, TypeOK', SenderInvariant,
         ProxyRestarts \/ BackendRestarts \/ Tick
  PROVE  SenderInvariant'
<1>1. CASE ProxyRestarts
  BY <1>1
  DEF ProxyRestarts, backendVars, historyVars, SenderInvariant,
      FlowsCarryTheirKey, RepliesAreFresh, BindingMatchesToken,
      OneSenderPerToken, AdmittedStayBound, TypeOK, Admission
<1>2. CASE BackendRestarts
  <2>1. /\ UNCHANGED <<bindings, admitted, replies>>
        /\ upstream' = {}
    BY <1>2 DEF BackendRestarts, bindingVars, historyVars
  <2>2. \A t \in Tokens :
          /\ tokens'[t] = None <=> tokens[t] = None
          /\ tokens[t] # None => tokens'[t].jkt = tokens[t].jkt
    <3>1. \A t \in Tokens :
            tokens[t] # None =>
              /\ [tokens[t] EXCEPT !.verifiable = FALSE] \in TokenRecord
              /\ [tokens[t] EXCEPT !.verifiable = FALSE].jkt = tokens[t].jkt
      BY DEF TypeOK, BackendTypeOK, TokenRecord, Optional
    <3> QED BY <1>2, <3>1, NoneIsNoToken DEF BackendRestarts, LoseSigningKey
  <2> QED
    BY <2>1, <2>2
    DEF SenderInvariant, FlowsCarryTheirKey, RepliesAreFresh,
        BindingMatchesToken, OneSenderPerToken, AdmittedStayBound, TypeOK,
        Reply, Admission
<1>3. CASE Tick
  BY <1>3
  DEF Tick, bindingVars, backendVars, historyVars, SenderInvariant,
      FlowsCarryTheirKey, RepliesAreFresh, BindingMatchesToken,
      OneSenderPerToken, AdmittedStayBound
<1> QED BY <1>1, <1>2, <1>3

LEMMA SenderStep == TypeOK /\ SenderInvariant /\ [Next]_vars => SenderInvariant'
<1> SUFFICES ASSUME TypeOK, SenderInvariant, [Next]_vars
             PROVE  SenderInvariant'
  OBVIOUS
<1>1. TypeOK'
  BY NextTypeOK
<1>2. CASE \E r \in Requests : Request(r)
  BY <1>1, <1>2, RequestTyped, SenderRequest
<1>3. CASE UNCHANGED vars
  BY <1>3
  DEF vars, bindingVars, backendVars, historyVars, SenderInvariant,
      FlowsCarryTheirKey, RepliesAreFresh, BindingMatchesToken,
      OneSenderPerToken, AdmittedStayBound
<1> QED BY <1>1, <1>2, <1>3, SenderHook, SenderServer, SenderRestart DEF Next

(* The invariant of everything that makes a token the property of one      *)
(* sender, from the request hook that stashes to the hook that lets pass.  *)
THEOREM SenderInvariantHolds == Spec => []SenderInvariant
<1>1. Init => TypeOK /\ SenderInvariant
  BY InitTypeOK, SenderInit
<1>2. TypeOK /\ SenderInvariant /\ [Next]_vars => TypeOK' /\ SenderInvariant'
  BY NextTypeOK, SenderStep
<1> QED BY <1>1, <1>2, PTL DEF Spec

(* The proxy binds a token to the key the backend put into it, whatever    *)
(* flows are interleaved between the two hooks of the issuance.            *)
THEOREM BindingsMatchTokens == Spec => []BindingMatchesToken
BY SenderInvariantHolds, PTL DEF SenderInvariant

(* All that ever passes under a token comes from one key and one TLS stack:*)
(* the addon's hard signals hold up across restarts and reissues.          *)
THEOREM TokensHaveOneSender == Spec => []OneSenderPerToken
BY SenderInvariantHolds, PTL DEF SenderInvariant

(***************************************************************************)
(* Revocation.                                                             *)
(***************************************************************************)

(* A token that is revoked now was bound: nothing is left to bind it anew. *)
LEMMA RevokedIsOutOfUse ==
  ASSUME TypeOK, SenderInvariant, NEW t \in Tokens, RevokeToken(t)
  PROVE  OutOfUse(t)'
<1>1. UNCHANGED <<tokens, replies>>
  BY DEF RevokeToken, HookFrame, backendVars
<1>2. bindings[t] # None /\ bindings[t] \in Binding
  BY DEF RevokeToken, Revocable, TypeOK, BindingStoreTypeOK, Optional
<1>3. bindings' = [bindings EXCEPT ![t] = [bindings[t] EXCEPT !.revoked = TRUE]]
  BY DEF RevokeToken, Revoke
<1>4. bindings'[t].revoked
  BY <1>2, <1>3 DEF TypeOK, BindingStoreTypeOK, Binding
<1>5. tokens[t] # None /\ \A reply \in replies : reply.token # t
  BY <1>2 DEF SenderInvariant, BindingMatchesToken, RepliesAreFresh
<1> QED BY <1>1, <1>4, <1>5 DEF OutOfUse

LEMMA OutOfUseStays ==
  ASSUME TypeOK, SenderInvariant, [Next]_vars, NEW t \in Tokens, OutOfUse(t)
  PROVE  OutOfUse(t)'
<1>1. ASSUME UNCHANGED tokens, replies' \subseteq replies,
             bindings'[t] \in {bindings[t], None}
      PROVE  OutOfUse(t)'
  BY <1>1 DEF OutOfUse
<1>2. CASE \E r \in Requests : Request(r)
  BY <1>1, <1>2, RequestEffect
<1>3. CASE \E c \in Conns : TlsClientHello(c)
  BY <1>1, <1>3 DEF TlsClientHello, bindingVars, backendVars
<1>4. CASE \E reply \in replies : BindIssuedToken(reply)
  <2>1. PICK reply \in replies : BindIssuedToken(reply)
    BY <1>4
  <2>2. UNCHANGED tokens /\ replies' = replies \ {reply}
    BY <2>1 DEF BindIssuedToken, HookFrame, backendVars
  <2>3. t # reply.token => bindings'[t] = bindings[t]
    BY <2>1 DEF BindIssuedToken, Bind, TypeOK, BindingStoreTypeOK
  <2> QED BY <2>2, <2>3 DEF OutOfUse
<1>5. CASE \E reply \in replies : IgnoreReply(reply) \/ LoseReply(reply)
  BY <1>1, <1>5
  DEF IgnoreReply, LoseReply, HookFrame, ServerFrame, bindingVars, backendVars
<1>6. ASSUME NEW u \in Tokens, RevokeToken(u)
      PROVE  OutOfUse(t)'
  <2>1. CASE u = t
    BY <1>6, <2>1, RevokedIsOutOfUse
  <2>2. CASE u # t
    BY <1>1, <1>6, <2>2
    DEF RevokeToken, Revoke, HookFrame, backendVars, TypeOK, BindingStoreTypeOK
  <2> QED BY <2>1, <2>2
<1>7. CASE \E u \in Optional(Tokens) : RevokeUnknown(u)
  BY <1>1, <1>7 DEF RevokeUnknown, HookFrame, backendVars
<1>8. ASSUME NEW f \in upstream, NEW u \in Tokens, BackendIssues(f, u)
      PROVE  OutOfUse(t)'
  <2>1. UNCHANGED bindings /\ tokens[u] = None
    BY <1>8 DEF BackendIssues, IssueToken, ServerFrame, bindingVars
  <2>2. replies' = replies \cup {[token |-> u, meta |-> f.meta]}
    BY <1>8 DEF BackendIssues
  <2>3. u # t /\ tokens'[t] = tokens[t]
    BY <1>8, <2>1 DEF BackendIssues, IssueToken, TypeOK, BackendTypeOK, OutOfUse
  <2> QED BY <2>1, <2>2, <2>3 DEF OutOfUse
<1>9. ASSUME NEW f \in upstream,
             BackendExecutes(f) \/ BackendRefuses(f) \/ LoseRequest(f)
      PROVE  OutOfUse(t)'
  BY <1>1, <1>9
  DEF BackendExecutes, BackendRefuses, LoseRequest, ServerFrame, bindingVars,
      backendVars
<1>10. CASE ProxyRestarts
  BY <1>1, <1>10 DEF ProxyRestarts, backendVars
<1>11. CASE BackendRestarts
  <2>1. UNCHANGED <<bindings, replies>>
    BY <1>11 DEF BackendRestarts, bindingVars
  <2>2. tokens'[t] # None
    <3>1. tokens[t] # None =>
            [tokens[t] EXCEPT !.verifiable = FALSE] \in TokenRecord
      BY DEF TypeOK, BackendTypeOK, TokenRecord, Optional
    <3> QED
      BY <1>11, <3>1, NoneIsNoToken DEF BackendRestarts, LoseSigningKey, OutOfUse
  <2> QED BY <2>1, <2>2 DEF OutOfUse
<1>12. CASE Tick \/ UNCHANGED vars
  BY <1>1, <1>12 DEF Tick, vars, bindingVars, backendVars
<1> QED
  BY <1>2, <1>3, <1>4, <1>5, <1>6, <1>7, <1>8, <1>9, <1>10, <1>11, <1>12
  DEF Next

LEMMA RevokedStep ==
  TypeOK /\ SenderInvariant /\ RevokedStayUnbound /\ [Next]_vars
    => RevokedStayUnbound'
<1> SUFFICES ASSUME TypeOK, SenderInvariant, RevokedStayUnbound, [Next]_vars
             PROVE  RevokedStayUnbound'
  OBVIOUS
<1>1. \A t \in revoked : OutOfUse(t)'
  BY OutOfUseStays DEF RevokedStayUnbound, TypeOK
<1>2. CASE revoked' = revoked
  BY <1>1, <1>2 DEF RevokedStayUnbound
<1>3. ASSUME NEW t \in Tokens, RevokeToken(t)
      PROVE  RevokedStayUnbound'
  <2>1. revoked' \subseteq revoked \cup {t}
    BY <1>3 DEF RevokeToken
  <2>2. OutOfUse(t)'
    BY <1>3, RevokedIsOutOfUse
  <2> QED BY <1>1, <2>1, <2>2 DEF RevokedStayUnbound
<1>4. CASE \E r \in Requests : Request(r)
  BY <1>2, <1>4, RequestEffect
<1> QED
  BY <1>2, <1>3, <1>4
  DEF Next, vars, TlsClientHello, BindIssuedToken, IgnoreReply, LoseReply,
      RevokeUnknown, BackendIssues, BackendExecutes, BackendRefuses,
      LoseRequest, ProxyRestarts, BackendRestarts, Tick, HookFrame,
      ServerFrame, historyVars

(* Only a request is let pass, and only under a binding not revoked.       *)
LEMMA OnlyUnrevokedPass ==
  TypeOK /\ RevokedStayUnbound /\ [Next]_vars
    => \A use \in Tokens \X ProofJtis :
         passes'[use] # passes[use] => use[1] \notin revoked
<1> SUFFICES ASSUME TypeOK, RevokedStayUnbound, [Next]_vars,
                    NEW use \in Tokens \X ProofJtis, passes'[use] # passes[use]
             PROVE  use[1] \notin revoked
  OBVIOUS
<1>1. \E r \in Requests : Request(r)
  BY DEF Next, vars, TlsClientHello, BindIssuedToken, IgnoreReply, LoseReply,
         RevokeToken, RevokeUnknown, BackendIssues, BackendExecutes,
         BackendRefuses, LoseRequest, ProxyRestarts, BackendRestarts, Tick,
         HookFrame, ServerFrame, historyVars
<1>2. PICK r \in Requests : Request(r)
  BY <1>1
<1>3. PICK nonce : PassesWith(r, nonce)
  BY <1>2, RequestEffect
<1>4. use[1] = r.token
  <2>1. use = <<r.token, r.proof.jti>>
    BY <1>3 DEF PassesWith, TypeOK
  <2> QED BY <2>1
<1>5. bindings[r.token] # None /\ ~bindings[r.token].revoked
  BY <1>3, PassMatches DEF PassesWith, FindsBinding
<1> QED BY <1>4, <1>5 DEF RevokedStayUnbound, OutOfUse

(* A token whose revocation was answered never passes again, not even by   *)
(* the answer of an issuance still in flight or after a restart.           *)
THEOREM RevocationsArePermanent == Spec => RevocationIsPermanent
<1>1. Init => RevokedStayUnbound
  BY DEF Init, RevokedStayUnbound
<1>2. [Next]_vars /\ TypeOK /\ RevokedStayUnbound
        => [\A use \in Tokens \X ProofJtis :
              passes'[use] # passes[use] => use[1] \notin revoked]_vars
  BY OnlyUnrevokedPass
<1> QED
  BY <1>1, <1>2, TypeCorrect, SenderInvariantHolds, RevokedStep, PTL
  DEF Spec, RevocationIsPermanent

(***************************************************************************)
(* Step-up nonces.                                                         *)
(***************************************************************************)
NonceInvariant == NoncesAreDrawnOnce /\ OneAdmissionPerNonce

LEMMA NonceInit == Init => NonceInvariant
BY DEF Init, ProxyInit, NonceInvariant, NoncesAreDrawnOnce, OneAdmissionPerNonce

(* What a request does to the challenges and the admissions.               *)
LEMMA NonceRequest ==
  ASSUME TypeOK, TypeOK', NonceInvariant, NEW r \in RequestType, Request(r)
  PROVE  NonceInvariant'
<1>1. ASSUME UNCHANGED <<challengeVars, admitted>>  PROVE NonceInvariant'
  BY <1>1 DEF challengeVars, NonceInvariant, NoncesAreDrawnOnce,
              OneAdmissionPerNonce
<1>2. CASE RateLimited(r) \/ MissingProof(r) \/ InvalidProof(r)
           \/ ReplayedProof(r) \/ ForwardTokenRequest(r) \/ UnboundToken(r)
           \/ BlockedByEngine(r)
  BY <1>1, <1>2
  DEF RateLimited, MissingProof, InvalidProof, ReplayedProof,
      ForwardTokenRequest, UnboundToken, BlockedByEngine, Refuse
<1>3. CASE PassedByEngine(r)
  <2>1. UNCHANGED <<challenges, noncesDrawn>>
    BY <1>3 DEF PassedByEngine, challengeVars
  <2>2. admitted' = admitted \cup {AdmissionOf(r, NoNonce)}
    BY <1>3 DEF PassedByEngine, Admit, AdmissionOf
  <2>3. AdmissionOf(r, NoNonce).nonce = 0
    BY DEF AdmissionOf, NoNonce
  <2>4. NoncesAreDrawnOnce'
    <3>1. \A t \in Tokens : challenges[t] # None => challenges[t].nonce # 0
      BY DEF TypeOK, ChallengeStoreTypeOK, Optional, Challenge
    <3>2. 0 <= noncesDrawn
      BY DEF TypeOK, ChallengeStoreTypeOK
    <3> QED
      BY <2>1, <2>2, <2>3, <3>1, <3>2 DEF NonceInvariant, NoncesAreDrawnOnce
  <2>5. OneAdmissionPerNonce'
    BY <2>2, <2>3 DEF NonceInvariant, OneAdmissionPerNonce, NoNonce
  <2> QED BY <2>4, <2>5 DEF NonceInvariant
<1>4. CASE StepUpPassed(r)
  <2>1. /\ r.token \in Tokens
        /\ challenges[r.token] # None
        /\ r.proof.nonce = challenges[r.token].nonce
    BY <1>4, DecisionTyped DEF StepUpPassed, FindsBinding, Answers
  <2>2. /\ challenges' = [challenges EXCEPT ![r.token] = None]
        /\ UNCHANGED noncesDrawn
    BY <1>4 DEF StepUpPassed, ConsumeChallenge
  <2>3. admitted' = admitted \cup {AdmissionOf(r, r.proof.nonce)}
    BY <1>4 DEF StepUpPassed, Admit, AdmissionOf
  <2>4. AdmissionOf(r, r.proof.nonce).nonce = challenges[r.token].nonce
    BY <2>1 DEF AdmissionOf
  <2>5. NoncesAreDrawnOnce'
    BY <2>1, <2>2, <2>3, <2>4
    DEF NonceInvariant, NoncesAreDrawnOnce, TypeOK, ChallengeStoreTypeOK
  <2>6. OneAdmissionPerNonce'
    BY <2>1, <2>3, <2>4
    DEF NonceInvariant, NoncesAreDrawnOnce, OneAdmissionPerNonce
  <2> QED BY <2>5, <2>6 DEF NonceInvariant
<1>5. CASE StepUpRequired(r)
  <2>1. r.token \in Tokens
    BY <1>5, DecisionTyped DEF StepUpRequired, FindsBinding
  <2>2. UNCHANGED admitted
    BY <1>5 DEF StepUpRequired, Refuse
  <2>3. noncesDrawn \in Nat /\ noncesDrawn' = noncesDrawn + 1
    BY <1>5 DEF StepUpRequired, IssueChallenge, TypeOK, ChallengeStoreTypeOK
  <2>4. challenges'[r.token].nonce = noncesDrawn + 1
        /\ \A t \in Tokens : t # r.token => challenges'[t] = challenges[t]
    BY <1>5, <2>1
    DEF StepUpRequired, IssueChallenge, TypeOK, ChallengeStoreTypeOK
  <2>5. \A t \in Tokens : challenges[t] # None => challenges[t].nonce \in Nat
    BY DEF TypeOK, ChallengeStoreTypeOK, Optional, Challenge
  <2>6. \A a \in admitted : a.nonce \in Nat
    BY DEF TypeOK, Admission
  <2>7. NoncesAreDrawnOnce'
    <3>1. \A t \in Tokens :
            challenges[t] # None => challenges[t].nonce < noncesDrawn + 1
      BY <2>3, <2>5 DEF NonceInvariant, NoncesAreDrawnOnce
    <3>2. \A a \in admitted : a.nonce < noncesDrawn + 1
      BY <2>3, <2>6 DEF NonceInvariant, NoncesAreDrawnOnce
    <3> QED
      BY <2>1, <2>2, <2>3, <2>4, <2>5, <2>6, <3>1, <3>2
      DEF NonceInvariant, NoncesAreDrawnOnce
  <2> QED BY <2>2, <2>7 DEF NonceInvariant, OneAdmissionPerNonce
<1> QED BY <1>2, <1>3, <1>4, <1>5 DEF Request

(* Elsewhere the challenges stay as they are, or all go in a restart.      *)
LEMMA NonceStep == TypeOK /\ NonceInvariant /\ [Next]_vars => NonceInvariant'
<1> SUFFICES ASSUME TypeOK, NonceInvariant, [Next]_vars
             PROVE  NonceInvariant'
  OBVIOUS
<1>1. CASE \E r \in Requests : Request(r)
  BY <1>1, RequestTyped, NonceRequest, NextTypeOK
<1>2. ASSUME UNCHANGED <<challengeVars, admitted>>  PROVE NonceInvariant'
  BY <1>2 DEF challengeVars, NonceInvariant, NoncesAreDrawnOnce,
              OneAdmissionPerNonce
<1>3. CASE ProxyRestarts
  BY <1>3 DEF ProxyRestarts, historyVars, NonceInvariant, NoncesAreDrawnOnce,
              OneAdmissionPerNonce
<1> QED
  BY <1>1, <1>2, <1>3
  DEF Next, vars, TlsClientHello, BindIssuedToken, IgnoreReply, LoseReply,
      RevokeToken, RevokeUnknown, BackendIssues, BackendExecutes,
      BackendRefuses, LoseRequest, BackendRestarts, Tick, HookFrame,
      ServerFrame, historyVars

(* A step-up nonce is good for one request, whatever challenges are        *)
(* outstanding for other tokens and however often they are replaced.       *)
THEOREM NoncesAdmitOnce == Spec => []OneAdmissionPerNonce
<1>1. NonceInvariant => OneAdmissionPerNonce
  BY DEF NonceInvariant
<1> QED BY <1>1, TypeCorrect, NonceInit, NonceStep, PTL DEF Spec
=============================================================================
