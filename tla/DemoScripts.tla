---------------------------- MODULE DemoScripts ----------------------------
(***************************************************************************)
(* The demo's clients (client/script_*.py, scripts/sentinel_replay.py) as  *)
(* processes in front of the proxy: each run of a script takes its steps   *)
(* one after the other, waits for every answer, and ends at the first one  *)
(* it does not expect.  Runs overlap, share the session that script A      *)
(* leaves in demo_state/, and time passes.  (script_d never gets past the  *)
(* TLS handshake and is no step of anything here.)                         *)
(***************************************************************************)
EXTENDS Sentinel

CONSTANTS
  Runs,          (* the runs of scripts                                     *)
  Casts,         (* SUBSET of SUBSET Runs: which of them there may be       *)
  ScriptOf,      (* [Runs -> which script it is]                            *)
  StackOf,       (* [Runs -> JA4s]: httpx, requests or curl                 *)
  HeadersSent,   (* [Runs -> JA4Hs]                                         *)
  OwnKey,        (* [Runs -> Keys]: the key the run would generate          *)
  SameKey,       (* the replays started with --same-key                     *)
  MaxRestarts    (* bound: restarts of proxy and backend together           *)

(* The default address, and 127.0.0.2, which needs a loopback alias.       *)
Places == {"home", "roamed"}

Steps ==
  [a |-> <<"token", "accounts", "transfer", "roam", "write_token", "write_key">>,
   b |-> <<"load_token", "steal">>,
   c |-> <<"load_token", "load_key", "roam", "steal">>,
   e |-> <<"load_token", "load_key", "accounts", "revoke", "accounts_again">>,
   f |-> <<"load_token", "load_key", "roam">>,
   replay |-> <<"load_token", "load_key", "steal">>]

AskingSteps == {"token", "accounts", "transfer", "steal", "accounts_again"}

ASSUME RunsAssumption ==
  /\ ScriptOf \in [Runs -> DOMAIN Steps]
  /\ StackOf \in [Runs -> JA4s]
  /\ HeadersSent \in [Runs -> JA4Hs]
  /\ OwnKey \in [Runs -> Keys]
  /\ \A r, s \in Runs : OwnKey[r] = OwnKey[s] => r = s
  /\ SameKey \subseteq Runs
  /\ Casts \subseteq SUBSET Runs
  /\ MaxRestarts \in Nat
  /\ IPs = Places
  /\ Conns = Runs \X Places
  /\ ConnIP = [c \in Conns |-> c[2]]
  /\ HelloOf = [c \in Conns |-> {StackOf[c[1]]}]
  /\ HeadersOf = [c \in Conns |-> {HeadersSent[c[1]]}]
  /\ ProofJtis = Runs \X AskingSteps
  /\ [jti: ProofJtis, jkt: Keys, htu: Paths, signed: {TRUE}] \subseteq ProofTemplates

VARIABLES
  at,          (* [Runs -> Nat]: the step a run is at                       *)
  outcome,     (* [Runs -> Outcomes]                                        *)
  waiting,     (* [Runs -> BOOLEAN]: its request is on its way              *)
  session,     (* [Runs -> what the run holds]                              *)
  tokenFile,   (* demo_state/stolen_token.json                              *)
  keyFile,     (* demo_state/session_key.pem                                *)
  aliasUp      (* whether 127.0.0.2 can be used                             *)

runVars == <<at, outcome, waiting, session>>
fileVars == <<tokenFile, keyFile>>
demoVars == <<vars, runVars, fileVars, aliasUp>>

(* LOST: no answer of proxy or backend came: a time-out, a reset, a 502.   *)
Outcomes == {"absent", "running", "PASS", "FAIL", "LOST"}

Session == [token: Optional(Tokens), key: Keys]

DemoTypeOK ==
  /\ TypeOK
  /\ at \in [Runs -> 1..6]
  /\ outcome \in [Runs -> Outcomes]
  /\ waiting \in [Runs -> BOOLEAN]
  /\ session \in [Runs -> Session]
  /\ tokenFile \in Optional(Tokens)
  /\ keyFile \in Optional(Keys)
  /\ aliasUp \in BOOLEAN

DemoInit ==
  /\ Init
  /\ at = [r \in Runs |-> 1]
  /\ \E cast \in Casts :
       outcome = [r \in Runs |-> IF r \in cast THEN "running" ELSE "absent"]
  /\ waiting = [r \in Runs |-> FALSE]
  /\ session = [r \in Runs |-> [token |-> None, key |-> OwnKey[r]]]
  /\ tokenFile = None
  /\ keyFile = None
  /\ aliasUp \in BOOLEAN

Step(r) == Steps[ScriptOf[r]][at[r]]

CanStep(r, steps) == outcome[r] = "running" /\ ~waiting[r] /\ Step(r) \in steps

Thieves == {r \in Runs : ScriptOf[r] \in {"b", "c"}}
-----------------------------------------------------------------------------
(* What a run makes of an answer.                                          *)
Expected(r) ==
  IF ScriptOf[r] = "replay" THEN Nat
  ELSE IF r \in Thieves \/ Step(r) = "accounts_again" THEN {401, 403}
  ELSE {200}

(* A bug: the last step is followed by another.                            *)
AdvanceAlways(r) ==
  /\ at' = [at EXCEPT ![r] = @ + 1]
  /\ UNCHANGED outcome

Advance(r) ==
  IF at[r] = Len(Steps[ScriptOf[r]])
    THEN /\ outcome' = [outcome EXCEPT ![r] = "PASS"]
         /\ UNCHANGED at
    ELSE /\ at' = [at EXCEPT ![r] = @ + 1]
         /\ UNCHANGED outcome

Fail(r) ==
  /\ outcome' = [outcome EXCEPT ![r] = "FAIL"]
  /\ UNCHANGED at

Answered(r, status) == IF status \in Expected(r) THEN Advance(r) ELSE Fail(r)

(* An answer that came over the wire: nobody may be waiting any more.      *)
Hears(r, status) ==
  IF waiting[r]
    THEN /\ Answered(r, status)
         /\ waiting' = [waiting EXCEPT ![r] = FALSE]
    ELSE UNCHANGED <<at, outcome, waiting>>
-----------------------------------------------------------------------------
(* Reading the session: the files are looked for first, then read one by   *)
(* one.  script_b and a plain replay keep the key they generated.          *)
NeedsKey(r) == ScriptOf[r] \in {"c", "e", "f"} \/ r \in SameKey

SessionFound(r) ==
  tokenFile # None /\ (ScriptOf[r] \in {"c", "e", "f"} => keyFile # None)

LoadToken(r) ==
  /\ CanStep(r, {"load_token"})
  /\ IF SessionFound(r)
       THEN /\ session' = [session EXCEPT ![r].token = tokenFile]
            /\ Advance(r)
       ELSE /\ Fail(r)
            /\ UNCHANGED session
  /\ UNCHANGED <<vars, waiting, fileVars, aliasUp>>

LoadKey(r) ==
  /\ CanStep(r, {"load_key"})
  /\ IF NeedsKey(r) /\ keyFile = None
       THEN /\ Fail(r)
            /\ UNCHANGED session
       ELSE /\ session' = [session EXCEPT ![r].key = IF NeedsKey(r) THEN keyFile ELSE @]
            /\ Advance(r)
  /\ UNCHANGED <<vars, waiting, fileVars, aliasUp>>

(* Script A leaves its token, then its key.                                *)
WriteToken(r) ==
  /\ CanStep(r, {"write_token"})
  /\ tokenFile' = session[r].token
  /\ Advance(r)
  /\ UNCHANGED <<vars, waiting, session, keyFile, aliasUp>>

WriteKey(r) ==
  /\ CanStep(r, {"write_key"})
  /\ keyFile' = session[r].key
  /\ Advance(r)
  /\ UNCHANGED <<vars, waiting, session, tokenFile, aliasUp>>
-----------------------------------------------------------------------------
(* Roaming.  The transport with the local address is built without verify, *)
(* so the client's own is not used (httpx 0.28.1): with the alias the proxy *)
(* gets a ClientHello and the client rejects its certificate, without it   *)
(* there is no connection at all.  Either way scripts A and C go on (C from *)
(* the default address), and script F gives up.                            *)
Roam(r) ==
  /\ CanStep(r, {"roam"})
  /\ IF aliasUp THEN TlsClientHello(<<r, "roamed">>) ELSE UNCHANGED vars
  /\ IF ScriptOf[r] = "f" THEN Fail(r) ELSE Advance(r)
  /\ UNCHANGED <<waiting, session, fileVars, aliasUp>>
-----------------------------------------------------------------------------
(* Asking.                                                                 *)
Conn(r) == <<r, "home">>

Connect(r) ==
  /\ CanStep(r, AskingSteps)
  /\ TlsClientHello(Conn(r))
  /\ UNCHANGED <<runVars, fileVars, aliasUp>>

PathOf(r) == IF Step(r) = "token" THEN "token" ELSE "api"

(* build_dpop_proof: a fresh identifier and the present second every time. *)
(* (What lies between building and sending, roaming included, is bounded   *)
(* by the client's time-outs, 5 s against a window of 60 s.)               *)
RequestOf(r) ==
  [conn |-> Conn(r), path |-> PathOf(r), token |-> session[r].token,
   ja4h |-> HeadersSent[r],
   proof |-> [jti |-> <<r, Step(r)>>, jkt |-> session[r].key, htu |-> PathOf(r),
              signed |-> TRUE, iat |-> now, nonce |-> NoNonce]]

StatusOf ==
  [rate_limited |-> 429, block |-> 401, decision |-> 401, challenge_issued |-> 428]

Ask(r) ==
  /\ CanStep(r, AskingSteps)
  /\ Conn(r) \in connected
  /\ \E request \in {RequestOf(r)} : Request(request)
  /\ IF upstream' # upstream
       THEN /\ waiting' = [waiting EXCEPT ![r] = TRUE]
            /\ UNCHANGED <<at, outcome>>
       ELSE /\ Answered(r, StatusOf[report'.kind])
            /\ UNCHANGED waiting
  /\ UNCHANGED <<session, fileVars, aliasUp>>

(* Script E's POST /oauth/revoke.                                          *)
AskToRevoke(r) ==
  /\ CanStep(r, {"revoke"})
  /\ \/ RevokeToken(session[r].token) /\ Answered(r, 200)
     \/ RevokeUnknown(session[r].token) /\ Answered(r, 404)
  /\ UNCHANGED <<waiting, session, fileVars, aliasUp>>

GiveUp(r) ==
  /\ outcome' = [outcome EXCEPT ![r] = "LOST"]
  /\ waiting' = [waiting EXCEPT ![r] = FALSE]
  /\ UNCHANGED <<vars, at, session, fileVars, aliasUp>>

(* A bug: the client of script A has no time-out.                          *)
TimesOutExceptA(r) ==
  /\ ScriptOf[r] # "a"
  /\ waiting[r]
  /\ GiveUp(r)

(* Every client has a time-out (httpx and requests 5 s, curl's run 10 s).  *)
(* Its request may still be on its way then.                               *)
TimesOut(r) ==
  /\ waiting[r]
  /\ GiveUp(r)

RunStep(r) ==
  \/ LoadToken(r) \/ LoadKey(r) \/ WriteToken(r) \/ WriteKey(r)
  \/ Roam(r) \/ Connect(r) \/ Ask(r) \/ AskToRevoke(r) \/ TimesOut(r)
-----------------------------------------------------------------------------
(* The other side.  A request or an answer that is lost is one that is     *)
(* never taken.                                                            *)
Issues(f) ==
  /\ \E t \in Tokens : BackendIssues(f, t)
  /\ UNCHANGED <<runVars, fileVars, aliasUp>>

Serves(f) ==
  /\ \/ BackendExecutes(f) /\ Hears(f.proof.jti[1], 200)
     \/ BackendRefuses(f) /\ Hears(f.proof.jti[1], 401)
  /\ UNCHANGED <<session, fileVars, aliasUp>>

(* Every client's ClientHello parses: every token gets bound.              *)
AskerOf(reply) == CHOOSE r \in Runs : OwnKey[r] = reply.meta.jkt

HandsOver(reply) ==
  /\ BindIssuedToken(reply)
  /\ Hears(AskerOf(reply), 200)
  /\ session' = IF waiting[AskerOf(reply)]
                  THEN [session EXCEPT ![AskerOf(reply)].token = reply.token]
                  ELSE session
  /\ UNCHANGED <<fileVars, aliasUp>>

LoseAll(runs) ==
  /\ outcome' = [r \in Runs |-> IF r \in runs THEN "LOST" ELSE outcome[r]]
  /\ waiting' = [r \in Runs |-> waiting[r] /\ r \notin runs]
  /\ UNCHANGED <<at, session, fileVars, aliasUp>>

Restarts ==
  /\ restarts + backendRestarts < MaxRestarts
  /\ \/ ProxyRestarts /\ LoseAll({r \in Runs : waiting[r]})
     \/ BackendRestarts /\ LoseAll({r \in Runs : \E f \in upstream :
                                      waiting[r] /\ f.proof.jti[1] = r})

BringAliasUp ==
  /\ ~aliasUp
  /\ aliasUp' = TRUE
  /\ UNCHANGED <<vars, runVars, fileVars>>

DemoNext ==
  \/ \E r \in Runs : RunStep(r)
  \/ \E f \in upstream : Issues(f) \/ Serves(f)
  \/ \E reply \in replies : HandsOver(reply)
  \/ Restarts
  \/ BringAliasUp
  \/ Tick /\ UNCHANGED <<runVars, fileVars, aliasUp>>

(* Whenever some run can take a step, some run does in the end; nothing is *)
(* asked of the backend, the clock, or whoever sets up the alias.          *)
DemoSpec ==
  /\ DemoInit
  /\ [][DemoNext]_demoVars
  /\ WF_demoVars(\E r \in Runs : RunStep(r))
-----------------------------------------------------------------------------
(***************************************************************************)
(* Properties.                                                             *)
(***************************************************************************)

(* Every run comes to an end, whatever it meets and whoever restarts.      *)
ScriptsEnd == <>(\A r \in Runs : outcome[r] # "running")

(* Scripts B and C end in PASS whenever there is a session to steal, and   *)
(* a replay gets through only with the session's key, from its TLS stack,  *)
(* with its headers: however the runs overlap, whichever files they read.  *)
TheftsAreBlocked ==
  /\ \A r \in Thieves : outcome[r] = "FAIL" => session[r].token = None
  /\ \A e \in executed :
       LET r == e.proof[1]
       IN  /\ session[r].key = tokens[e.token].jkt
           /\ \A o \in Runs :
                OwnKey[o] = tokens[e.token].jkt =>
                  StackOf[r] = StackOf[o] /\ HeadersSent[r] = HeadersSent[o]

(* The token a run holds was issued to the key it holds.                   *)
SessionIsWhole(r) == tokens[session[r].token].jkt = session[r].key

TokenIsGood(r) ==
  /\ TokenVerifies(session[r].token, now)
  /\ session[r].token \notin revoked
  /\ restarts = 0

ProofIsOld(r) ==
  \E f \in upstream : f.proof.jti[1] = r /\ ~FreshProof(f.proof, now)

(* What its reader can find when a script reports FAIL: there was no       *)
(* session, the session was pieced together from two runs of script A, its *)
(* token had expired, was revoked or forgotten in a restart, the limiter   *)
(* stepped in, the backend got the request too late, or the script is F    *)
(* and could not roam.                                                     *)
Cause(r) ==
  \/ Step(r) = "load_token" /\ ~SessionFound(r)
  \/ Step(r) = "load_key" /\ keyFile = None
  \/ ScriptOf[r] = "f" /\ Step(r) = "roam"
  \/ Step(r) = "token" /\ ~Allowed(StackOf[r], now)
  \/ ProofIsOld(r)
  \/ session[r].token # None /\ ~(SessionIsWhole(r) /\ TokenIsGood(r))

(* No run of any script reports FAIL without such a cause, however the     *)
(* runs overlap.                                                           *)
FailsForACause ==
  [][\A r \in Runs :
       outcome[r] # "FAIL" /\ outcome'[r] = "FAIL" => Cause(r)]_demoVars

(* client/script_f_stepup_demo.py: with the alias up and a good session,   *)
(* script F is challenged for its address and not stopped before that.     *)
StepUpIsShown ==
  [][\A r \in Runs :
       /\ ScriptOf[r] = "f" /\ Step(r) = "roam"
       /\ outcome[r] # "FAIL" /\ outcome'[r] = "FAIL"
       => ~aliasUp \/ ~(SessionIsWhole(r) /\ TokenIsGood(r))]_demoVars
-----------------------------------------------------------------------------
(***************************************************************************)
(* Why thefts are blocked: the invariant that is inductive.                *)
(***************************************************************************)

(* How the demo is staged: the audit file can be written, altered headers  *)
(* alone are a block (policy.yaml), and script C does not send those of    *)
(* script A, or comes from another stack.                                  *)
Staged ==
  /\ ~AuditMayFail
  /\ Ja4hWeight >= RiskThreshold
  /\ \A r, o \in Runs :
       ScriptOf[r] = "c" /\ ScriptOf[o] = "a" =>
         StackOf[r] # StackOf[o] \/ HeadersSent[r] # HeadersSent[o]

(* What a run holds: script A its own key, script B a key of its own, the  *)
(* others a token once they have read one.                                 *)
SessionsAreLoaded ==
  \A r \in Runs :
    /\ at[r] \in 1..Len(Steps[ScriptOf[r]])
    /\ ScriptOf[r] \in {"a", "b"} => session[r].key = OwnKey[r]
    /\ ScriptOf[r] # "a" => (at[r] = 1 <=> session[r].token = None)
    /\ ScriptOf[r] = "c" /\ at[r] > 1 => keyFile # None

(* A run that waits has asked, and every request has a proof.              *)
RunsHaveAsked ==
  /\ \A r \in Runs :
       waiting[r] => outcome[r] = "running" /\ Step(r) \in AskingSteps
  /\ \A f \in upstream : f.proof # None

ConnectionsAreTheirs ==
  \A c \in connected : ja4ByConnection[c] = StackOf[c[1]]

(* Only runs of script A ask for tokens: whatever is stashed, handed over  *)
(* or bound is the key, the stack and the headers of one of them.          *)
OfScriptA(m) ==
  \E o \in Runs :
    /\ ScriptOf[o] = "a"
    /\ m.jkt = OwnKey[o]
    /\ m.ja4 = StackOf[o]
    /\ m.ja4h = HeadersSent[o]

TokensAreOfScriptA ==
  /\ \A f \in upstream : f.meta # None => OfScriptA(f.meta)
  /\ \A reply \in replies : reply.meta # None => OfScriptA(reply.meta)
  /\ \A t \in Tokens : bindings[t] # None => OfScriptA(bindings[t])

RunInvariant ==
  /\ SessionsAreLoaded
  /\ RunsHaveAsked
  /\ ConnectionsAreTheirs
  /\ TokensAreOfScriptA

(* A request that passed was made by a run that has its key for good, and  *)
(* that has the stack and the headers of the run the key comes from.       *)
AdmissionsAreTheirs ==
  \A a \in admitted :
    LET r == a.proof[1]
    IN  /\ r \notin Thieves
        /\ ScriptOf[r] # "a" => at[r] > 2
        /\ a.jkt = session[r].key
        /\ OfScriptA([jkt |-> a.jkt, ja4 |-> StackOf[r], ja4h |-> HeadersSent[r]])

(* Nobody ever forwards a request of scripts B and C.                      *)
ThievesGetNowhere ==
  \A r \in Thieves :
    /\ ~waiting[r]
    /\ outcome[r] = "FAIL" => session[r].token = None

TheftInvariant ==
  /\ RunInvariant
  /\ AdmissionsAreTheirs
  /\ ThievesGetNowhere
-----------------------------------------------------------------------------
(***************************************************************************)
(* Why a script fails for a cause: the invariant that is inductive.        *)
(***************************************************************************)

(* How the demo is staged for its legitimate runs: A and E use one HTTP    *)
(* library with its own headers, and no change at all is no step-up.       *)
Legitimate == {r \in Runs : ScriptOf[r] \in {"a", "e"}}

Rehearsed ==
  /\ Staged
  /\ \A r, o \in Legitimate :
       StackOf[r] = StackOf[o] /\ HeadersSent[r] = HeadersSent[o]
  /\ ChallengeThreshold # 0

(* Script A sends its token request from the default address, with the key *)
(* it has generated.                                                       *)
MadeAtHome ==
  /\ \A f \in upstream :
       f.meta # None =>
         f.meta.jkt = OwnKey[f.proof.jti[1]] /\ f.meta.source_ip = "home"
  /\ \A reply \in replies : reply.meta # None => reply.meta.source_ip = "home"
  /\ \A t \in Tokens : bindings[t] # None => bindings[t].source_ip = "home"

FlowsOf(r) == {f \in upstream : f.proof.jti[1] = r}

AnswersFor(r) == {reply \in replies : reply.meta # None /\ reply.meta.jkt = OwnKey[r]}

(* What a run that goes on has on its way is one thing, the request it     *)
(* waits for or the answer to it: whatever comes in is about its step.     *)
CarriesRequest(r, f) ==
  /\ f.path = PathOf(r)
  /\ f.token = session[r].token
  /\ f.proof.jti = <<r, Step(r)>>
  /\ f.proof.jkt = session[r].key
  /\ f.proof.htu = PathOf(r)
  /\ f.proof.signed

OneThingAwaited ==
  \A r \in Runs :
    outcome[r] = "running" =>
      /\ FlowsOf(r) # {} \/ AnswersFor(r) # {} => waiting[r]
      /\ FlowsOf(r) = {} \/ AnswersFor(r) = {}
      /\ \A f \in FlowsOf(r) : CarriesRequest(r, f) /\ FlowsOf(r) = {f}
      /\ \A reply \in AnswersFor(r) : Step(r) = "token" /\ AnswersFor(r) = {reply}

(* A proof identifier the proxy has seen is of a step that the run has     *)
(* taken, or that it is taking.                                            *)
ProofsAreOfStepsTaken ==
  \A r \in Runs : \A i \in 1..Len(Steps[ScriptOf[r]]) :
    <<r, Steps[ScriptOf[r]][i]>> \in dpopJtiSeen =>
      \/ i < at[r]
      \/ i = at[r] /\ (waiting[r] \/ outcome[r] # "running")

(* Whatever token a run holds, or finds in the file, was issued, and short *)
(* of a restart the proxy knows it until the backend refuses it; a token   *)
(* is marked revoked only when its owner has been told so.                 *)
Held == {tokenFile} \cup {session[r].token : r \in Runs}

HeldTokensAreKnown ==
  /\ \A t \in Held \ {None} :
       /\ tokens[t] # None
       /\ restarts = 0 /\ bindings[t] = None => tokens[t].exp <= now
  /\ \A t \in Tokens :
       bindings[t] # None /\ bindings[t].revoked => t \in revoked

(* Where a run is says what it has: script A its token from its second     *)
(* step on, script E a revoked one at its last.                            *)
StepsAreEarned ==
  \A r \in Runs :
    /\ ScriptOf[r] = "a" /\ at[r] > 1 => session[r].token # None
    /\ ScriptOf[r] = "e" /\ at[r] > 4 => session[r].token \in revoked

CauseInvariant ==
  /\ MadeAtHome
  /\ OneThingAwaited
  /\ ProofsAreOfStepsTaken
  /\ HeldTokensAreKnown
  /\ StepsAreEarned
=============================================================================
