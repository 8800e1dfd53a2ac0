----------------------------- MODULE DemoProofs -----------------------------
(***************************************************************************)
(* Theorems about the demo's clients, for any number of runs of them.      *)
(***************************************************************************)
EXTENDS DemoScripts, SentinelUses

(***************************************************************************)
(* The programs of the scripts.                                            *)
(***************************************************************************)
Scripts == {"a", "b", "c", "e", "f", "replay"}

(* How many steps each script has.                                         *)
LEMMA ProgramTable ==
  /\ Len(Steps["a"]) = 6
  /\ Len(Steps["b"]) = 2
  /\ Len(Steps["c"]) = 4
  /\ Len(Steps["e"]) = 5
  /\ Len(Steps["f"]) = 3
  /\ Len(Steps["replay"]) = 3
BY DEF Steps

(* No script ends with its first step.                                     *)
LEMMA ProgramsAreLong ==
  ASSUME NEW s \in Scripts
  PROVE  Len(Steps[s]) \in 2..6
<1>1. \/ s = "a" \/ s = "b" \/ s = "c"
      \/ s = "e" \/ s = "f" \/ s = "replay"
  BY DEF Scripts
<1>2. s = "a" => Len(Steps[s]) = 6
  BY ProgramTable
<1>3. s = "b" => Len(Steps[s]) = 2
  BY ProgramTable
<1>4. s = "f" \/ s = "replay" => Len(Steps[s]) = 3
  BY ProgramTable
<1>5. s = "e" => Len(Steps[s]) = 5
  BY ProgramTable
<1>6. s = "c" => Len(Steps[s]) = 4
  BY ProgramTable
<1> QED BY <1>1, <1>2, <1>3, <1>4, <1>5, <1>6

(* Who does what when: only script A asks for tokens and writes files, the *)
(* others read theirs first, and before they ask for anything.             *)
LEMMA ProgramOf ==
  ASSUME DemoTypeOK, SessionsAreLoaded, NEW r \in Runs
  PROVE  /\ Len(Steps[ScriptOf[r]]) \in 2..6
         /\ Step(r) = "load_token" <=> ScriptOf[r] # "a" /\ at[r] = 1
         /\ Step(r) = "load_key" => ScriptOf[r] \notin {"a", "b"} /\ at[r] = 2
         /\ Step(r) \in {"token", "write_token", "write_key"} => ScriptOf[r] = "a"
         /\ Step(r) \in AskingSteps \cup {"revoke", "roam"}
              /\ ScriptOf[r] \notin {"a", "b"} => at[r] > 2
         /\ Step(r) = "roam" => ScriptOf[r] \in {"a", "c", "f"}
         /\ Step(r) \in {"load_token", "load_key"}
              => Step(r) \notin AskingSteps \cup {"revoke", "roam"}
         /\ r \in Thieves /\ Step(r) \in AskingSteps => at[r] = Len(Steps[ScriptOf[r]])
         /\ Step(r) = "revoke" => ScriptOf[r] = "e"
<1>1. /\ ScriptOf[r] \in Scripts
      /\ at[r] \in 1..Len(Steps[ScriptOf[r]])
  BY RunsAssumption DEF Steps, Scripts, SessionsAreLoaded
<1>2. CASE ScriptOf[r] = "a"
  <2>1. at[r] \in {1, 2, 3, 4, 5, 6}
    BY <1>1, <1>2, ProgramTable
  <2> QED BY <1>2, <2>1, ProgramTable DEF Step, Steps, AskingSteps, Thieves
<1>3. CASE ScriptOf[r] = "b"
  <2>1. at[r] \in {1, 2}
    BY <1>1, <1>3, ProgramTable
  <2> QED BY <1>3, <2>1, ProgramTable DEF Step, Steps, AskingSteps, Thieves
<1>4. CASE ScriptOf[r] = "c"
  <2>1. at[r] \in {1, 2, 3, 4}
    BY <1>1, <1>4, ProgramTable
  <2> QED BY <1>4, <2>1, ProgramTable DEF Step, Steps, AskingSteps, Thieves
<1>5. CASE ScriptOf[r] = "e"
  <2>1. at[r] \in {1, 2, 3, 4, 5}
    BY <1>1, <1>5, ProgramTable
  <2> QED BY <1>5, <2>1, ProgramTable DEF Step, Steps, AskingSteps, Thieves
<1>6. CASE ScriptOf[r] = "f"
  <2>1. at[r] \in {1, 2, 3}
    BY <1>1, <1>6, ProgramTable
  <2> QED BY <1>6, <2>1, ProgramTable DEF Step, Steps, AskingSteps, Thieves
<1>7. CASE ScriptOf[r] = "replay"
  <2>1. at[r] \in {1, 2, 3}
    BY <1>1, <1>7, ProgramTable
  <2> QED BY <1>7, <2>1, ProgramTable DEF Step, Steps, AskingSteps, Thieves
<1> QED BY <1>1, <1>2, <1>3, <1>4, <1>5, <1>6, <1>7 DEF Scripts

(***************************************************************************)
(* The demo is a run of the system: each step of a script, or of what      *)
(* answers it, is one that Sentinel allows.                                *)
(***************************************************************************)
LEMMA SessionTyped ==
  ASSUME DemoTypeOK, NEW r \in Runs
  PROVE  /\ session[r] \in Session
         /\ session[r].token \in Optional(Tokens)
         /\ session[r].key \in Keys
BY DEF DemoTypeOK, Session

(* A request of a script is one the proxy may be asked.                    *)
LEMMA RequestOfPossible ==
  ASSUME DemoTypeOK, SessionsAreLoaded, NEW r \in Runs,
         Step(r) \in AskingSteps, Conn(r) \in connected
  PROVE  RequestOf(r) \in Requests
<1> DEFINE p == RequestOf(r).proof
           m == [jti |-> <<r, Step(r)>>, jkt |-> session[r].key, htu |-> PathOf(r),
                 signed |-> TRUE]
<1>1. now \in Nat /\ noncesDrawn \in Nat
  BY DEF DemoTypeOK, TypeOK, ChallengeStoreTypeOK
<1>2. PathOf(r) \in Paths
  BY DEF PathOf, Paths
<1>3. <<r, Step(r)>> \in ProofJtis
  BY RunsAssumption
<1>4. m \in ProofTemplates
  <2>1. m \in [jti: ProofJtis, jkt: Keys, htu: Paths, signed: {TRUE}]
    BY <1>2, <1>3, SessionTyped
  <2> HIDE DEF m
  <2> QED BY <2>1, RunsAssumption
<1>5. now \in 0..now /\ NoNonce \in 0..noncesDrawn
  BY <1>1 DEF NoNonce
<1>6. p = [jti |-> m.jti, jkt |-> m.jkt, htu |-> m.htu, signed |-> m.signed,
           iat |-> now, nonce |-> NoNonce]
  BY DEF RequestOf
<1>7. p \in PresentableProofs
  <2> HIDE DEF m, p
  <2> QED BY <1>4, <1>5, <1>6 DEF PresentableProofs
<1>8. HeadersSent[r] \in Optional(JA4Hs)
  BY RunsAssumption DEF Optional
<1>9. RequestOf(r) = [conn |-> Conn(r), path |-> PathOf(r), token |-> session[r].token,
                      ja4h |-> HeadersSent[r], proof |-> p]
  BY DEF RequestOf
<1> HIDE DEF p
<1> QED BY <1>2, <1>7, <1>8, <1>9, SessionTyped DEF Requests, Optional

(* A connection is of the run that opened it.                              *)
LEMMA ConnOfRun ==
  ASSUME NEW r \in Runs
  PROVE  /\ Conn(r) \in Conns /\ Conn(r)[1] = r /\ ConnIP[Conn(r)] = "home"
         /\ <<r, "roamed">> \in Conns /\ <<r, "roamed">>[1] = r
BY RunsAssumption DEF Conn, Places

(* A run that revokes has read a token.                                    *)
LEMMA RevokerHasToken ==
  ASSUME DemoTypeOK, SessionsAreLoaded, NEW r \in Runs, Step(r) = "revoke"
  PROVE  session[r].token \in Tokens
<1>1. ScriptOf[r] = "e"
  BY ProgramOf
<1>2. at[r] > 2
  BY <1>1, ProgramOf
<1> QED BY <1>1, <1>2, SessionTyped DEF SessionsAreLoaded, Optional

(* Every step of the demo is one of the system's, or a stutter.            *)
LEMMA DemoStepIsStep ==
  ASSUME DemoTypeOK, SessionsAreLoaded, [DemoNext]_demoVars
  PROVE  [Next]_vars
<1>1. ASSUME NEW r \in Runs, RunStep(r)
      PROVE  [Next]_vars
  <2>1. CASE Connect(r)
    BY <2>1, ConnOfRun DEF Connect, Next
  <2>2. CASE Ask(r)
    <3>1. Request(RequestOf(r)) /\ RequestOf(r) \in Requests
      BY <2>2, RequestOfPossible DEF Ask, CanStep
    <3> QED BY <3>1 DEF Next
  <2>3. CASE AskToRevoke(r)
    <3>1. session[r].token \in Tokens
      BY <2>3, RevokerHasToken DEF AskToRevoke, CanStep
    <3> QED BY <2>3, <3>1 DEF AskToRevoke, Next, Optional
  <2>4. CASE Roam(r)
    BY <2>4, ConnOfRun DEF Roam, Next
  <2>5. CASE LoadToken(r) \/ LoadKey(r) \/ WriteToken(r) \/ WriteKey(r) \/ TimesOut(r)
    BY <2>5 DEF LoadToken, LoadKey, WriteToken, WriteKey, TimesOut, GiveUp
  <2> QED BY <1>1, <2>1, <2>2, <2>3, <2>4, <2>5 DEF RunStep
<1>2. ASSUME NEW f \in upstream, Issues(f) \/ Serves(f)
      PROVE  [Next]_vars
  BY <1>2 DEF Issues, Serves, Next
<1>3. ASSUME NEW reply \in replies, HandsOver(reply)
      PROVE  [Next]_vars
  BY <1>3 DEF HandsOver, Next
<1>4. CASE Restarts
  BY <1>4 DEF Restarts, Next
<1>5. CASE BringAliasUp \/ UNCHANGED demoVars
  BY <1>5 DEF BringAliasUp, demoVars
<1>6. CASE Tick
  BY <1>6 DEF Next
<1> QED BY <1>1, <1>2, <1>3, <1>4, <1>5, <1>6 DEF DemoNext

(***************************************************************************)
(* Types, and what the runs hold.                                          *)
(***************************************************************************)
(* The state of the runs that answers and files move.                      *)
RunsTyped ==
  /\ at \in [Runs -> 1..6]
  /\ outcome \in [Runs -> Outcomes]
  /\ waiting \in [Runs -> BOOLEAN]
  /\ session \in [Runs -> Session]
  /\ tokenFile \in Optional(Tokens)
  /\ keyFile \in Optional(Keys)

(* What SessionsAreLoaded says of one run.                                 *)
Loaded(r) ==
  /\ at[r] \in 1..Len(Steps[ScriptOf[r]])
  /\ ScriptOf[r] \in {"a", "b"} => session[r].key = OwnKey[r]
  /\ ScriptOf[r] # "a" => (at[r] = 1 <=> session[r].token = None)
  /\ ScriptOf[r] = "c" /\ at[r] > 1 => keyFile # None

(* An answer takes a run one step on, to its end, or to failure.           *)
LEMMA AnswerMoves ==
  ASSUME DemoTypeOK, SessionsAreLoaded, NEW r \in Runs, NEW status,
         Answered(r, status) \/ Advance(r) \/ Fail(r)
  PROVE  /\ at' \in [Runs -> 1..6]
         /\ outcome' \in [Runs -> Outcomes]
         /\ at'[r] \in {at[r], at[r] + 1}
         /\ at'[r] \in 1..Len(Steps[ScriptOf[r]])
         /\ \A s \in Runs : s # r => at'[s] = at[s] /\ outcome'[s] = outcome[s]
<1>1. /\ Len(Steps[ScriptOf[r]]) \in 2..6
      /\ at[r] \in 1..Len(Steps[ScriptOf[r]])
  BY ProgramOf DEF SessionsAreLoaded
<1>2. at \in [Runs -> 1..6] /\ outcome \in [Runs -> Outcomes]
  BY DEF DemoTypeOK
<1>3. CASE Fail(r)
  BY <1>1, <1>2, <1>3 DEF Fail, Outcomes
<1>4. CASE Advance(r)
  <2>1. CASE at[r] = Len(Steps[ScriptOf[r]])
    BY <1>1, <1>2, <1>4, <2>1 DEF Advance, Outcomes
  <2>2. CASE at[r] # Len(Steps[ScriptOf[r]])
    <3>1. PICK last \in 2..6 : last = Len(Steps[ScriptOf[r]])
      BY <1>1
    <3>2. at[r] \in 1..last /\ at[r] # last
      BY <1>1, <2>2, <3>1
    <3>3. at[r] + 1 \in 1..6 /\ at[r] + 1 \in 1..last
      BY <3>2
    <3> QED BY <1>2, <1>4, <2>2, <3>1, <3>3 DEF Advance
  <2> QED BY <2>1, <2>2
<1> QED BY <1>3, <1>4 DEF Answered

(* A run that does nothing keeps what it has loaded.                       *)
LEMMA StaysLoaded ==
  ASSUME DemoTypeOK, SessionsAreLoaded, NEW s \in Runs,
         at'[s] = at[s], session'[s] = session[s], keyFile' # None \/ keyFile' = keyFile
  PROVE  Loaded(s)'
BY DEF Loaded, SessionsAreLoaded

(* Reading and writing the session files.                                  *)
LEMMA FilesKeepLoaded ==
  ASSUME DemoTypeOK, SessionsAreLoaded, NEW r \in Runs,
         LoadToken(r) \/ LoadKey(r) \/ WriteToken(r) \/ WriteKey(r)
  PROVE  RunsTyped' /\ SessionsAreLoaded'
<1>1. /\ session \in [Runs -> Session]
      /\ tokenFile \in Optional(Tokens)
      /\ keyFile \in Optional(Keys)
      /\ waiting \in [Runs -> BOOLEAN]
  BY DEF DemoTypeOK
<1>2. /\ session[r] = [token |-> session[r].token, key |-> session[r].key]
      /\ session[r].token \in Optional(Tokens) /\ session[r].key \in Keys
  BY SessionTyped DEF Session
<1>3. /\ at' \in [Runs -> 1..6]
      /\ outcome' \in [Runs -> Outcomes]
      /\ at'[r] \in {at[r], at[r] + 1}
      /\ at'[r] \in 1..Len(Steps[ScriptOf[r]])
      /\ \A s \in Runs : s # r => at'[s] = at[s]
  BY AnswerMoves DEF LoadToken, LoadKey, WriteToken, WriteKey
<1>4. waiting' = waiting
  BY DEF LoadToken, LoadKey, WriteToken, WriteKey
<1>5. /\ session' \in [Runs -> Session]
      /\ \A s \in Runs : s # r => session'[s] = session[s]
      /\ tokenFile' \in Optional(Tokens)
      /\ keyFile' \in Optional(Keys)
      /\ keyFile' # None \/ keyFile' = keyFile
  <2>1. CASE LoadToken(r)
    BY <1>1, <2>1 DEF LoadToken, SessionFound, Session, fileVars
  <2>2. CASE LoadKey(r)
    BY <1>1, <2>2 DEF LoadKey, Session, Optional, fileVars
  <2>3. CASE WriteToken(r)
    BY <1>1, <1>2, <2>3 DEF WriteToken
  <2>4. CASE WriteKey(r)
    BY <1>1, <1>2, <2>4, NoneAssumption DEF WriteKey, Optional
  <2> QED BY <2>1, <2>2, <2>3, <2>4
<1>6. Loaded(r)'
  <2>1. Loaded(r)
    BY DEF Loaded, SessionsAreLoaded
  <2>2. CASE LoadToken(r)
    <3>1. ScriptOf[r] # "a" /\ at[r] = 1 /\ 1 # Len(Steps[ScriptOf[r]])
      BY <2>2, ProgramOf DEF LoadToken, CanStep
    <3>2. CASE SessionFound(r)
      <4>1. /\ session' = [session EXCEPT ![r].token = tokenFile]
            /\ at' = [at EXCEPT ![r] = @ + 1]
            /\ keyFile' = keyFile
        BY <2>2, <3>1, <3>2 DEF LoadToken, Advance, fileVars
      <4>2. /\ session'[r].token = tokenFile
            /\ session'[r].key = session[r].key
            /\ at'[r] = 2
        BY <1>1, <1>2, <3>1, <4>1 DEF DemoTypeOK
      <4> QED BY <1>2, <1>3, <2>1, <3>1, <3>2, <4>1, <4>2 DEF Loaded, SessionFound
    <3>3. CASE ~SessionFound(r)
      <4>1. UNCHANGED <<at, session, keyFile>>
        BY <2>2, <3>3 DEF LoadToken, Fail, fileVars
      <4> QED BY <4>1, StaysLoaded
    <3> QED BY <3>2, <3>3
  <2>3. CASE LoadKey(r)
    <3>1. ScriptOf[r] \notin {"a", "b"} /\ at[r] = 2
      BY <2>3, ProgramOf DEF LoadKey, CanStep
    <3>2. keyFile' = keyFile
      BY <2>3 DEF LoadKey, fileVars
    <3>3. \/ session'[r] = session[r]
          \/ \E key : session'[r] = [session[r] EXCEPT !.key = key]
      BY <1>1, <2>3 DEF LoadKey
    <3>4. session'[r].token = session[r].token
      BY <1>2, <3>3
    <3> QED BY <1>2, <1>3, <2>1, <3>1, <3>2, <3>4 DEF Loaded
  <2>4. CASE WriteToken(r) \/ WriteKey(r)
    <3>1. ScriptOf[r] = "a" /\ session'[r] = session[r]
      BY <2>4, ProgramOf DEF WriteToken, WriteKey, CanStep
    <3> QED BY <1>2, <1>3, <2>1, <3>1 DEF Loaded
  <2> QED BY <2>2, <2>3, <2>4
<1>7. \A s \in Runs : s # r => Loaded(s)'
  BY <1>3, <1>5, StaysLoaded
<1> QED BY <1>1, <1>3, <1>4, <1>5, <1>6, <1>7 DEF RunsTyped, SessionsAreLoaded, Loaded

(* An answer: a run that has asked keeps its key and what it read, and     *)
(* only script A is handed a token.                                        *)
LEMMA AnswerKeepsLoaded ==
  ASSUME DemoTypeOK, SessionsAreLoaded, NEW r \in Runs,
         Step(r) \in AskingSteps \cup {"revoke", "roam"},
         at'[r] \in {at[r], at[r] + 1},
         at'[r] \in 1..Len(Steps[ScriptOf[r]]),
         keyFile' = keyFile,
         session'[r].token = session[r].token \/ ScriptOf[r] = "a",
         session'[r].key = session[r].key
  PROVE  Loaded(r)'
<1>1. ScriptOf[r] # "a" => at[r] # 1
  BY ProgramOf
<1>2. at[r] \in Nat /\ at[r] >= 1
  BY DEF DemoTypeOK
<1> QED BY <1>1, <1>2 DEF Loaded, SessionsAreLoaded

(* One run is answered, the others and the files stay as they are.         *)
LEMMA OneRunMoves ==
  ASSUME DemoTypeOK, SessionsAreLoaded, NEW r \in Runs, Loaded(r)',
         at' \in [Runs -> 1..6], outcome' \in [Runs -> Outcomes],
         waiting' \in [Runs -> BOOLEAN], session' \in [Runs -> Session],
         UNCHANGED <<tokenFile, keyFile>>,
         \A s \in Runs : s # r => at'[s] = at[s] /\ session'[s] = session[s]
  PROVE  RunsTyped' /\ SessionsAreLoaded'
<1>1. \A s \in Runs : s # r => Loaded(s)'
  BY StaysLoaded
<1> QED BY <1>1 DEF RunsTyped, DemoTypeOK, SessionsAreLoaded, Loaded

(* Nothing happens to the runs but that some of them are given up.         *)
LEMMA NoRunMoves ==
  ASSUME DemoTypeOK, SessionsAreLoaded,
         outcome' \in [Runs -> Outcomes], waiting' \in [Runs -> BOOLEAN],
         UNCHANGED <<at, session, tokenFile, keyFile>>
  PROVE  RunsTyped' /\ SessionsAreLoaded'
<1>1. \A s \in Runs : Loaded(s)'
  BY StaysLoaded
<1> QED BY <1>1 DEF RunsTyped, DemoTypeOK, SessionsAreLoaded, Loaded

(* Roaming and asking.                                                     *)
LEMMA AskKeepsLoaded ==
  ASSUME DemoTypeOK, SessionsAreLoaded, NEW r \in Runs,
         Roam(r) \/ Ask(r) \/ AskToRevoke(r)
  PROVE  RunsTyped' /\ SessionsAreLoaded'
<1>1. Step(r) \in AskingSteps \cup {"revoke", "roam"}
  BY DEF Roam, Ask, AskToRevoke, CanStep
<1>2. /\ waiting \in [Runs -> BOOLEAN] /\ session \in [Runs -> Session]
      /\ outcome \in [Runs -> Outcomes] /\ at \in [Runs -> 1..6]
      /\ at[r] \in 1..Len(Steps[ScriptOf[r]])
      /\ at[r] \in {at[r], at[r] + 1}
  BY DEF DemoTypeOK, SessionsAreLoaded
<1>3. /\ at' \in [Runs -> 1..6]
      /\ outcome' \in [Runs -> Outcomes]
      /\ at'[r] \in {at[r], at[r] + 1}
      /\ at'[r] \in 1..Len(Steps[ScriptOf[r]])
      /\ \A s \in Runs : s # r => at'[s] = at[s]
  <2>1. CASE \E status : Answered(r, status) \/ Advance(r) \/ Fail(r)
    BY <2>1, AnswerMoves
  <2>2. CASE UNCHANGED <<at, outcome>>
    BY <1>2, <2>2
  <2> QED BY <2>1, <2>2 DEF Roam, Ask, AskToRevoke
<1>4. waiting' \in [Runs -> BOOLEAN]
  BY <1>2 DEF Roam, Ask, AskToRevoke
<1>5. UNCHANGED <<session, tokenFile, keyFile>>
  BY DEF Roam, Ask, AskToRevoke, fileVars
<1>6. Loaded(r)'
  BY <1>1, <1>3, <1>5, AnswerKeepsLoaded
<1> QED BY <1>2, <1>3, <1>4, <1>5, <1>6, OneRunMoves

(* Who hears the answer to a forwarded request.                            *)
LEMMA RunOfFlow ==
  ASSUME DemoTypeOK, RunsHaveAsked, NEW f \in upstream
  PROVE  f.proof \in Proof /\ f.proof.jti[1] \in Runs /\ f.proof.jti[2] \in AskingSteps
BY RunsAssumption DEF DemoTypeOK, TypeOK, Flow, Optional, Proof, RunsHaveAsked

(* An answer with a token belongs to a run of script A.                    *)
LEMMA RunOfReply ==
  ASSUME DemoTypeOK, TokensAreOfScriptA, NEW reply \in replies, Bindable(reply)
  PROVE  /\ AskerOf(reply) \in Runs
         /\ ScriptOf[AskerOf(reply)] = "a"
         /\ OwnKey[AskerOf(reply)] = reply.meta.jkt
         /\ reply.token \in Tokens
<1>1. PICK o \in Runs : ScriptOf[o] = "a" /\ reply.meta.jkt = OwnKey[o]
  BY DEF Bindable, TokensAreOfScriptA, OfScriptA
<1>2. AskerOf(reply) \in Runs /\ OwnKey[AskerOf(reply)] = reply.meta.jkt
  BY <1>1 DEF AskerOf
<1>3. AskerOf(reply) = o
  BY <1>1, <1>2, RunsAssumption
<1> QED BY <1>1, <1>2, <1>3 DEF DemoTypeOK, TypeOK, Reply

(* Hearing an answer.                                                      *)
LEMMA HearsKeepsLoaded ==
  ASSUME DemoTypeOK, SessionsAreLoaded, RunsHaveAsked, NEW r \in Runs,
         NEW status, Hears(r, status),
         UNCHANGED <<tokenFile, keyFile>>,
         \/ session' = session
         \/ /\ ScriptOf[r] = "a"
            /\ \E t \in Tokens : session' = [session EXCEPT ![r].token = t],
         session' # session => waiting[r]
  PROVE  RunsTyped' /\ SessionsAreLoaded'
<1>1. /\ waiting \in [Runs -> BOOLEAN] /\ session \in [Runs -> Session]
      /\ outcome \in [Runs -> Outcomes]
  BY DEF DemoTypeOK
<1>2. CASE waiting[r]
  <2>1. Answered(r, status) /\ waiting' = [waiting EXCEPT ![r] = FALSE]
    BY <1>2 DEF Hears
  <2>2. Step(r) \in AskingSteps
    BY <1>2 DEF RunsHaveAsked
  <2>3. /\ session' \in [Runs -> Session]
        /\ \A s \in Runs : s # r => session'[s] = session[s]
        /\ session'[r].token = session[r].token \/ ScriptOf[r] = "a"
        /\ session'[r].key = session[r].key
    BY <1>1 DEF Session, Optional
  <2>4. Loaded(r)'
    BY <2>1, <2>2, <2>3, AnswerMoves, AnswerKeepsLoaded
  <2> QED BY <1>1, <2>1, <2>3, <2>4, AnswerMoves, OneRunMoves
<1>3. CASE ~waiting[r]
  <2>1. UNCHANGED <<at, outcome, waiting, session>>
    BY <1>3 DEF Hears
  <2> QED BY <1>1, <2>1, NoRunMoves
<1> QED BY <1>2, <1>3

(* What a run has loaded is kept by every step.                            *)
LEMMA RunsStayLoaded ==
  ASSUME DemoTypeOK, RunInvariant, [DemoNext]_demoVars
  PROVE  RunsTyped' /\ SessionsAreLoaded'
<1>1. SessionsAreLoaded
  BY DEF RunInvariant
<1>2. outcome \in [Runs -> Outcomes] /\ waiting \in [Runs -> BOOLEAN]
  BY DEF DemoTypeOK
<1>3. ASSUME NEW r \in Runs, RunStep(r)
      PROVE  RunsTyped' /\ SessionsAreLoaded'
  <2>1. CASE LoadToken(r) \/ LoadKey(r) \/ WriteToken(r) \/ WriteKey(r)
    BY <1>1, <2>1, FilesKeepLoaded
  <2>2. CASE Roam(r) \/ Ask(r) \/ AskToRevoke(r)
    BY <1>1, <2>2, AskKeepsLoaded
  <2>3. CASE Connect(r) \/ TimesOut(r)
    <3>1. /\ UNCHANGED <<at, session, tokenFile, keyFile>>
          /\ outcome' \in [Runs -> Outcomes] /\ waiting' \in [Runs -> BOOLEAN]
      BY <1>2, <2>3 DEF Connect, TimesOut, GiveUp, runVars, fileVars, Outcomes
    <3> QED BY <1>1, <3>1, NoRunMoves
  <2> QED BY <1>3, <2>1, <2>2, <2>3 DEF RunStep
<1>4. ASSUME NEW f \in upstream, Issues(f) \/ Serves(f)
      PROVE  RunsTyped' /\ SessionsAreLoaded'
  <2>1. CASE Issues(f)
    <3>1. UNCHANGED <<at, outcome, waiting, session, tokenFile, keyFile>>
      BY <2>1 DEF Issues, runVars, fileVars
    <3> QED BY <1>1, <1>2, <3>1, NoRunMoves
  <2>2. CASE Serves(f)
    <3>1. /\ UNCHANGED <<session, tokenFile, keyFile>>
          /\ \E status : Hears(f.proof.jti[1], status)
      BY <2>2 DEF Serves, fileVars
    <3> QED BY <1>1, <3>1, RunOfFlow, HearsKeepsLoaded DEF RunInvariant
  <2> QED BY <1>4, <2>1, <2>2
<1>5. ASSUME NEW reply \in replies, HandsOver(reply)
      PROVE  RunsTyped' /\ SessionsAreLoaded'
  <2> DEFINE r == AskerOf(reply)
  <2>1. r \in Runs /\ ScriptOf[r] = "a" /\ reply.token \in Tokens
    BY <1>5, RunOfReply DEF HandsOver, BindIssuedToken, RunInvariant
  <2>2. /\ UNCHANGED <<tokenFile, keyFile>>
        /\ Hears(r, 200)
        /\ session' = IF waiting[r]
                        THEN [session EXCEPT ![r].token = reply.token]
                        ELSE session
    BY <1>5 DEF HandsOver, fileVars
  <2> HIDE DEF r
  <2> QED BY <1>1, <2>1, <2>2, HearsKeepsLoaded DEF RunInvariant
<1>6. CASE Restarts
  <2>1. PICK runs : LoseAll(runs)
    BY <1>6 DEF Restarts
  <2>2. /\ UNCHANGED <<at, session, tokenFile, keyFile>>
        /\ outcome' \in [Runs -> Outcomes] /\ waiting' \in [Runs -> BOOLEAN]
    BY <1>2, <2>1 DEF LoseAll, fileVars, Outcomes
  <2> QED BY <1>1, <2>2, NoRunMoves
<1>7. CASE UNCHANGED <<runVars, fileVars>>
  BY <1>1, <1>2, <1>7, NoRunMoves DEF runVars, fileVars
<1> QED BY <1>3, <1>4, <1>5, <1>6, <1>7 DEF DemoNext, BringAliasUp, demoVars

(***************************************************************************)
(* Requests, connections and tokens.                                       *)
(***************************************************************************)

(* A request is the only thing that adds to the flows on their way or lets *)
(* something pass.                                                         *)
LEMMA OnlyAskAdds ==
  ASSUME [DemoNext]_demoVars, \A r \in Runs : ~Ask(r)
  PROVE  upstream' \subseteq upstream /\ admitted' = admitted
BY DEF DemoNext, RunStep, LoadToken, LoadKey, WriteToken, WriteKey, Roam,
       Connect, AskToRevoke, TimesOut, GiveUp, Issues, Serves, HandsOver, Restarts,
       BringAliasUp, Tick, demoVars, vars, historyVars, TlsClientHello, RevokeToken,
       RevokeUnknown, BindIssuedToken, HookFrame, BackendIssues, BackendExecutes,
       BackendRefuses, ServerFrame, ProxyRestarts, BackendRestarts

(* Asking is one request of the system, over a connection that is open.    *)
LEMMA AskIsRequest ==
  ASSUME DemoTypeOK, SessionsAreLoaded, NEW r \in Runs, Ask(r)
  PROVE  /\ RequestOf(r) \in Requests
         /\ RequestOf(r) \in RequestType
         /\ Request(RequestOf(r))
         /\ Step(r) \in AskingSteps
         /\ Conn(r) \in connected
         /\ RequestOf(r).proof # None
<1>1. /\ RequestOf(r) \in Requests /\ Request(RequestOf(r))
      /\ Step(r) \in AskingSteps /\ Conn(r) \in connected
  BY RequestOfPossible DEF Ask, CanStep
<1>2. RequestOf(r) \in RequestType
  BY <1>1, RequestTyped DEF DemoTypeOK
<1>3. RequestOf(r).proof # None
  <2> DEFINE p == RequestOf(r).proof
  <2>1. p.signed
    BY DEF RequestOf
  <2>2. p = [jti |-> <<r, Step(r)>>, jkt |-> session[r].key, htu |-> PathOf(r),
             signed |-> TRUE, iat |-> now, nonce |-> NoNonce]
    BY DEF RequestOf
  <2>3. p \in Proof
    BY <1>1, <2>2, RunsAssumption, SessionTyped
    DEF Proof, PathOf, Paths, NoNonce, DemoTypeOK, TypeOK
  <2> QED BY <2>3, NoneIsNoProof
<1> QED BY <1>1, <1>2, <1>3

(* What is on its way was asked for, through every step.                   *)
LEMMA RunsStillHaveAsked ==
  ASSUME DemoTypeOK, RunInvariant, [DemoNext]_demoVars
  PROVE  RunsHaveAsked'
<1>1. SessionsAreLoaded /\ TypeOK
  BY DEF RunInvariant, DemoTypeOK
<1>2. \A f \in upstream' : f.proof # None
  <2>1. ASSUME NEW r \in Runs, Ask(r), NEW f \in upstream', f \notin upstream
        PROVE  f.proof # None
    BY <1>1, <2>1, AskIsRequest, RequestEffect DEF ForwardedFor
  <2> QED BY <2>1, OnlyAskAdds DEF RunInvariant, RunsHaveAsked
<1> DEFINE Asked(s) == outcome[s] = "running" /\ Step(s) \in AskingSteps
<1>3. /\ outcome \in [Runs -> Outcomes] /\ waiting \in [Runs -> BOOLEAN]
      /\ at \in [Runs -> 1..6]
  BY DEF DemoTypeOK
<1>4. \A s \in Runs : waiting[s] => Asked(s)
  BY DEF RunInvariant, RunsHaveAsked
<1>5. ASSUME NEW s \in Runs, waiting'[s] => waiting[s],
             at'[s] = at[s], outcome'[s] = outcome[s]
      PROVE  waiting'[s] => Asked(s)'
  BY <1>4, <1>5 DEF Step
<1> HIDE DEF Asked
<1>6. ASSUME NEW r \in Runs, NEW status,
             \/ Answered(r, status) \/ Advance(r) \/ Fail(r),
             ~waiting'[r], \A s \in Runs : waiting'[s] => waiting[s]
      PROVE  \A s \in Runs : waiting'[s] => Asked(s)'
  <2>1. \A s \in Runs : s # r => at'[s] = at[s] /\ outcome'[s] = outcome[s]
    BY <1>1, <1>6, AnswerMoves
  <2> QED BY <1>5, <1>6, <2>1
<1>7. ASSUME NEW r \in Runs, NEW status, Hears(r, status)
      PROVE  \A s \in Runs : waiting'[s] => Asked(s)'
  <2>1. CASE waiting[r]
    <3>1. Answered(r, status) /\ waiting' = [waiting EXCEPT ![r] = FALSE]
      BY <1>7, <2>1 DEF Hears
    <3>2. ~waiting'[r] /\ \A s \in Runs : waiting'[s] => waiting[s]
      BY <1>3, <3>1
    <3> QED BY <1>6, <3>1, <3>2
  <2>2. CASE ~waiting[r]
    BY <1>5, <1>7, <2>2 DEF Hears
  <2> QED BY <2>1, <2>2
<1>8. ASSUME UNCHANGED <<at, outcome, waiting>>
      PROVE  \A s \in Runs : waiting'[s] => Asked(s)'
  BY <1>5, <1>8
<1>9. ASSUME NEW r \in Runs, RunStep(r)
      PROVE  \A s \in Runs : waiting'[s] => Asked(s)'
  <2>1. CASE LoadToken(r) \/ LoadKey(r) \/ WriteToken(r) \/ WriteKey(r)
               \/ Roam(r) \/ AskToRevoke(r)
    <3>1. PICK status : Answered(r, status) \/ Advance(r) \/ Fail(r)
      BY <2>1 DEF LoadToken, LoadKey, WriteToken, WriteKey, Roam, AskToRevoke
    <3>2. ~waiting[r] /\ waiting' = waiting
      BY <2>1
      DEF LoadToken, LoadKey, WriteToken, WriteKey, Roam, AskToRevoke, CanStep
    <3> QED BY <1>6, <3>1, <3>2
  <2>2. CASE Connect(r)
    BY <1>8, <2>2 DEF Connect, runVars
  <2>3. CASE Ask(r)
    <3>1. outcome[r] = "running" /\ ~waiting[r] /\ Step(r) \in AskingSteps
      BY <2>3 DEF Ask, CanStep
    <3>2. CASE waiting' = [waiting EXCEPT ![r] = TRUE] /\ UNCHANGED <<at, outcome>>
      <4>1. Asked(r)'
        BY <3>1, <3>2 DEF Asked, Step
      <4>2. \A s \in Runs : s # r => waiting'[s] = waiting[s]
        BY <1>3, <3>2
      <4> QED BY <1>5, <3>2, <4>1, <4>2
    <3>3. CASE Answered(r, StatusOf[report'.kind]) /\ UNCHANGED waiting
      BY <1>6, <3>1, <3>3
    <3> QED BY <2>3, <3>2, <3>3 DEF Ask
  <2>4. CASE TimesOut(r)
    <3>1. /\ at' = at /\ waiting' = [waiting EXCEPT ![r] = FALSE]
          /\ outcome' = [outcome EXCEPT ![r] = "LOST"]
      BY <2>4 DEF TimesOut, GiveUp
    <3>2. ~waiting'[r]
      BY <1>3, <3>1
    <3>3. \A s \in Runs : s # r =>
            waiting'[s] = waiting[s] /\ at'[s] = at[s] /\ outcome'[s] = outcome[s]
      BY <1>3, <3>1
    <3> QED BY <1>5, <3>2, <3>3
  <2> QED BY <1>9, <2>1, <2>2, <2>3, <2>4 DEF RunStep
<1>10. ASSUME NEW f \in upstream, Issues(f) \/ Serves(f)
       PROVE  \A s \in Runs : waiting'[s] => Asked(s)'
  <2>1. f.proof.jti[1] \in Runs
    BY RunOfFlow DEF RunInvariant
  <2> QED BY <1>7, <1>8, <1>10, <2>1 DEF Issues, Serves, runVars
<1>11. ASSUME NEW reply \in replies, HandsOver(reply)
       PROVE  \A s \in Runs : waiting'[s] => Asked(s)'
  <2>1. AskerOf(reply) \in Runs
    BY <1>11, RunOfReply DEF HandsOver, BindIssuedToken, RunInvariant
  <2> QED BY <1>7, <1>11, <2>1 DEF HandsOver
<1>12. ASSUME Restarts
       PROVE  \A s \in Runs : waiting'[s] => Asked(s)'
  <2>1. PICK runs : LoseAll(runs)
    BY <1>12 DEF Restarts
  <2>2. at' = at /\ \A s \in Runs : waiting'[s] => waiting[s] /\ outcome'[s] = outcome[s]
    BY <2>1 DEF LoseAll
  <2> QED BY <1>5, <2>2
<1>13. \A s \in Runs : waiting'[s] => Asked(s)'
  BY <1>8, <1>9, <1>10, <1>11, <1>12
  DEF DemoNext, BringAliasUp, demoVars, runVars
<1> QED BY <1>2, <1>13 DEF RunsHaveAsked, Asked

(* Each run keeps to its own connections and its TLS stack.                *)
LEMMA ConnectionsStayTheirs ==
  ASSUME DemoTypeOK, RunInvariant, [DemoNext]_demoVars
  PROVE  ConnectionsAreTheirs'
<1>1. ConnectionsAreTheirs /\ SessionsAreLoaded
  BY DEF RunInvariant
<1>2. CASE UNCHANGED <<connected, ja4ByConnection>>
  BY <1>1, <1>2 DEF ConnectionsAreTheirs
<1>3. ASSUME NEW r \in Runs, NEW c \in {Conn(r), <<r, "roamed">>}, TlsClientHello(c)
      PROVE  ConnectionsAreTheirs'
  <2>1. c \in Conns /\ c[1] = r
    BY ConnOfRun
  <2>2. HelloOf[c] = {StackOf[r]}
    BY <2>1, RunsAssumption
  <2>3. /\ connected' = connected \cup {c}
        /\ ja4ByConnection' = [ja4ByConnection EXCEPT ![c] = StackOf[r]]
    BY <1>3, <2>2 DEF TlsClientHello
  <2>4. ja4ByConnection \in [Conns -> Optional(JA4s)] /\ connected \subseteq Conns
    BY DEF DemoTypeOK, TypeOK
  <2> QED BY <1>1, <2>1, <2>3, <2>4 DEF ConnectionsAreTheirs
<1>4. ASSUME NEW r \in Runs, Ask(r)
      PROVE  UNCHANGED <<connected, ja4ByConnection>>
  <2>1. Request(RequestOf(r))
    BY <1>1, <1>4, AskIsRequest
  <2> QED BY <2>1
    DEF Request, RateLimited, MissingProof, InvalidProof, ReplayedProof,
        ForwardTokenRequest, UnboundToken, BlockedByEngine, PassedByEngine,
        StepUpPassed, StepUpRequired, RequestFrame, networkVars
<1>5. CASE ProxyRestarts
  BY <1>5 DEF ProxyRestarts, ConnectionsAreTheirs
<1> QED
  BY <1>2, <1>3, <1>4, <1>5
  DEF DemoNext, RunStep, LoadToken, LoadKey, WriteToken, WriteKey, Roam,
      Connect, AskToRevoke, TimesOut, GiveUp, Issues, Serves, HandsOver, Restarts,
      BringAliasUp, Tick, demoVars, vars, networkVars, RevokeToken,
      RevokeUnknown, BindIssuedToken, HookFrame, BackendIssues, BackendExecutes,
      BackendRefuses, ServerFrame, BackendRestarts

(* What the request hook stashes in the flow of a token request.           *)
LEMMA RequestStashes ==
  ASSUME NEW q, Request(q), NEW f \in upstream', f \notin upstream
  PROVE  \/ f.meta = None
         \/ /\ q.path = "token"
            /\ f.meta.jkt = q.proof.jkt
            /\ f.meta.ja4 = Presented(q)
            /\ f.meta.ja4h = q.ja4h
            /\ f.meta.source_ip = Source(q)
<1>1. CASE ForwardTokenRequest(q)
  <2> DEFINE meta == [jkt |-> q.proof.jkt, ja4 |-> Presented(q), ja4h |-> q.ja4h,
                      source_ip |-> Source(q)]
  <2>1. f = FlowOf(q, meta) /\ q.path = "token"
    BY <1>1 DEF ForwardTokenRequest
  <2>2. f.meta = meta
    BY <2>1 DEF FlowOf
  <2> QED BY <2>1, <2>2
<1>2. CASE ~ForwardTokenRequest(q)
  <2>1. \/ \E kind, reason, risk : Refuse(q, kind, reason, risk)
        \/ \E kind, risk, nonce : Admit(q, kind, risk, nonce)
    BY <1>2
    DEF Request, RateLimited, MissingProof, InvalidProof, ReplayedProof,
        UnboundToken, BlockedByEngine, PassedByEngine, StepUpPassed, StepUpRequired
  <2>2. f = FlowOf(q, None)
    BY <2>1 DEF Refuse, Admit
  <2> QED BY <2>2 DEF FlowOf
<1> QED BY <1>1, <1>2

(* A binding is made of the metadata of a reply, and is not rewritten.     *)
LEMMA BindingsComeFromReplies ==
  ASSUME TypeOK, [Next]_vars, NEW t \in Tokens, bindings'[t] # None
  PROVE  \/ /\ bindings[t] # None
            /\ bindings'[t].jkt = bindings[t].jkt
            /\ bindings'[t].ja4 = bindings[t].ja4
            /\ bindings'[t].ja4h = bindings[t].ja4h
            /\ bindings'[t].source_ip = bindings[t].source_ip
         \/ \E reply \in replies :
              /\ reply.meta # None
              /\ bindings'[t].jkt = reply.meta.jkt
              /\ bindings'[t].ja4 = reply.meta.ja4
              /\ bindings'[t].ja4h = reply.meta.ja4h
              /\ bindings'[t].source_ip = reply.meta.source_ip
<1>1. CASE bindings'[t] = bindings[t]
  BY <1>1
<1>2. ASSUME NEW r \in Requests, Request(r)
      PROVE  bindings'[t] = bindings[t]
  BY <1>2, RequestEffect
<1>3. ASSUME NEW reply \in replies, BindIssuedToken(reply)
      PROVE  \/ bindings'[t] = bindings[t]
             \/ /\ reply.meta # None
                /\ bindings'[t].jkt = reply.meta.jkt
                /\ bindings'[t].ja4 = reply.meta.ja4
                /\ bindings'[t].ja4h = reply.meta.ja4h
                /\ bindings'[t].source_ip = reply.meta.source_ip
  BY <1>3, BindEffect DEF BindIssuedToken, Bindable
<1>4. ASSUME NEW u \in Tokens, RevokeToken(u)
      PROVE  /\ bindings[t] # None
             /\ bindings'[t].jkt = bindings[t].jkt
             /\ bindings'[t].ja4 = bindings[t].ja4
             /\ bindings'[t].ja4h = bindings[t].ja4h
             /\ bindings'[t].source_ip = bindings[t].source_ip
  BY <1>4, RevokeEffect
<1>5. CASE ProxyRestarts
  BY <1>5 DEF ProxyRestarts
<1> QED
  BY <1>1, <1>2, <1>3, <1>4, <1>5
  DEF Next, vars, TlsClientHello, IgnoreReply, LoseReply, RevokeUnknown,
      BackendIssues, BackendExecutes, BackendRefuses, LoseRequest,
      BackendRestarts, Tick, HookFrame, ServerFrame, bindingVars

(* Tokens are issued to runs of script A and to nobody else.               *)
LEMMA TokensStayOfScriptA ==
  ASSUME DemoTypeOK, RunInvariant, [DemoNext]_demoVars
  PROVE  TokensAreOfScriptA'
<1>1. TypeOK /\ SessionsAreLoaded /\ TokensAreOfScriptA /\ [Next]_vars
  BY DemoStepIsStep DEF DemoTypeOK, RunInvariant
<1>2. ASSUME NEW f \in upstream', f.meta # None
      PROVE  OfScriptA(f.meta)
  <2>1. CASE f \in upstream
    BY <1>1, <1>2, <2>1 DEF TokensAreOfScriptA
  <2>2. CASE f \notin upstream
    <3>1. PICK r \in Runs : Ask(r)
      BY <2>2, OnlyAskAdds
    <3> DEFINE q == RequestOf(r)
    <3>2. /\ q.path = "token"
          /\ f.meta.jkt = q.proof.jkt
          /\ f.meta.ja4 = Presented(q)
          /\ f.meta.ja4h = q.ja4h
      BY <1>1, <1>2, <2>2, <3>1, AskIsRequest, RequestStashes
    <3>3. /\ q.path = PathOf(r) /\ q.proof.jkt = session[r].key
          /\ q.conn = Conn(r) /\ q.ja4h = HeadersSent[r]
      BY DEF RequestOf
    <3> HIDE DEF q
    <3>4. ScriptOf[r] = "a"
      BY <1>1, <3>2, <3>3, ProgramOf DEF PathOf
    <3>5. session[r].key = OwnKey[r]
      BY <1>1, <3>4 DEF SessionsAreLoaded
    <3>6. Presented(q) = StackOf[r]
      BY <1>1, <3>1, <3>3, AskIsRequest, ConnOfRun
      DEF Presented, RunInvariant, ConnectionsAreTheirs
    <3> QED BY <3>2, <3>3, <3>4, <3>5, <3>6 DEF OfScriptA
  <2> QED BY <2>1, <2>2
<1>3. ASSUME NEW reply \in replies', reply.meta # None
      PROVE  OfScriptA(reply.meta)
  <2>1. CASE reply \in replies
    BY <1>1, <1>3, <2>1 DEF TokensAreOfScriptA
  <2>2. ASSUME NEW f \in upstream, Issues(f)
        PROVE  \A other \in replies' : other \in replies \/ other.meta = f.meta
    BY <1>1, <2>2, IssueEffect DEF Issues
  <2>3. ASSUME NEW r \in Runs, Ask(r)
        PROVE  replies' = replies
    BY <1>1, <2>3, AskIsRequest, RequestEffect
  <2>4. CASE reply \notin replies
    <3>1. PICK f \in upstream : Issues(f)
      BY <2>3, <2>4
      DEF DemoNext, RunStep, LoadToken, LoadKey, WriteToken, WriteKey, Roam,
          Connect, AskToRevoke, TimesOut, GiveUp, Serves, HandsOver, Restarts,
          BringAliasUp, Tick, demoVars, vars, TlsClientHello, RevokeToken,
          RevokeUnknown, BindIssuedToken, BackendExecutes, BackendRefuses,
          ProxyRestarts, BackendRestarts
    <3> QED BY <1>1, <1>3, <2>2, <2>4, <3>1 DEF TokensAreOfScriptA
  <2> QED BY <2>1, <2>4
<1>4. ASSUME NEW t \in Tokens, bindings'[t] # None
      PROVE  OfScriptA(bindings'[t])
  BY <1>1, <1>4, BindingsComeFromReplies DEF TokensAreOfScriptA, OfScriptA
<1> QED BY <1>2, <1>3, <1>4 DEF TokensAreOfScriptA, OfScriptA

(* The types and the runs at the start.                                    *)
LEMMA DemoInitHolds ==
  ASSUME DemoInit
  PROVE  DemoTypeOK /\ RunInvariant
<1>1. Init /\ TypeOK
  BY InitTypeOK DEF DemoInit
<1>2. outcome \in [Runs -> Outcomes]
  BY DEF DemoInit, Outcomes
<1>3. /\ session = [r \in Runs |-> [token |-> None, key |-> OwnKey[r]]]
      /\ session \in [Runs -> Session]
  BY RunsAssumption DEF DemoInit, Session, Optional
<1>4. DemoTypeOK
  BY <1>1, <1>2, <1>3 DEF DemoInit, DemoTypeOK, Optional
<1>5. SessionsAreLoaded
  <2> SUFFICES ASSUME NEW r \in Runs
               PROVE  Loaded(r)
    BY DEF SessionsAreLoaded, Loaded
  <2>1. ScriptOf[r] \in Scripts
    BY RunsAssumption DEF Steps, Scripts
  <2>2. Len(Steps[ScriptOf[r]]) \in 2..6
    BY <2>1, ProgramsAreLong
  <2>3. /\ at[r] = 1
        /\ session[r].token = None /\ session[r].key = OwnKey[r]
    BY <1>3 DEF DemoInit
  <2>4. at[r] \in 1..Len(Steps[ScriptOf[r]])
    <3>1. \A n \in 2..6 : 1 \in 1..n
      OBVIOUS
    <3> QED BY <2>2, <2>3, <3>1
  <2> QED BY <2>3, <2>4 DEF Loaded
<1>6. RunsHaveAsked /\ ConnectionsAreTheirs /\ TokensAreOfScriptA
  BY <1>1
  DEF DemoInit, Init, ProxyInit, BindingStoreInit, RunsHaveAsked,
      ConnectionsAreTheirs, TokensAreOfScriptA
<1> QED BY <1>4, <1>5, <1>6 DEF RunInvariant

(* They are kept by every step.                                            *)
LEMMA DemoStepHolds ==
  DemoTypeOK /\ RunInvariant /\ [DemoNext]_demoVars => DemoTypeOK' /\ RunInvariant'
<1> SUFFICES ASSUME DemoTypeOK, RunInvariant, [DemoNext]_demoVars
             PROVE  DemoTypeOK' /\ RunInvariant'
  OBVIOUS
<1>1. RunsTyped' /\ SessionsAreLoaded'
  BY RunsStayLoaded
<1>2. TypeOK'
  BY DemoStepIsStep, NextTypeOK DEF DemoTypeOK, RunInvariant
<1>3. aliasUp' \in BOOLEAN
  BY DEF DemoTypeOK, DemoNext, RunStep, LoadToken, LoadKey, WriteToken, WriteKey,
         Roam, Connect, Ask, AskToRevoke, TimesOut, GiveUp, Issues, Serves,
         HandsOver, Restarts, LoseAll, BringAliasUp, demoVars
<1> QED
  BY <1>1, <1>2, <1>3, RunsStillHaveAsked, ConnectionsStayTheirs, TokensStayOfScriptA
  DEF DemoTypeOK, RunsTyped, RunInvariant

(* The scripts never leave their programs, whatever runs overlap.          *)
THEOREM DemoTypeCorrect == DemoSpec => [](DemoTypeOK /\ RunInvariant)
BY DemoInitHolds, DemoStepHolds, PTL DEF DemoSpec

(* Whatever the demo's clients do is something the system was modelled to  *)
(* be asked: every theorem of Sentinel holds of the demo.                  *)
THEOREM DemoIsSystem == DemoSpec => Spec
<1>1. DemoInit => Init
  BY DEF DemoInit
<1>2. DemoTypeOK /\ RunInvariant /\ [DemoNext]_demoVars => [Next]_vars
  BY DemoStepIsStep DEF RunInvariant
<1> QED BY <1>1, <1>2, DemoTypeCorrect, PTL DEF DemoSpec, Spec

(***************************************************************************)
(* Thieves.                                                                *)
(***************************************************************************)

(* What the engine passes comes from the run the token was issued to, or   *)
(* from one that cannot be told from it, and that is no thief.             *)
LEMMA PassIsOfScriptA ==
  ASSUME Staged, DemoTypeOK, RunInvariant, NEW r \in Runs, Ask(r),
         Found(RequestOf(r).token, now) # None, DecisionOn(RequestOf(r)).outcome = "PASS"
  PROVE  /\ r \notin Thieves
         /\ OfScriptA([jkt |-> session[r].key, ja4 |-> StackOf[r], ja4h |-> HeadersSent[r]])
<1> DEFINE q == RequestOf(r)
           b == bindings[q.token]
<1>1. TypeOK /\ SessionsAreLoaded
  BY DEF DemoTypeOK, RunInvariant
<1>2. /\ q \in RequestType /\ Conn(r) \in connected
      /\ q.proof.jkt = session[r].key
      /\ q.ja4h = HeadersSent[r]
      /\ q.conn = Conn(r)
  <2>1. /\ q.proof.jkt = session[r].key
        /\ q.ja4h = HeadersSent[r]
        /\ q.conn = Conn(r)
    BY DEF RequestOf
  <2> QED BY <1>1, <2>1, AskIsRequest
<1> HIDE DEF q
<1>3. /\ q.token \in Tokens /\ b # None
      /\ Presented(q) = b.ja4
      /\ q.proof.jkt = b.jkt
  BY <1>1, <1>2, DecisionTyped, PassMatches DEF q
<1>4. Presented(q) = StackOf[r]
  BY <1>2, ConnOfRun DEF Presented, RunInvariant, ConnectionsAreTheirs
<1>5. PICK o \in Runs : /\ ScriptOf[o] = "a" /\ b.jkt = OwnKey[o]
                        /\ b.ja4 = StackOf[o] /\ b.ja4h = HeadersSent[o]
  BY <1>3 DEF RunInvariant, TokensAreOfScriptA, OfScriptA
<1>6. HeadersSent[r] = HeadersSent[o]
  <2>1. Found(q.token, now) = b
    BY FoundIsBound DEF q
  <2>2. ~(Risk(b, Source(q), q.ja4h) >= RiskThreshold)
    BY <2>1 DEF DecisionOn, Evaluate, Reason, q
  <2>3. RiskThreshold \in Nat /\ IpWeight \in Nat /\ Ja4hWeight \in Nat
    BY PolicyAssumption DEF AcceptedPolicy
  <2>4. ~Ja4hDelta(b, q.ja4h)
    BY <2>2, <2>3 DEF Risk, Staged
  <2>5. HeadersSent[r] # None /\ HeadersSent[o] # None
    BY RunsAssumption, NoneAssumption
  <2> QED BY <1>2, <1>5, <2>4, <2>5 DEF Ja4hDelta
<1>7. OfScriptA([jkt |-> session[r].key, ja4 |-> StackOf[r], ja4h |-> HeadersSent[r]])
  BY <1>2, <1>3, <1>4, <1>5, <1>6 DEF OfScriptA
<1>8. ScriptOf[r] # "b"
  <2>1. ScriptOf[r] = "b" => OwnKey[r] = OwnKey[o]
    BY <1>1, <1>2, <1>3, <1>5 DEF SessionsAreLoaded
  <2> QED BY <1>5, <2>1, RunsAssumption
<1>9. ScriptOf[r] # "c"
  BY <1>3, <1>4, <1>5, <1>6 DEF Staged
<1> QED BY <1>7, <1>8, <1>9 DEF Thieves

(* A request of script B or C ends in a block: nothing goes upstream.      *)
LEMMA ThiefIsTurnedAway ==
  ASSUME Staged, DemoTypeOK, RunInvariant, NEW r \in Thieves, Ask(r)
  PROVE  /\ upstream' = upstream
         /\ report'.kind \in {"block", "decision"}
<1> DEFINE q == RequestOf(r)
<1>1. r \in Runs /\ TypeOK /\ SessionsAreLoaded
  BY DEF Thieves, DemoTypeOK, RunInvariant
<1>2. q.path = "api"
  <2>1. Step(r) # "token"
    BY <1>1, ProgramOf DEF Thieves
  <2> QED BY <2>1 DEF RequestOf, PathOf
<1>3. ASSUME NEW kind, NEW reason, NEW risk, Refuse(q, kind, reason, risk)
      PROVE  upstream' = upstream /\ report'.kind = kind
  BY <1>3 DEF Refuse, Reported, AuditOutcomes, Staged
<1>4. ~(Found(q.token, now) # None /\ DecisionOn(q).outcome = "PASS")
  BY <1>1, PassIsOfScriptA
<1>5. Request(q)
  BY <1>1, AskIsRequest
<1> HIDE DEF q
<1> QED BY <1>2, <1>3, <1>4, <1>5
        DEF Request, RateLimited, MissingProof, InvalidProof, ReplayedProof,
            ForwardTokenRequest, UnboundToken, BlockedByEngine, PassedByEngine,
            StepUpPassed, StepUpRequired, FindsBinding, InChallengeBand

(* A run that has asked for something keeps its key and goes on.           *)
LEMMA KeysStay ==
  ASSUME DemoTypeOK, RunInvariant, [DemoNext]_demoVars, NEW s \in Runs,
         ScriptOf[s] \notin {"a", "b"} => at[s] > 2
  PROVE  session'[s].key = session[s].key /\ at'[s] >= at[s]
<1> DEFINE Kept == session'[s].key = session[s].key /\ at'[s] >= at[s]
<1>1. /\ SessionsAreLoaded
      /\ session \in [Runs -> Session] /\ at \in [Runs -> 1..6]
      /\ at[s] \in Nat
  BY DEF RunInvariant, DemoTypeOK
<1>2. session[s] = [token |-> session[s].token, key |-> session[s].key]
  BY <1>1 DEF Session
<1>3. ASSUME NEW r \in Runs, NEW status,
             Answered(r, status) \/ Advance(r) \/ Fail(r)
      PROVE  at'[s] >= at[s]
  <2>1. at'[s] \in {at[s], at[s] + 1}
    BY <1>1, <1>3, AnswerMoves
  <2> QED BY <1>1, <2>1
<1>4. at' = at => at'[s] >= at[s]
  BY <1>1
<1>5. ASSUME NEW r \in Runs, NEW v,
             session' = session \/ session' = [session EXCEPT ![r].token = v]
      PROVE  session'[s].key = session[s].key
  BY <1>1, <1>2, <1>5
<1>6. ASSUME NEW r \in Runs, RunStep(r)
      PROVE  Kept
  <2>1. CASE LoadToken(r)
    <3>1. \E status : Answered(r, status) \/ Advance(r) \/ Fail(r)
      BY <2>1 DEF LoadToken
    <3> QED BY <1>3, <1>5, <2>1, <3>1 DEF LoadToken
  <2>2. CASE LoadKey(r)
    <3>1. ScriptOf[r] \notin {"a", "b"} /\ at[r] = 2
      BY <1>1, <2>2, ProgramOf DEF LoadKey, CanStep
    <3>2. r # s
      BY <3>1
    <3>3. session'[s] = session[s]
      BY <1>1, <2>2, <3>2 DEF LoadKey
    <3>4. \E status : Answered(r, status) \/ Advance(r) \/ Fail(r)
      BY <2>2 DEF LoadKey
    <3> QED BY <1>3, <3>3, <3>4
  <2>3. CASE WriteToken(r) \/ WriteKey(r) \/ Roam(r) \/ AskToRevoke(r)
    <3>1. PICK status : Answered(r, status) \/ Advance(r) \/ Fail(r)
      BY <2>3 DEF WriteToken, WriteKey, Roam, AskToRevoke
    <3>2. session' = session
      BY <2>3 DEF WriteToken, WriteKey, Roam, AskToRevoke
    <3> QED BY <1>3, <3>1, <3>2
  <2>4. CASE Connect(r) \/ TimesOut(r)
    BY <1>4, <2>4 DEF Connect, TimesOut, GiveUp, runVars
  <2>5. CASE Ask(r)
    <3>1. at' = at \/ \E status : Answered(r, status)
      BY <2>5 DEF Ask
    <3>2. session' = session
      BY <2>5 DEF Ask
    <3> QED BY <1>3, <1>4, <3>1, <3>2
  <2> QED BY <1>6, <2>1, <2>2, <2>3, <2>4, <2>5 DEF RunStep
<1>7. ASSUME NEW r \in Runs, NEW status, Hears(r, status)
      PROVE  at'[s] >= at[s]
  BY <1>3, <1>4, <1>7 DEF Hears
<1>8. ASSUME NEW f \in upstream, Issues(f) \/ Serves(f)
      PROVE  Kept
  <2>1. f.proof.jti[1] \in Runs
    BY RunOfFlow DEF RunInvariant
  <2>2. session' = session
    BY <1>8 DEF Issues, Serves, runVars
  <2>3. at' = at \/ \E status : Hears(f.proof.jti[1], status)
    BY <1>8 DEF Issues, Serves, runVars
  <2> QED BY <1>4, <1>7, <2>1, <2>2, <2>3
<1>9. ASSUME NEW reply \in replies, HandsOver(reply)
      PROVE  Kept
  <2>1. AskerOf(reply) \in Runs
    BY <1>9, RunOfReply DEF HandsOver, BindIssuedToken, RunInvariant
  <2> QED BY <1>5, <1>7, <1>9, <2>1 DEF HandsOver
<1>10. CASE UNCHANGED <<at, session>>
  BY <1>4, <1>10
<1> QED
  BY <1>6, <1>8, <1>9, <1>10
  DEF DemoNext, Restarts, LoseAll, BringAliasUp, demoVars, runVars

(* What AdmissionsAreTheirs says of one admission.                         *)
Theirs(a) ==
  LET r == a.proof[1]
  IN  /\ r \notin Thieves
      /\ ScriptOf[r] # "a" => at[r] > 2
      /\ a.jkt = session[r].key
      /\ OfScriptA([jkt |-> a.jkt, ja4 |-> StackOf[r], ja4h |-> HeadersSent[r]])

(* What passes under a token came with what it was issued to.              *)
LEMMA AdmissionsStayTheirs ==
  ASSUME Staged, DemoTypeOK, RunInvariant, AdmissionsAreTheirs, [DemoNext]_demoVars
  PROVE  AdmissionsAreTheirs'
<1>1. TypeOK /\ SessionsAreLoaded
  BY DEF DemoTypeOK, RunInvariant
<1>2. \A a \in admitted : a.proof[1] \in Runs
  BY <1>1, RunsAssumption DEF TypeOK, Admission
<1>3. ASSUME NEW r \in Runs, r \notin Thieves, ScriptOf[r] # "a" => at[r] > 2
      PROVE  /\ session'[r].key = session[r].key
             /\ ScriptOf[r] # "a" => at'[r] > 2
  <2>1. ScriptOf[r] \notin {"a", "b"} => at[r] > 2
    BY <1>3
  <2>2. session'[r].key = session[r].key /\ at'[r] >= at[r]
    BY <2>1, KeysStay
  <2>3. at[r] \in Nat /\ at'[r] \in Nat
    BY DemoStepHolds DEF DemoTypeOK
  <2> QED BY <1>3, <2>2, <2>3
<1>4. ASSUME NEW a \in admitted  PROVE Theirs(a)'
  <2>1. Theirs(a)
    BY DEF AdmissionsAreTheirs, Theirs
  <2> QED BY <1>2, <1>3, <2>1 DEF Theirs, OfScriptA, Thieves
<1>5. ASSUME NEW r \in Runs, Ask(r), NEW nonce, PassesWith(RequestOf(r), nonce),
             NEW a, a = AdmissionOf(RequestOf(r), nonce)
      PROVE  Theirs(a)'
  <2>1. /\ RequestOf(r).proof.jti[1] = r
        /\ RequestOf(r).proof.jkt = session[r].key
    BY DEF RequestOf
  <2>2. a.proof[1] = r /\ a.jkt = session[r].key
    BY <1>5, <2>1 DEF AdmissionOf
  <2>3. /\ r \notin Thieves
        /\ OfScriptA([jkt |-> session[r].key, ja4 |-> StackOf[r],
                      ja4h |-> HeadersSent[r]])
    BY <1>5, PassIsOfScriptA DEF PassesWith, FindsBinding
  <2>4. ScriptOf[r] # "a" => at[r] > 2
    BY <1>1, <1>5, <2>3, AskIsRequest, ProgramOf DEF Thieves
  <2>5. session'[r].key = session[r].key /\ (ScriptOf[r] # "a" => at'[r] > 2)
    BY <1>3, <2>3, <2>4
  <2> QED BY <2>2, <2>3, <2>5 DEF Theirs, OfScriptA, Thieves
<1>6. \A a \in admitted' : Theirs(a)'
  <2>1. CASE admitted' = admitted
    BY <1>4, <2>1
  <2>2. ASSUME NEW r \in Runs, Ask(r)
        PROVE  \A a \in admitted' : Theirs(a)'
    <3>1. \/ admitted' = admitted
          \/ \E nonce : PassesWith(RequestOf(r), nonce)
      BY <1>1, <2>2, AskIsRequest, RequestEffect
    <3>2. ASSUME NEW nonce, PassesWith(RequestOf(r), nonce)
          PROVE  \A a \in admitted' : Theirs(a)'
      <4>1. admitted' = admitted \cup {AdmissionOf(RequestOf(r), nonce)}
        BY <3>2 DEF PassesWith
      <4> QED BY <1>4, <1>5, <2>2, <3>2, <4>1
    <3> QED BY <2>1, <3>1, <3>2
  <2> QED BY <2>1, <2>2, OnlyAskAdds
<1> QED BY <1>6 DEF AdmissionsAreTheirs, Theirs

(* What ThievesGetNowhere says of one of them.                             *)
Nowhere(r) ==
  /\ ~waiting[r]
  /\ outcome[r] = "FAIL" => session[r].token = None

(* Scripts B and C ask once, at their last step, and expect a refusal.     *)
LEMMA ThiefsProgram ==
  ASSUME DemoTypeOK, SessionsAreLoaded, NEW r \in Thieves
  PROVE  /\ r \in Runs /\ ScriptOf[r] \in {"b", "c"}
         /\ Step(r) \in AskingSteps => at[r] = Len(Steps[ScriptOf[r]])
         /\ Expected(r) = {401, 403}
         /\ Step(r) \notin {"write_token", "write_key", "revoke"}
         /\ Len(Steps[ScriptOf[r]]) # 1
<1>1. r \in Runs /\ ScriptOf[r] \in {"b", "c"}
  BY DEF Thieves
<1>2. Step(r) \in AskingSteps => at[r] = Len(Steps[ScriptOf[r]])
  BY <1>1, ProgramOf
<1>3. /\ Step(r) \notin {"write_token", "write_key", "revoke"}
      /\ Len(Steps[ScriptOf[r]]) \in 2..6
  BY <1>1, ProgramOf
<1>4. Expected(r) = {401, 403}
  BY <1>1 DEF Expected
<1>5. Len(Steps[ScriptOf[r]]) # 1
  BY <1>3
<1> QED BY <1>1, <1>2, <1>3, <1>4, <1>5

(* A step of a thief: it ends with what it set out to show, or before it   *)
(* has anything to show.                                                   *)
LEMMA ThiefStep ==
  ASSUME Staged, DemoTypeOK, RunInvariant, NEW s \in Thieves, Nowhere(s), RunStep(s)
  PROVE  Nowhere(s)'
<1>1. /\ s \in Runs /\ SessionsAreLoaded
      /\ outcome \in [Runs -> Outcomes] /\ session \in [Runs -> Session]
      /\ waiting \in [Runs -> BOOLEAN]
      /\ at[s] \in Nat
  BY DEF Thieves, RunInvariant, DemoTypeOK
<1>2. ~waiting[s]
  BY DEF Nowhere
<1>3. ASSUME Advance(s), outcome[s] = "running"
      PROVE  outcome'[s] # "FAIL"
  BY <1>1, <1>3 DEF Advance
<1>4. CASE LoadToken(s)
  <2>1. outcome[s] = "running" /\ Step(s) = "load_token" /\ waiting' = waiting
    BY <1>4 DEF LoadToken, CanStep
  <2>2. CASE SessionFound(s)
    <3>1. Advance(s)
      BY <1>4, <2>2 DEF LoadToken
    <3> QED BY <1>2, <1>3, <2>1, <3>1 DEF Nowhere
  <2>3. CASE ~SessionFound(s)
    <3>1. session' = session
      BY <1>4, <2>3 DEF LoadToken
    <3>2. session[s].token = None
      BY <1>1, <2>1, ProgramOf DEF SessionsAreLoaded
    <3> QED BY <1>2, <2>1, <3>1, <3>2 DEF Nowhere
  <2> QED BY <2>2, <2>3
<1>5. CASE LoadKey(s)
  <2>1. outcome[s] = "running" /\ Step(s) = "load_key" /\ waiting' = waiting
    BY <1>5 DEF LoadKey, CanStep
  <2>2. ScriptOf[s] = "c" /\ at[s] = 2
    BY <1>1, <2>1, ProgramOf DEF Thieves
  <2>3. keyFile # None
    BY <1>1, <2>2 DEF SessionsAreLoaded
  <2>4. Advance(s)
    BY <1>5, <2>3 DEF LoadKey
  <2> QED BY <1>2, <1>3, <2>1, <2>4 DEF Nowhere
<1>6. CASE Ask(s)
  <2>1. /\ upstream' = upstream /\ report'.kind \in {"block", "decision"}
        /\ outcome[s] = "running" /\ Step(s) \in AskingSteps
    BY <1>6, ThiefIsTurnedAway DEF Ask, CanStep
  <2>2. Answered(s, StatusOf[report'.kind]) /\ waiting' = waiting
    BY <1>6, <2>1 DEF Ask
  <2>3. StatusOf[report'.kind] = 401
    BY <2>1 DEF StatusOf
  <2>4. Advance(s)
    BY <1>1, <2>2, <2>3, ThiefsProgram DEF Answered
  <2> QED BY <1>2, <1>3, <2>1, <2>2, <2>4 DEF Nowhere
<1>7. CASE Connect(s)
  BY <1>7 DEF Connect, runVars, Nowhere
<1>8. CASE Roam(s)
  <2>1. outcome[s] = "running" /\ waiting' = waiting
    BY <1>8 DEF Roam, CanStep
  <2>2. Advance(s)
    BY <1>1, <1>8, ThiefsProgram DEF Roam
  <2> QED BY <1>2, <1>3, <2>1, <2>2 DEF Nowhere
<1>9. ~(WriteToken(s) \/ WriteKey(s) \/ AskToRevoke(s) \/ TimesOut(s))
  BY <1>1, <1>2, ThiefsProgram DEF WriteToken, WriteKey, AskToRevoke, TimesOut, CanStep
<1> QED BY <1>4, <1>5, <1>6, <1>7, <1>8, <1>9 DEF RunStep

(* Nobody else's step touches what a thief's session says of it.           *)
LEMMA ThievesStayNowhere ==
  ASSUME Staged, DemoTypeOK, RunInvariant, ThievesGetNowhere, [DemoNext]_demoVars
  PROVE  ThievesGetNowhere'
<1>1. /\ SessionsAreLoaded
      /\ outcome \in [Runs -> Outcomes] /\ session \in [Runs -> Session]
      /\ waiting \in [Runs -> BOOLEAN] /\ at \in [Runs -> 1..6]
  BY DEF RunInvariant, DemoTypeOK
<1> SUFFICES ASSUME NEW s \in Thieves
             PROVE  Nowhere(s)'
  BY DEF ThievesGetNowhere, Nowhere, Thieves
<1>2. s \in Runs /\ Nowhere(s)
  BY DEF Thieves, ThievesGetNowhere, Nowhere
<1>3. ASSUME waiting'[s] = waiting[s],
             outcome'[s] = outcome[s] \/ outcome'[s] = "LOST",
             session'[s] = session[s]
      PROVE  Nowhere(s)'
  BY <1>2, <1>3 DEF Nowhere
<1>4. ASSUME NEW r \in Runs, NEW status, Hears(r, status), UNCHANGED session
      PROVE  Nowhere(s)'
  <2>1. CASE waiting[r]
    <3>1. r # s
      BY <1>2, <2>1 DEF Nowhere
    <3>2. outcome'[s] = outcome[s]
      BY <1>1, <1>2, <1>4, <2>1, <3>1, AnswerMoves DEF Hears
    <3>3. waiting'[s] = waiting[s]
      BY <1>1, <1>2, <1>4, <2>1, <3>1 DEF Hears
    <3> QED BY <1>3, <1>4, <3>2, <3>3
  <2>2. CASE ~waiting[r]
    BY <1>3, <1>4, <2>2 DEF Hears
  <2> QED BY <2>1, <2>2
<1>5. ASSUME NEW r \in Runs, RunStep(r)
      PROVE  Nowhere(s)'
  <2>1. CASE r = s
    BY <1>2, <1>5, <2>1, ThiefStep
  <2>2. CASE r # s
    <3>1. outcome'[s] = outcome[s]
      <4>1. CASE \E status : Answered(r, status) \/ Advance(r) \/ Fail(r)
        BY <1>1, <1>2, <2>2, <4>1, AnswerMoves
      <4>2. CASE outcome' = outcome \/ outcome' = [outcome EXCEPT ![r] = "LOST"]
        BY <1>1, <1>2, <2>2, <4>2
      <4> QED
        BY <1>5, <4>1, <4>2
        DEF RunStep, LoadToken, LoadKey, WriteToken, WriteKey, Roam, Connect,
            Ask, AskToRevoke, TimesOut, GiveUp, runVars
    <3>2. waiting'[s] = waiting[s]
      BY <1>1, <1>2, <1>5, <2>2
      DEF RunStep, LoadToken, LoadKey, WriteToken, WriteKey, Roam, Connect,
          Ask, AskToRevoke, TimesOut, GiveUp, runVars
    <3>3. session'[s] = session[s]
      BY <1>1, <1>2, <1>5, <2>2
      DEF RunStep, LoadToken, LoadKey, WriteToken, WriteKey, Roam, Connect,
          Ask, AskToRevoke, TimesOut, GiveUp, runVars
    <3> QED BY <1>3, <3>1, <3>2, <3>3
  <2> QED BY <2>1, <2>2
<1>6. ASSUME NEW f \in upstream, Issues(f) \/ Serves(f)
      PROVE  Nowhere(s)'
  <2>1. f.proof.jti[1] \in Runs
    BY RunOfFlow DEF RunInvariant
  <2> QED BY <1>3, <1>4, <1>6, <2>1 DEF Issues, Serves, runVars
<1>7. ASSUME NEW reply \in replies, HandsOver(reply)
      PROVE  Nowhere(s)'
  <2> DEFINE r == AskerOf(reply)
  <2>1. r \in Runs /\ ScriptOf[r] = "a"
    BY <1>7, RunOfReply DEF HandsOver, BindIssuedToken, RunInvariant
  <2>2. /\ Hears(r, 200)
        /\ session' = IF waiting[r]
                        THEN [session EXCEPT ![r].token = reply.token]
                        ELSE session
    BY <1>7 DEF HandsOver
  <2> HIDE DEF r
  <2>3. r # s
    BY <2>1 DEF Thieves
  <2>4. session'[s] = session[s]
    BY <1>1, <1>2, <2>2, <2>3
  <2>5. outcome'[s] = outcome[s]
    BY <1>1, <1>2, <2>1, <2>2, <2>3, AnswerMoves DEF Hears
  <2>6. waiting'[s] = waiting[s]
    BY <1>1, <1>2, <2>1, <2>2, <2>3 DEF Hears
  <2> QED BY <1>3, <2>4, <2>5, <2>6
<1>8. CASE Restarts
  <2>1. PICK runs : LoseAll(runs)
    BY <1>8 DEF Restarts
  <2>2. /\ session'[s] = session[s]
        /\ outcome'[s] = outcome[s] \/ outcome'[s] = "LOST"
        /\ ~waiting'[s]
    BY <1>2, <2>1 DEF LoseAll, Nowhere
  <2> QED BY <1>2, <2>2 DEF Nowhere
<1>9. CASE UNCHANGED runVars
  BY <1>3, <1>9 DEF runVars
<1> QED BY <1>5, <1>6, <1>7, <1>8, <1>9 DEF DemoNext, BringAliasUp, demoVars

(* At the start nothing has passed.                                        *)
LEMMA TheftInit ==
  ASSUME DemoInit
  PROVE  AdmissionsAreTheirs /\ ThievesGetNowhere
<1>1. \A r \in Runs : outcome[r] # "FAIL" /\ ~waiting[r]
  BY DEF DemoInit
<1> QED BY <1>1
        DEF DemoInit, Init, AdmissionsAreTheirs, ThievesGetNowhere, Thieves

(* What keeps thieves out, for any number of runs of any script, however   *)
(* they overlap, whatever is lost and whoever restarts.                    *)
THEOREM TheftInvariantHolds ==
  ASSUME Staged
  PROVE  DemoSpec => [](DemoTypeOK /\ TheftInvariant)
<1>1. DemoInit => DemoTypeOK /\ TheftInvariant
  BY DemoInitHolds, TheftInit DEF TheftInvariant
<1>2. DemoTypeOK /\ TheftInvariant /\ [DemoNext]_demoVars
        => DemoTypeOK' /\ TheftInvariant'
  BY DemoStepHolds, AdmissionsStayTheirs, ThievesStayNowhere DEF TheftInvariant
<1> QED BY <1>1, <1>2, PTL DEF DemoSpec

(* From the invariant, and from what holds of the proxy whoever asks: what *)
(* was run was let pass, and a token passes for one key only.              *)
LEMMA TheftsStayBlocked ==
  ASSUME TheftInvariant, SenderInvariant, UseInvariant
  PROVE  TheftsAreBlocked
<1>1. \A r \in Thieves : outcome[r] = "FAIL" => session[r].token = None
  BY DEF TheftInvariant, ThievesGetNowhere
<1>2. ASSUME NEW e \in executed, NEW r, r = e.proof[1]
      PROVE  /\ session[r].key = tokens[e.token].jkt
             /\ \A o \in Runs :
                  OwnKey[o] = tokens[e.token].jkt =>
                    StackOf[r] = StackOf[o] /\ HeadersSent[r] = HeadersSent[o]
  <2>1. PICK a \in admitted : a.token = e.token /\ a.proof = e.proof
    BY DEF UseInvariant
  <2>2. a.jkt = tokens[e.token].jkt
    BY <2>1 DEF SenderInvariant, OneSenderPerToken
  <2>3. /\ a.jkt = session[r].key
        /\ OfScriptA([jkt |-> a.jkt, ja4 |-> StackOf[r], ja4h |-> HeadersSent[r]])
    BY <1>2, <2>1 DEF TheftInvariant, AdmissionsAreTheirs
  <2>4. PICK o \in Runs : /\ a.jkt = OwnKey[o]
                          /\ StackOf[r] = StackOf[o]
                          /\ HeadersSent[r] = HeadersSent[o]
    BY <2>3 DEF OfScriptA
  <2> QED BY <2>2, <2>3, <2>4, RunsAssumption
<1> QED BY <1>1, <1>2 DEF TheftsAreBlocked

(* Scripts B and C are blocked, and a replay gets through only with the    *)
(* key, the TLS stack and the headers of the run that the token is of.     *)
THEOREM TheftsAreBlockedAlways ==
  ASSUME Staged
  PROVE  DemoSpec => []TheftsAreBlocked
<1>1. ~AuditMayFail
  BY DEF Staged
<1>2. TheftInvariant /\ SenderInvariant /\ UseInvariant => TheftsAreBlocked
  BY TheftsStayBlocked
<1>3. Spec => []UseInvariant
  BY <1>1, UseInvariantHolds
<1> QED BY <1>2, <1>3, DemoIsSystem, SenderInvariantHolds, TheftInvariantHolds, PTL

(***************************************************************************)
(* Tokens in use: what the proxy knows of them, step by step.              *)
(***************************************************************************)

(* A token keeps its expiry, and what was revoked stays so.                *)
LEMMA TokensAreKept ==
  ASSUME TypeOK, [Next]_vars
  PROVE  /\ now \in Nat /\ restarts \in Nat
         /\ now' \in {now, now + 1}
         /\ restarts' \in {restarts, restarts + 1}
         /\ revoked \subseteq revoked'
         /\ \A t \in Tokens :
              tokens[t] # None => tokens'[t] # None /\ tokens'[t].exp = tokens[t].exp
<1>1. now \in Nat /\ restarts \in Nat
  BY DEF TypeOK
<1>2. ASSUME NEW r \in Requests, Request(r)
      PROVE  UNCHANGED <<now, restarts, revoked, tokens>>
  BY <1>2, RequestEffect, RequestForgets
<1>3. ASSUME NEW f \in upstream, NEW t \in Tokens, BackendIssues(f, t)
      PROVE  /\ UNCHANGED <<now, restarts, revoked>>
             /\ \A u \in Tokens : tokens[u] # None => tokens'[u] = tokens[u]
  <2>1. UNCHANGED <<now, restarts, revoked>>
    BY <1>3 DEF BackendIssues, ServerFrame, historyVars, restartVars
  <2> QED BY <1>3, <2>1, IssueEffect
<1>4. CASE BackendRestarts
  <2>1. UNCHANGED <<now, restarts, revoked>>
    BY <1>4 DEF BackendRestarts, historyVars
  <2> QED BY <1>1, <1>4, <2>1, RestartEffect
<1>5. CASE ProxyRestarts
  BY <1>1, <1>5 DEF ProxyRestarts, backendVars, historyVars
<1>6. CASE Tick
  BY <1>1, <1>6 DEF Tick, backendVars, historyVars, restartVars
<1>7. ASSUME UNCHANGED <<now, restarts, tokens>>, revoked \subseteq revoked'
      PROVE  /\ now' \in {now, now + 1}
             /\ restarts' \in {restarts, restarts + 1}
             /\ revoked \subseteq revoked'
             /\ \A t \in Tokens : tokens'[t] = tokens[t]
  BY <1>7
<1> QED
  BY <1>1, <1>2, <1>3, <1>4, <1>5, <1>6, <1>7
  DEF Next, vars, TlsClientHello, BindIssuedToken, IgnoreReply, LoseReply,
      RevokeToken, RevokeUnknown, BackendExecutes, BackendRefuses, LoseRequest,
      HookFrame, ServerFrame, backendVars, historyVars, restartVars

(* What HeldTokensAreKnown says of a token that somebody holds ...         *)
Known(t) ==
  /\ tokens[t] # None
  /\ restarts = 0 /\ bindings[t] = None => tokens[t].exp <= now

(* What is known of a token stays known: only what expired is forgotten.   *)
LEMMA KnownStays ==
  ASSUME TypeOK, SenderInvariant, TokensExpireFirst, [Next]_vars,
         NEW t \in Tokens, Known(t)
  PROVE  Known(t)'
<1>1. TypeOK'
  BY NextTypeOK
<1>2. /\ now \in Nat /\ restarts \in Nat
      /\ now' \in {now, now + 1}
      /\ restarts' \in {restarts, restarts + 1}
      /\ tokens'[t] # None /\ tokens'[t].exp = tokens[t].exp
      /\ tokens[t].exp \in Nat
  BY TokensAreKept, ExpiryTypes DEF Known
<1>3. ASSUME restarts' = 0, bindings'[t] = None
      PROVE  tokens[t].exp <= now
  <2>1. restarts = 0 /\ restarts' = restarts
    BY <1>2, <1>3
  <2>2. CASE bindings[t] = None
    BY <2>1, <2>2 DEF Known
  <2>3. CASE bindings[t] # None
    <3>1. Next
      BY <1>3, <2>3 DEF vars, bindingVars
    <3> QED BY <1>1, <1>3, <2>1, <2>3, <3>1, ForgetsExpired
  <2> QED BY <2>2, <2>3
<1> QED BY <1>2, <1>3 DEF Known

(* ... and of one that is marked revoked in the store.                     *)
MarksAreTold ==
  \A t \in Tokens : bindings[t] # None /\ bindings[t].revoked => t \in revoked

(* A mark is made by a revocation, and gone with its binding.              *)
LEMMA MarksStayTold ==
  ASSUME ~AuditMayFail, TypeOK, MarksAreTold, [Next]_vars
  PROVE  MarksAreTold'
<1>1. revoked \subseteq revoked'
  BY TokensAreKept
<1>2. ASSUME NEW r \in Requests, Request(r)  PROVE MarksAreTold'
  BY <1>1, <1>2, RequestEffect DEF MarksAreTold
<1>3. ASSUME NEW reply \in replies, BindIssuedToken(reply)  PROVE MarksAreTold'
  BY <1>1, <1>3, BindEffect DEF MarksAreTold
<1>4. ASSUME NEW t \in Tokens, RevokeToken(t)  PROVE MarksAreTold'
  <2>1. t \in revoked'
    BY <1>4 DEF RevokeToken, AuditOutcomes
  <2> QED BY <1>1, <1>4, <2>1, RevokeEffect DEF MarksAreTold
<1>5. CASE ProxyRestarts
  BY <1>5 DEF ProxyRestarts, MarksAreTold
<1>6. CASE UNCHANGED bindings
  BY <1>1, <1>6 DEF MarksAreTold
<1> QED
  BY <1>2, <1>3, <1>4, <1>5, <1>6
  DEF Next, vars, TlsClientHello, IgnoreReply, LoseReply, RevokeUnknown,
      BackendIssues, BackendExecutes, BackendRefuses, LoseRequest,
      BackendRestarts, Tick, HookFrame, ServerFrame, bindingVars

(* A token comes into somebody's hands with its binding.                   *)
LEMMA HandedTokenIsKnown ==
  ASSUME TypeOK, SenderInvariant, NEW reply \in replies, BindIssuedToken(reply)
  PROVE  reply.token \in Tokens /\ Known(reply.token)'
<1>1. tokens[reply.token] # None
  BY DEF SenderInvariant, RepliesAreFresh
<1> QED BY <1>1, BindEffect DEF Known

(***************************************************************************)
(* The tokens that runs hold.                                              *)
(***************************************************************************)

(* A token spreads through the file and comes in with an answer only.      *)
LEMMA HeldComesFromAnswers ==
  ASSUME DemoTypeOK, RunInvariant, [DemoNext]_demoVars, NEW t \in Held', t \notin Held
  PROVE  \E reply \in replies : BindIssuedToken(reply) /\ t = reply.token
<1>1. session \in [Runs -> Session]
  BY DEF DemoTypeOK
<1>2. ASSUME tokenFile' \in Held, \A r \in Runs : session'[r].token \in Held
      PROVE  FALSE
  BY <1>2 DEF Held
<1>3. tokenFile \in Held /\ \A r \in Runs : session[r].token \in Held
  BY DEF Held
<1>4. ASSUME NEW r \in Runs, NEW v,
             session' = session \/ session' = [session EXCEPT ![r].key = v]
      PROVE  \A s \in Runs : session'[s].token \in Held
  BY <1>1, <1>3, <1>4 DEF Session
<1>5. ASSUME NEW r \in Runs, NEW v, session' = [session EXCEPT ![r].token = v]
      PROVE  \A s \in Runs : session'[s].token \in Held \cup {v}
  BY <1>1, <1>3, <1>5 DEF Session
<1>6. ASSUME NEW r \in Runs, RunStep(r)  PROVE FALSE
  <2>1. CASE LoadToken(r)
    BY <1>2, <1>3, <1>4, <1>5, <2>1 DEF LoadToken, fileVars
  <2>2. CASE LoadKey(r)
    BY <1>2, <1>3, <1>4, <2>2 DEF LoadKey, fileVars
  <2>3. CASE WriteToken(r) \/ WriteKey(r)
    BY <1>2, <1>3, <2>3 DEF WriteToken, WriteKey
  <2>4. CASE Roam(r) \/ Connect(r) \/ Ask(r) \/ AskToRevoke(r) \/ TimesOut(r)
    BY <1>2, <1>3, <2>4
    DEF Roam, Connect, Ask, AskToRevoke, TimesOut, GiveUp, fileVars, runVars
  <2> QED BY <1>6, <2>1, <2>2, <2>3, <2>4 DEF RunStep
<1>7. ASSUME NEW reply \in replies, HandsOver(reply)
      PROVE  BindIssuedToken(reply) /\ t = reply.token
  <2>1. BindIssuedToken(reply)
    BY <1>7 DEF HandsOver
  <2>2. AskerOf(reply) \in Runs
    BY <2>1, RunOfReply DEF BindIssuedToken, RunInvariant
  <2>3. \A s \in Runs : session'[s].token \in Held \cup {reply.token}
    BY <1>3, <1>5, <1>7, <2>2 DEF HandsOver
  <2>4. tokenFile' \in Held
    BY <1>3, <1>7 DEF HandsOver, fileVars
  <2>5. t \in Held \cup {reply.token}
    BY <2>3, <2>4 DEF Held
  <2> QED BY <2>1, <2>5
<1>8. CASE UNCHANGED <<session, tokenFile>>
  BY <1>2, <1>3, <1>8
<1> QED
  BY <1>6, <1>7, <1>8
  DEF DemoNext, Issues, Serves, Restarts, LoseAll, BringAliasUp, demoVars, runVars,
      fileVars

(* The tokens that runs hold are known, and so are those handed to them.   *)
LEMMA HeldTokensStayKnown ==
  ASSUME ~AuditMayFail, DemoTypeOK, RunInvariant, SenderInvariant, TokensExpireFirst,
         HeldTokensAreKnown, [DemoNext]_demoVars
  PROVE  HeldTokensAreKnown'
<1>1. TypeOK /\ [Next]_vars
  BY DemoStepIsStep DEF DemoTypeOK, RunInvariant
<1>2. MarksAreTold'
  BY <1>1, MarksStayTold DEF HeldTokensAreKnown, MarksAreTold
<1>3. Held \subseteq Optional(Tokens)
  BY SessionTyped DEF DemoTypeOK, Held
<1>4. ASSUME NEW t \in Held', t # None  PROVE Known(t)'
  <2>1. CASE t \in Held
    <3>1. t \in Tokens /\ Known(t)
      BY <1>3, <1>4, <2>1 DEF HeldTokensAreKnown, Known, Optional
    <3> QED BY <1>1, <3>1, KnownStays
  <2>2. CASE t \notin Held
    BY <1>1, <2>2, HeldComesFromAnswers, HandedTokenIsKnown
  <2> QED BY <2>1, <2>2
<1> QED BY <1>2, <1>4 DEF HeldTokensAreKnown, Known, MarksAreTold

(***************************************************************************)
(* Where script A asks from.                                               *)
(***************************************************************************)

(* An answer to a token request comes from the backend.                    *)
LEMMA OnlyIssuesAnswer ==
  ASSUME DemoTypeOK, SessionsAreLoaded, [DemoNext]_demoVars,
         NEW reply \in replies', reply \notin replies
  PROVE  \E f \in upstream : Issues(f)
<1>1. ASSUME NEW r \in Runs, Ask(r)  PROVE replies' = replies
  BY <1>1, AskIsRequest, RequestEffect DEF DemoTypeOK
<1> QED
  BY <1>1
  DEF DemoNext, RunStep, LoadToken, LoadKey, WriteToken, WriteKey, Roam,
      Connect, AskToRevoke, TimesOut, GiveUp, Serves, HandsOver, Restarts,
      BringAliasUp, Tick, demoVars, vars, TlsClientHello, RevokeToken,
      RevokeUnknown, BindIssuedToken, BackendExecutes, BackendRefuses,
      ProxyRestarts, BackendRestarts

(* Metadata goes from the request to the answer to the binding.            *)
LEMMA TokensStayMadeAtHome ==
  ASSUME DemoTypeOK, RunInvariant, MadeAtHome, [DemoNext]_demoVars
  PROVE  MadeAtHome'
<1>1. TypeOK /\ SessionsAreLoaded /\ [Next]_vars
  BY DemoStepIsStep DEF DemoTypeOK, RunInvariant
<1>2. ASSUME NEW f \in upstream', f.meta # None
      PROVE  f.meta.jkt = OwnKey[f.proof.jti[1]] /\ f.meta.source_ip = "home"
  <2>1. CASE f \in upstream
    BY <1>2, <2>1 DEF MadeAtHome
  <2>2. CASE f \notin upstream
    <3>1. PICK r \in Runs : Ask(r)
      BY <2>2, OnlyAskAdds
    <3> DEFINE q == RequestOf(r)
    <3>2. /\ q.path = "token"
          /\ f.meta.jkt = q.proof.jkt
          /\ f.meta.source_ip = Source(q)
          /\ f.proof = q.proof
      BY <1>1, <1>2, <2>2, <3>1, AskIsRequest, RequestStashes, RequestEffect
      DEF ForwardedFor
    <3>3. /\ q.path = PathOf(r) /\ q.proof.jkt = session[r].key
          /\ q.proof.jti[1] = r /\ q.conn = Conn(r)
      BY DEF RequestOf
    <3> HIDE DEF q
    <3>4. ScriptOf[r] = "a"
      BY <1>1, <3>2, <3>3, ProgramOf DEF PathOf
    <3>5. session[r].key = OwnKey[r]
      BY <1>1, <3>4 DEF SessionsAreLoaded
    <3>6. Source(q) = "home"
      <4>1. Conn(r) = <<r, "home">> /\ Conn(r) \in Conns
        BY ConnOfRun DEF Conn
      <4> QED BY <3>3, <4>1, RunsAssumption DEF Source
    <3> QED BY <3>2, <3>3, <3>5, <3>6
  <2> QED BY <2>1, <2>2
<1>3. ASSUME NEW reply \in replies', reply.meta # None
      PROVE  reply.meta.source_ip = "home"
  <2>1. CASE reply \in replies
    BY <1>3, <2>1 DEF MadeAtHome
  <2>2. CASE reply \notin replies
    <3>1. PICK f \in upstream : Issues(f)
      BY <1>1, <2>2, OnlyIssuesAnswer
    <3> QED BY <1>1, <1>3, <2>2, <3>1, IssueEffect DEF Issues, MadeAtHome
  <2> QED BY <2>1, <2>2
<1>4. ASSUME NEW t \in Tokens, bindings'[t] # None
      PROVE  bindings'[t].source_ip = "home"
  BY <1>1, <1>4, BindingsComeFromReplies DEF MadeAtHome
<1> QED BY <1>2, <1>3, <1>4 DEF MadeAtHome

(***************************************************************************)
(* What comes of a request.                                                *)
(***************************************************************************)

(* No script takes a step twice.                                           *)
LEMMA StepsDiffer ==
  ASSUME NEW s \in Scripts, NEW i \in 1..Len(Steps[s]), NEW j \in 1..Len(Steps[s]),
         Steps[s][i] = Steps[s][j]
  PROVE  i = j
<1>1. CASE s = "a"
  <2>1. i \in {1, 2, 3, 4, 5, 6} /\ j \in {1, 2, 3, 4, 5, 6}
    BY <1>1, ProgramTable
  <2> QED BY <1>1, <2>1 DEF Steps
<1>2. CASE s = "b"
  <2>1. i \in {1, 2} /\ j \in {1, 2}
    BY <1>2, ProgramTable
  <2> QED BY <1>2, <2>1 DEF Steps
<1>3. CASE s = "f" \/ s = "replay"
  <2>1. i \in {1, 2, 3} /\ j \in {1, 2, 3}
    BY <1>3, ProgramTable
  <2> QED BY <1>3, <2>1 DEF Steps
<1>4. CASE s = "e"
  <2>1. i \in {1, 2, 3, 4, 5} /\ j \in {1, 2, 3, 4, 5}
    BY <1>4, ProgramTable
  <2> QED BY <1>4, <2>1 DEF Steps
<1>5. CASE s = "c"
  <2>1. i \in {1, 2, 3, 4} /\ j \in {1, 2, 3, 4}
    BY <1>5, ProgramTable
  <2> QED BY <1>5, <2>1 DEF Steps
<1> QED BY <1>1, <1>2, <1>3, <1>4, <1>5 DEF Scripts

(* A run is at a step of its script.                                       *)
LEMMA ScriptOfRun ==
  ASSUME DemoTypeOK, SessionsAreLoaded, NEW r \in Runs
  PROVE  /\ ScriptOf[r] \in Scripts
         /\ at[r] \in 1..Len(Steps[ScriptOf[r]])
         /\ Len(Steps[ScriptOf[r]]) \in Nat
<1>1. ScriptOf[r] \in Scripts /\ at[r] \in 1..Len(Steps[ScriptOf[r]])
  BY RunsAssumption DEF Steps, Scripts, SessionsAreLoaded
<1>2. Len(Steps[ScriptOf[r]]) \in 2..6
  BY <1>1, ProgramsAreLong
<1> QED BY <1>1, <1>2

(* The request of a run, spelled out.                                      *)
LEMMA RequestFields ==
  ASSUME NEW r \in Runs
  PROVE  /\ RequestOf(r).conn = Conn(r)
         /\ RequestOf(r).path = PathOf(r)
         /\ RequestOf(r).token = session[r].token
         /\ RequestOf(r).ja4h = HeadersSent[r]
         /\ RequestOf(r).proof.jti = <<r, Step(r)>>
         /\ RequestOf(r).proof.jkt = session[r].key
         /\ RequestOf(r).proof.htu = PathOf(r)
         /\ RequestOf(r).proof.signed
         /\ RequestOf(r).proof.iat = now
         /\ RequestOf(r).proof.nonce = NoNonce
BY DEF RequestOf

(* A run asks with a proof that is good and new, and with nothing of its   *)
(* own still on its way.                                                   *)
LEMMA AsksAfresh ==
  ASSUME DemoTypeOK, SessionsAreLoaded, OneThingAwaited, ProofsAreOfStepsTaken,
         NEW r \in Runs, Ask(r)
  PROVE  /\ outcome[r] = "running" /\ ~waiting[r] /\ Step(r) \in AskingSteps
         /\ RequestOf(r).proof # None
         /\ ValidDpop(RequestOf(r).proof, RequestOf(r).path, now)
         /\ DpopJtiFresh(RequestOf(r).proof.jti)
         /\ FlowsOf(r) = {} /\ AnswersFor(r) = {}
<1>1. outcome[r] = "running" /\ ~waiting[r] /\ Step(r) \in AskingSteps
  BY DEF Ask, CanStep
<1>2. now \in Nat /\ at[r] \in Nat
  BY DEF DemoTypeOK, TypeOK
<1>3. ValidDpop(RequestOf(r).proof, RequestOf(r).path, now)
  BY <1>2, RequestFields, DpopWindowAssumption DEF ValidDpop, FreshProof
<1>4. <<r, Step(r)>> \notin dpopJtiSeen
  <2>1. at[r] \in 1..Len(Steps[ScriptOf[r]])
    BY DEF SessionsAreLoaded
  <2>2. ~(at[r] < at[r])
    BY <1>2
  <2> QED BY <1>1, <2>1, <2>2 DEF ProofsAreOfStepsTaken, Step
<1>5. DpopJtiFresh(RequestOf(r).proof.jti)
  BY <1>4, RequestFields DEF DpopJtiFresh
<1>6. FlowsOf(r) = {} /\ AnswersFor(r) = {}
  BY <1>1 DEF OneThingAwaited
<1> QED BY <1>1, <1>3, <1>5, <1>6, AskIsRequest

(* The proxy answers, or passes the request on and the run waits.          *)
Told(r, status) ==
  /\ upstream' = upstream
  /\ Answered(r, status)
  /\ UNCHANGED <<waiting, session>>

Forwarded(r) ==
  /\ \E meta : upstream' = upstream \cup {FlowOf(RequestOf(r), meta)}
  /\ waiting' = [waiting EXCEPT ![r] = TRUE]
  /\ UNCHANGED <<at, outcome, session>>

(* With a proof that is good and new, five ways are left for a hook to end. *)
LEMMA AskEnds ==
  ASSUME ~AuditMayFail, DemoTypeOK, SessionsAreLoaded, OneThingAwaited,
         ProofsAreOfStepsTaken, NEW r \in Runs, Ask(r)
  PROVE  \/ RateLimited(RequestOf(r)) /\ Told(r, 429)
         \/ UnboundToken(RequestOf(r)) /\ Told(r, 401)
         \/ BlockedByEngine(RequestOf(r)) /\ Told(r, 401)
         \/ StepUpRequired(RequestOf(r)) /\ Told(r, 428)
         \/ /\ \/ ForwardTokenRequest(RequestOf(r))
               \/ PassedByEngine(RequestOf(r))
               \/ StepUpPassed(RequestOf(r))
            /\ Forwarded(r)
<1> DEFINE q == RequestOf(r)
<1>1. Request(q) /\ q.proof # None
  BY AskIsRequest
<1>2. ~MissingProof(q) /\ ~InvalidProof(q) /\ ~ReplayedProof(q)
  BY AsksAfresh DEF MissingProof, InvalidProof, ReplayedProof
<1>3. ASSUME NEW meta, upstream' = upstream \cup {FlowOf(q, meta)}
      PROVE  Forwarded(r)
  <2>1. FlowOf(q, meta).proof.jti[1] = r
    BY RequestFields DEF FlowOf
  <2>2. FlowOf(q, meta) \notin upstream
    BY <2>1, AsksAfresh DEF FlowsOf
  <2> HIDE DEF q
  <2>3. upstream' # upstream
    BY <1>3, <2>2
  <2> QED BY <1>3, <2>3 DEF Ask, Forwarded, q
<1>4. ASSUME NEW kind, \E reason, risk : Refuse(q, kind, reason, risk)
      PROVE  Told(r, StatusOf[kind])
  <2>1. upstream' = upstream /\ report'.kind = kind
    BY <1>4 DEF Refuse, Reported, AuditOutcomes
  <2> QED BY <2>1 DEF Ask, Told
<1> HIDE DEF q
<1>5. CASE RateLimited(q)
  <2>1. \E reason, risk : Refuse(q, "rate_limited", reason, risk)
    BY <1>5 DEF RateLimited
  <2>2. StatusOf["rate_limited"] = 429
    BY DEF StatusOf
  <2>3. Told(r, 429)
    BY <1>4, <2>1, <2>2
  <2> QED BY <1>5, <2>3 DEF q
<1>6. CASE UnboundToken(q)
  <2>1. \E reason, risk : Refuse(q, "block", reason, risk)
    BY <1>6 DEF UnboundToken
  <2>2. StatusOf["block"] = 401
    BY DEF StatusOf
  <2>3. Told(r, 401)
    BY <1>4, <2>1, <2>2
  <2> QED BY <1>6, <2>3 DEF q
<1>7. CASE BlockedByEngine(q)
  <2>1. \E reason, risk : Refuse(q, "decision", reason, risk)
    BY <1>7 DEF BlockedByEngine
  <2>2. StatusOf["decision"] = 401
    BY DEF StatusOf
  <2>3. Told(r, 401)
    BY <1>4, <2>1, <2>2
  <2> QED BY <1>7, <2>3 DEF q
<1>8. CASE StepUpRequired(q)
  <2>1. \E reason, risk : Refuse(q, "challenge_issued", reason, risk)
    BY <1>8 DEF StepUpRequired
  <2>2. StatusOf["challenge_issued"] = 428
    BY DEF StatusOf
  <2>3. Told(r, 428)
    BY <1>4, <2>1, <2>2
  <2> QED BY <1>8, <2>3 DEF q
<1>9. CASE ForwardTokenRequest(q)
  BY <1>3, <1>9 DEF ForwardTokenRequest, q
<1>10. CASE PassedByEngine(q)
  BY <1>3, <1>10 DEF PassedByEngine, Admit, q
<1>11. CASE StepUpPassed(q)
  BY <1>3, <1>11 DEF StepUpPassed, Admit, q
<1> QED BY <1>1, <1>2, <1>5, <1>6, <1>7, <1>8, <1>9, <1>10, <1>11 DEF Request, q

(***************************************************************************)
(* One run at a time: what OneThingAwaited, ProofsAreOfStepsTaken and      *)
(* StepsAreEarned say of it, and what a step may do to it.                 *)
(***************************************************************************)
Awaited(r) ==
  outcome[r] = "running" =>
    /\ FlowsOf(r) # {} \/ AnswersFor(r) # {} => waiting[r]
    /\ FlowsOf(r) = {} \/ AnswersFor(r) = {}
    /\ \A f \in FlowsOf(r) : CarriesRequest(r, f) /\ FlowsOf(r) = {f}
    /\ \A reply \in AnswersFor(r) : Step(r) = "token" /\ AnswersFor(r) = {reply}

Taken(r) ==
  \A i \in 1..Len(Steps[ScriptOf[r]]) :
    <<r, Steps[ScriptOf[r]][i]>> \in dpopJtiSeen =>
      \/ i < at[r]
      \/ i = at[r] /\ (waiting[r] \/ outcome[r] # "running")

Earned(r) ==
  /\ ScriptOf[r] = "a" /\ at[r] > 1 => session[r].token # None
  /\ ScriptOf[r] = "e" /\ at[r] > 4 => session[r].token \in revoked

Sound(r) == Awaited(r) /\ Taken(r) /\ Earned(r)

(* The three invariants, run by run.                                       *)
LEMMA SoundRuns ==
  (\A r \in Runs : Sound(r))
    <=> OneThingAwaited /\ ProofsAreOfStepsTaken /\ StepsAreEarned
BY DEF Sound, Awaited, Taken, Earned, OneThingAwaited, ProofsAreOfStepsTaken,
       StepsAreEarned

(* Nothing of the run is seen that was not seen before, or only the step   *)
(* it is at.                                                               *)
SeenNoMore(r) == \A x : <<r, x>> \in dpopJtiSeen' => <<r, x>> \in dpopJtiSeen

SeenThisStep(r) ==
  \A x : <<r, x>> \in dpopJtiSeen' => <<r, x>> \in dpopJtiSeen \/ x = Step(r)

(* A run that no step concerns, or that comes to an end.                   *)
Untouched(r) ==
  /\ at'[r] = at[r] /\ outcome'[r] = outcome[r] /\ waiting'[r] = waiting[r]
  /\ session'[r] = session[r]
  /\ FlowsOf(r)' \subseteq FlowsOf(r)
  /\ AnswersFor(r)' \subseteq AnswersFor(r)
  /\ SeenNoMore(r)

Ended(r) ==
  /\ at'[r] = at[r] /\ outcome'[r] # "running" /\ ~waiting'[r]
  /\ SeenThisStep(r)

(* A run stays sound when nothing of it changes but what is lost, ...      *)
LEMMA UntouchedIsSound ==
  ASSUME NEW r \in Runs, Sound(r), Untouched(r), revoked \subseteq revoked'
  PROVE  Sound(r)'
<1>1. Awaited(r)'
  <2> SUFFICES ASSUME outcome'[r] = "running"
               PROVE  /\ FlowsOf(r)' # {} \/ AnswersFor(r)' # {} => waiting'[r]
                      /\ FlowsOf(r)' = {} \/ AnswersFor(r)' = {}
                      /\ \A f \in FlowsOf(r)' : CarriesRequest(r, f)' /\ FlowsOf(r)' = {f}
                      /\ \A reply \in AnswersFor(r)' :
                           Step(r)' = "token" /\ AnswersFor(r)' = {reply}
    BY DEF Awaited
  <2> DEFINE flows == FlowsOf(r)
             answers == AnswersFor(r)
  <2>1. /\ flows # {} \/ answers # {} => waiting[r]
        /\ flows = {} \/ answers = {}
        /\ \A f \in flows : CarriesRequest(r, f) /\ flows = {f}
        /\ \A reply \in answers : Step(r) = "token" /\ answers = {reply}
    BY DEF Sound, Awaited, Untouched
  <2>2. flows' \subseteq flows /\ answers' \subseteq answers
    BY DEF Untouched
  <2>3. /\ waiting'[r] = waiting[r] /\ Step(r)' = Step(r)
        /\ \A f : CarriesRequest(r, f)' <=> CarriesRequest(r, f)
    BY DEF Untouched, Step, CarriesRequest, PathOf
  <2> HIDE DEF flows, answers
  <2>4. /\ flows' # {} \/ answers' # {} => waiting'[r]
        /\ flows' = {} \/ answers' = {}
        /\ \A f \in flows' : CarriesRequest(r, f)' /\ flows' = {f}
        /\ \A reply \in answers' : Step(r)' = "token" /\ answers' = {reply}
    BY <2>1, <2>2, <2>3
  <2> QED BY <2>4 DEF flows, answers
<1>2. Taken(r)'
  BY DEF Sound, Taken, Untouched, SeenNoMore
<1>3. Earned(r)'
  BY DEF Sound, Earned, Untouched
<1> QED BY <1>1, <1>2, <1>3 DEF Sound

(* What is seen of a run is of the step it is at, or of one before.        *)
LEMMA SeenSoFar ==
  ASSUME DemoTypeOK, SessionsAreLoaded, NEW r \in Runs, Taken(r), SeenThisStep(r),
         NEW i \in 1..Len(Steps[ScriptOf[r]]),
         <<r, Steps[ScriptOf[r]][i]>> \in dpopJtiSeen'
  PROVE  i < at[r] \/ i = at[r]
<1>1. CASE <<r, Steps[ScriptOf[r]][i]>> \in dpopJtiSeen
  BY <1>1 DEF Taken
<1>2. CASE Steps[ScriptOf[r]][i] = Step(r)
  BY <1>2, ScriptOfRun, StepsDiffer DEF Step
<1> QED BY <1>1, <1>2 DEF SeenThisStep

(* ... when it ends, since no more is asked of it, ...                     *)
LEMMA EndedIsSound ==
  ASSUME DemoTypeOK, SessionsAreLoaded, NEW r \in Runs, Sound(r), Ended(r),
         Earned(r)'
  PROVE  Sound(r)'
<1>1. Awaited(r)'
  BY DEF Awaited, Ended
<1>2. Taken(r)'
  BY SeenSoFar DEF Sound, Taken, Ended
<1> QED BY <1>1, <1>2 DEF Sound

(* A run that goes on has nothing on its way, and has earned its step.     *)
GoesOn(r) ==
  /\ at'[r] = at[r] + 1 /\ outcome'[r] = outcome[r] /\ ~waiting'[r]
  /\ FlowsOf(r)' = {} /\ AnswersFor(r)' = {}
  /\ SeenThisStep(r)

(* ... and when it goes on with nothing on its way.                        *)
LEMMA GoesOnIsSound ==
  ASSUME DemoTypeOK, SessionsAreLoaded, NEW r \in Runs, Sound(r), GoesOn(r),
         Earned(r)'
  PROVE  Sound(r)'
<1>1. Awaited(r)'
  BY DEF Awaited, GoesOn
<1>2. Taken(r)'
  <2>1. at[r] \in Nat /\ at'[r] = at[r] + 1
    BY DEF GoesOn, DemoTypeOK
  <2>2. ASSUME NEW i \in 1..Len(Steps[ScriptOf[r]]),
               <<r, Steps[ScriptOf[r]][i]>> \in dpopJtiSeen'
        PROVE  i < at'[r]
    <3>1. i < at[r] \/ i = at[r]
      BY <2>2, SeenSoFar DEF Sound, GoesOn
    <3>2. i \in Nat
      BY <2>2
    <3> QED BY <2>1, <3>1, <3>2
  <2> QED BY <2>2 DEF Taken
<1> QED BY <1>1, <1>2 DEF Sound

(* Where a script is, told by its step.                                    *)
LEMMA PlaceOfStep ==
  ASSUME DemoTypeOK, SessionsAreLoaded, NEW r \in Runs
  PROVE  /\ at[r] \in 1..6
         /\ ScriptOf[r] = "a" => (at[r] = 1 <=> Step(r) = "token")
         /\ ScriptOf[r] = "a" =>
              Step(r) \notin {"revoke", "accounts_again", "steal"}
         /\ ScriptOf[r] = "e" => at[r] <= 5
         /\ ScriptOf[r] = "e" => (at[r] = 4 <=> Step(r) = "revoke")
         /\ ScriptOf[r] = "e" => (at[r] = 5 <=> Step(r) = "accounts_again")
         /\ ScriptOf[r] = "e" /\ Step(r) \in AskingSteps =>
              Step(r) \in {"accounts", "accounts_again"}
         /\ ScriptOf[r] = "f" => Step(r) \notin AskingSteps
         /\ ScriptOf[r] \in {"b", "c", "replay"} /\ Step(r) \in AskingSteps =>
              Step(r) = "steal"
         /\ Step(r) = "accounts_again" => ScriptOf[r] = "e"
         /\ Step(r) = "roam" => Step(r) \notin AskingSteps \cup {"revoke"}
<1>1. ScriptOf[r] \in Scripts /\ at[r] \in 1..Len(Steps[ScriptOf[r]])
  BY ScriptOfRun
<1>2. at[r] \in 1..6
  BY DEF DemoTypeOK
<1>3. CASE ScriptOf[r] = "a"
  <2>1. at[r] \in {1, 2, 3, 4, 5, 6}
    BY <1>1, <1>3, ProgramTable
  <2> QED BY <1>2, <1>3, <2>1, ProgramTable DEF Step, Steps, AskingSteps
<1>4. CASE ScriptOf[r] = "b"
  <2>1. at[r] \in {1, 2}
    BY <1>1, <1>4, ProgramTable
  <2> QED BY <1>2, <1>4, <2>1, ProgramTable DEF Step, Steps, AskingSteps
<1>5. CASE ScriptOf[r] \in {"f", "replay"}
  <2>1. Len(Steps[ScriptOf[r]]) = 3
    BY <1>5, ProgramTable
  <2>2. at[r] \in {1, 2, 3}
    BY <1>1, <2>1
  <2> QED BY <1>2, <1>5, <2>2, ProgramTable DEF Step, Steps, AskingSteps
<1>6. CASE ScriptOf[r] = "e"
  <2>1. at[r] \in {1, 2, 3, 4, 5}
    BY <1>1, <1>6, ProgramTable
  <2> QED BY <1>2, <1>6, <2>1, ProgramTable DEF Step, Steps, AskingSteps
<1>7. CASE ScriptOf[r] = "c"
  <2>1. at[r] \in {1, 2, 3, 4}
    BY <1>1, <1>7, ProgramTable
  <2> QED BY <1>2, <1>7, <2>1, ProgramTable DEF Step, Steps, AskingSteps
<1> QED BY <1>1, <1>3, <1>4, <1>5, <1>6, <1>7 DEF Scripts

(* Whatever takes a run one step on or leaves it where it is: what it must *)
(* have by then.                                                           *)
LEMMA EarnedAfter ==
  ASSUME DemoTypeOK, SessionsAreLoaded, NEW r \in Runs, Earned(r),
         at'[r] \in {at[r], at[r] + 1}, revoked \subseteq revoked',
         ScriptOf[r] = "a" => session'[r].token \in {session[r].token} \cup Tokens,
         ScriptOf[r] = "a" /\ Step(r) = "token" /\ at'[r] # at[r]
           => session'[r].token \in Tokens,
         ScriptOf[r] = "e" /\ at[r] > 3 => session'[r].token = session[r].token,
         Step(r) = "revoke" /\ at'[r] # at[r] => session[r].token \in revoked'
  PROVE  Earned(r)'
<1>1. at[r] \in Nat /\ at'[r] \in Nat
  BY DEF DemoTypeOK
<1>2. ASSUME ScriptOf[r] = "a", at'[r] > 1  PROVE session'[r].token # None
  <2>1. CASE at[r] = 1
    BY <1>1, <1>2, <2>1, PlaceOfStep, NoneAssumption
  <2>2. CASE at[r] # 1
    BY <1>1, <1>2, <2>2, PlaceOfStep, NoneAssumption DEF Earned
  <2> QED BY <2>1, <2>2
<1>3. ASSUME ScriptOf[r] = "e", at'[r] > 4  PROVE session'[r].token \in revoked'
  <2>1. CASE at[r] = 4
    BY <1>1, <1>3, <2>1, PlaceOfStep
  <2>2. CASE at[r] # 4
    BY <1>1, <1>3, <2>2 DEF Earned
  <2> QED BY <2>1, <2>2
<1> QED BY <1>2, <1>3 DEF Earned

(* An answer takes a run one step on, or ends it; no other run hears it.   *)
LEMMA AnswerEffect ==
  ASSUME DemoTypeOK, SessionsAreLoaded, NEW r \in Runs, outcome[r] = "running",
         NEW status, Answered(r, status) \/ Advance(r) \/ Fail(r)
  PROVE  /\ at'[r] \in {at[r], at[r] + 1}
         /\ \/ at'[r] = at[r] + 1 /\ outcome'[r] = "running" /\ Advance(r)
            \/ at'[r] = at[r] /\ outcome'[r] # "running"
         /\ \A s \in Runs : s # r => at'[s] = at[s] /\ outcome'[s] = outcome[s]
<1>1. at \in [Runs -> 1..6] /\ outcome \in [Runs -> Outcomes]
  BY DEF DemoTypeOK
<1>2. CASE Fail(r)
  BY <1>1, <1>2 DEF Fail
<1>3. CASE Advance(r)
  BY <1>1, <1>3 DEF Advance
<1> QED BY <1>2, <1>3 DEF Answered

(* An answer leaves the run that hears it sound, ...                       *)
LEMMA AnsweredIsSound ==
  ASSUME DemoTypeOK, SessionsAreLoaded, NEW r \in Runs, Sound(r),
         outcome[r] = "running",
         NEW status, Answered(r, status) \/ Advance(r) \/ Fail(r),
         ~waiting'[r], FlowsOf(r)' = {}, AnswersFor(r)' = {}, SeenThisStep(r),
         Earned(r)'
  PROVE  Sound(r)'
<1>1. CASE at'[r] = at[r] + 1 /\ outcome'[r] = "running"
  BY <1>1, GoesOnIsSound DEF GoesOn
<1>2. CASE at'[r] = at[r] /\ outcome'[r] # "running"
  BY <1>2, EndedIsSound DEF Ended
<1> QED BY <1>1, <1>2, AnswerEffect

(* ... and steps that send nothing and show nothing to the proxy do not    *)
(* touch the others.                                                       *)
LEMMA QuietNetwork ==
  ASSUME upstream' \subseteq upstream, replies' \subseteq replies,
         dpopJtiSeen' \subseteq dpopJtiSeen, NEW s
  PROVE  /\ FlowsOf(s)' \subseteq FlowsOf(s)
         /\ AnswersFor(s)' \subseteq AnswersFor(s)
         /\ SeenNoMore(s)
         /\ SeenThisStep(s)
BY DEF FlowsOf, AnswersFor, SeenNoMore, SeenThisStep

(* Reading and writing the session sends nothing.                          *)
LEMMA FilesKeepSound ==
  ASSUME DemoTypeOK, SessionsAreLoaded, \A s \in Runs : Sound(s), NEW r \in Runs,
         LoadToken(r) \/ LoadKey(r) \/ WriteToken(r) \/ WriteKey(r)
  PROVE  \A s \in Runs : Sound(s)'
<1>1. /\ outcome[r] = "running" /\ ~waiting[r] /\ waiting' = waiting
      /\ UNCHANGED <<upstream, replies, dpopJtiSeen, revoked>>
  BY DEF LoadToken, LoadKey, WriteToken, WriteKey, CanStep, vars, bindingVars,
         historyVars
<1>2. PICK status : Answered(r, status) \/ Advance(r) \/ Fail(r)
  BY DEF LoadToken, LoadKey, WriteToken, WriteKey
<1>3. session \in [Runs -> Session]
  BY DEF DemoTypeOK
<1>4. session[r] = [token |-> session[r].token, key |-> session[r].key]
  BY <1>3 DEF Session
<1>5. Step(r) \in {"load_token", "load_key", "write_token", "write_key"}
  BY DEF LoadToken, LoadKey, WriteToken, WriteKey, CanStep
<1>6. \/ session' = session
      \/ \E key : session' = [session EXCEPT ![r].key = key]
      \/ LoadToken(r) /\ \E token : session' = [session EXCEPT ![r].token = token]
  BY DEF LoadToken, LoadKey, WriteToken, WriteKey
<1>7. \A s \in Runs : s # r => session'[s] = session[s]
  BY <1>3, <1>6
<1>8. session'[r].token = session[r].token \/ LoadToken(r)
  BY <1>3, <1>4, <1>6
<1>9. LoadToken(r) => ScriptOf[r] # "a" /\ at[r] = 1
  BY ProgramOf DEF LoadToken, CanStep, AskingSteps
<1>10. /\ ScriptOf[r] = "a" => session'[r].token = session[r].token
       /\ at[r] > 3 => session'[r].token = session[r].token
  <2>1. ~(1 > 3)
    OBVIOUS
  <2> QED BY <1>8, <1>9, <2>1
<1>11. Sound(r)'
  <2>1. at'[r] \in {at[r], at[r] + 1}
    BY <1>1, <1>2, AnswerEffect
  <2>2. Earned(r)'
    <3>1. Step(r) \notin {"token", "revoke"}
      BY <1>5
    <3> QED BY <1>1, <1>10, <2>1, <3>1, EarnedAfter DEF Sound
  <2>3. FlowsOf(r) = {} /\ AnswersFor(r) = {}
    BY <1>1 DEF Sound, Awaited
  <2>4. FlowsOf(r)' = {} /\ AnswersFor(r)' = {} /\ SeenThisStep(r)
    BY <1>1, <2>3, QuietNetwork
  <2> QED BY <1>1, <1>2, <2>2, <2>4, AnsweredIsSound
<1>12. ASSUME NEW s \in Runs, s # r  PROVE Sound(s)'
  <2>1. Untouched(s)
    BY <1>1, <1>2, <1>7, <1>12, AnswerEffect, QuietNetwork DEF Untouched
  <2> QED BY <1>1, <2>1, UntouchedIsSound
<1> QED BY <1>11, <1>12

(* Roaming takes a run one step on or ends it, and sends no request.       *)
LEMMA RoamKeepsSound ==
  ASSUME DemoTypeOK, SessionsAreLoaded, \A s \in Runs : Sound(s), NEW r \in Runs,
         Roam(r)
  PROVE  \A s \in Runs : Sound(s)'
<1>1. /\ outcome[r] = "running" /\ ~waiting[r] /\ waiting' = waiting
      /\ UNCHANGED <<upstream, replies, dpopJtiSeen, revoked, session>>
  BY DEF Roam, CanStep, TlsClientHello, vars, bindingVars, historyVars
<1>2. Advance(r) \/ Fail(r)
  BY DEF Roam
<1>3. at'[r] \in {at[r], at[r] + 1}
  BY <1>1, <1>2, AnswerEffect
<1>4. Step(r) \notin {"token", "revoke"}
  BY DEF Roam, CanStep
<1>5. Earned(r)'
  BY <1>1, <1>3, <1>4, EarnedAfter DEF Sound
<1>6. FlowsOf(r) = {} /\ AnswersFor(r) = {}
  BY <1>1 DEF Sound, Awaited
<1>7. FlowsOf(r)' = {} /\ AnswersFor(r)' = {} /\ SeenThisStep(r)
  BY <1>1, <1>6, QuietNetwork
<1>8. Sound(r)'
  BY <1>1, <1>2, <1>5, <1>7, AnsweredIsSound
<1>9. ASSUME NEW s \in Runs, s # r  PROVE Sound(s)'
  <2>1. Untouched(s)
    BY <1>1, <1>2, <1>9, AnswerEffect, QuietNetwork DEF Untouched
  <2> QED BY <1>1, <2>1, UntouchedIsSound
<1> QED BY <1>8, <1>9

(* Where nobody takes a step, runs can only end, and flows and answers get *)
(* lost.                                                                   *)
LEMMA BystandersStaySound ==
  ASSUME DemoTypeOK, SessionsAreLoaded, \A s \in Runs : Sound(s),
         revoked \subseteq revoked', UNCHANGED <<at, session>>,
         upstream' \subseteq upstream, replies' \subseteq replies,
         dpopJtiSeen' \subseteq dpopJtiSeen,
         \A s \in Runs :
           \/ outcome'[s] = outcome[s] /\ waiting'[s] = waiting[s]
           \/ outcome'[s] # "running" /\ ~waiting'[s]
  PROVE  \A s \in Runs : Sound(s)'
<1> SUFFICES ASSUME NEW s \in Runs  PROVE Sound(s)'
  OBVIOUS
<1>1. CASE outcome'[s] = outcome[s] /\ waiting'[s] = waiting[s]
  <2>1. Untouched(s)
    BY <1>1, QuietNetwork DEF Untouched
  <2> QED BY <2>1, UntouchedIsSound
<1>2. CASE outcome'[s] # "running" /\ ~waiting'[s]
  <2>1. Ended(s)
    BY <1>2, QuietNetwork DEF Ended
  <2>2. Earned(s)'
    BY <1>2 DEF Sound, Earned
  <2> QED BY <2>1, <2>2, EndedIsSound
<1> QED BY <1>1, <1>2

(* A request shows one proof to the replay cache.                          *)
LEMMA RequestSees ==
  ASSUME NEW q, Request(q)
  PROVE  dpopJtiSeen' \subseteq dpopJtiSeen \cup {q.proof.jti}
BY DEF Request, RateLimited, MissingProof, InvalidProof, ReplayedProof,
       ForwardTokenRequest, UnboundToken, BlockedByEngine, PassedByEngine,
       StepUpPassed, StepUpRequired, FindsBinding, AcceptsProof, MarkDpopJti,
       bindingVars

(* Asking: the run is told at once, or waits for what is on its way.       *)
LEMMA AskKeepsSound ==
  ASSUME ~AuditMayFail, DemoTypeOK, RunInvariant, \A s \in Runs : Sound(s),
         revoked \subseteq revoked', NEW r \in Runs, Ask(r)
  PROVE  \A s \in Runs : Sound(s)'
<1> DEFINE q == RequestOf(r)
<1>1. SessionsAreLoaded /\ OneThingAwaited /\ ProofsAreOfStepsTaken
  BY SoundRuns DEF RunInvariant
<1>2. /\ outcome[r] = "running" /\ ~waiting[r] /\ Step(r) \in AskingSteps
      /\ FlowsOf(r) = {} /\ AnswersFor(r) = {}
  BY <1>1, AsksAfresh
<1>3. /\ replies' = replies
      /\ dpopJtiSeen' \subseteq dpopJtiSeen \cup {<<r, Step(r)>>}
  <2>1. q.proof.jti = <<r, Step(r)>>
    BY RequestFields
  <2>2. replies' = replies /\ Request(q)
    BY <1>1, AskIsRequest, RequestEffect DEF DemoTypeOK
  <2> HIDE DEF q
  <2> QED BY <2>1, <2>2, RequestSees
<1>4. /\ SeenThisStep(r)
      /\ \A s \in Runs : s # r => SeenNoMore(s)
      /\ \A s : AnswersFor(s)' = AnswersFor(s)
  BY <1>3 DEF SeenThisStep, SeenNoMore, AnswersFor
<1>5. waiting \in [Runs -> BOOLEAN]
  BY DEF DemoTypeOK
<1>6. ASSUME NEW status, Told(r, status), status # 200
      PROVE  \A s \in Runs : Sound(s)'
  <2>1. /\ at'[r] \in {at[r], at[r] + 1} /\ session' = session
        /\ \A s \in Runs : s # r => at'[s] = at[s] /\ outcome'[s] = outcome[s]
    BY <1>1, <1>2, <1>6, AnswerEffect DEF Told
  <2>2. \A s : FlowsOf(s)' = FlowsOf(s)
    BY <1>6 DEF Told, FlowsOf
  <2>3. Step(r) # "revoke"
    BY <1>2 DEF AskingSteps
  <2>4. ScriptOf[r] = "a" /\ Step(r) = "token" => at'[r] = at[r]
    <3>1. ASSUME ScriptOf[r] = "a", Step(r) = "token"
          PROVE  Expected(r) = {200}
      BY <3>1 DEF Expected, Thieves
    <3> QED BY <1>6, <3>1 DEF Told, Answered, Fail
  <2>5. Earned(r)'
    BY <1>1, <2>1, <2>3, <2>4, EarnedAfter DEF Sound
  <2>6. Sound(r)'
    BY <1>1, <1>2, <1>4, <1>6, <2>2, <2>5, AnsweredIsSound DEF Told
  <2>7. ASSUME NEW s \in Runs, s # r  PROVE Sound(s)'
    <3>1. Untouched(s)
      BY <1>4, <1>6, <2>1, <2>2, <2>7 DEF Untouched, Told
    <3> QED BY <3>1, UntouchedIsSound
  <2> QED BY <2>6, <2>7
<1>7. ASSUME Forwarded(r)
      PROVE  \A s \in Runs : Sound(s)'
  <2>1. PICK f : upstream' = upstream \cup {f} /\ \E meta : f = FlowOf(q, meta)
    BY <1>7 DEF Forwarded
  <2>2. /\ f.path = PathOf(r) /\ f.token = session[r].token
        /\ f.proof.jti = <<r, Step(r)>> /\ f.proof.jkt = session[r].key
        /\ f.proof.htu = PathOf(r) /\ f.proof.signed
        /\ f.proof.jti[1] = r
    BY <2>1, RequestFields DEF FlowOf
  <2>3. UNCHANGED <<at, outcome, session>> /\ waiting'[r] = TRUE
    BY <1>5, <1>7 DEF Forwarded
  <2>4. FlowsOf(r)' = {f} /\ \A s \in Runs : s # r => FlowsOf(s)' = FlowsOf(s)
    BY <1>2, <2>1, <2>2 DEF FlowsOf
  <2>5. CarriesRequest(r, f)'
    BY <2>2, <2>3 DEF CarriesRequest, PathOf, Step
  <2>6. Awaited(r)'
    BY <1>2, <1>4, <2>3, <2>4, <2>5 DEF Awaited
  <2>7. Taken(r)'
    <3>1. ASSUME NEW i \in 1..Len(Steps[ScriptOf[r]]),
                 <<r, Steps[ScriptOf[r]][i]>> \in dpopJtiSeen'
          PROVE  i < at[r] \/ i = at[r]
      BY <1>1, <1>4, <3>1, SeenSoFar DEF Sound
    <3> QED BY <2>3, <3>1 DEF Taken
  <2>8. Earned(r)'
    BY <2>3 DEF Sound, Earned
  <2>9. ASSUME NEW s \in Runs, s # r  PROVE Sound(s)'
    <3>1. waiting'[s] = waiting[s]
      BY <1>5, <1>7, <2>9 DEF Forwarded
    <3>2. Untouched(s)
      BY <1>4, <2>3, <2>4, <2>9, <3>1 DEF Untouched
    <3> QED BY <3>2, UntouchedIsSound
  <2> QED BY <2>6, <2>7, <2>8, <2>9 DEF Sound
<1>8. Forwarded(r) \/ \E status : Told(r, status) /\ status # 200
  <2>1. 401 # 200 /\ 429 # 200 /\ 428 # 200
    OBVIOUS
  <2> QED BY <1>1, <2>1, AskEnds
<1> QED BY <1>6, <1>7, <1>8

(* Script E goes on only when it was told that its token is revoked.       *)
LEMMA RevocationKeepsSound ==
  ASSUME ~AuditMayFail, DemoTypeOK, SessionsAreLoaded, \A s \in Runs : Sound(s),
         revoked \subseteq revoked', NEW r \in Runs, AskToRevoke(r)
  PROVE  \A s \in Runs : Sound(s)'
<1>1. /\ outcome[r] = "running" /\ ~waiting[r] /\ Step(r) = "revoke"
      /\ waiting' = waiting /\ session' = session
      /\ UNCHANGED <<upstream, replies, dpopJtiSeen>>
  BY DEF AskToRevoke, CanStep, RevokeToken, RevokeUnknown, HookFrame
<1>2. PICK status : Answered(r, status)
  BY DEF AskToRevoke
<1>3. at'[r] \in {at[r], at[r] + 1}
  BY <1>1, <1>2, AnswerEffect
<1>4. at'[r] # at[r] => session[r].token \in revoked'
  <2>1. CASE RevokeToken(session[r].token)
    BY <2>1 DEF RevokeToken, AuditOutcomes
  <2>2. CASE Answered(r, 404)
    <3>1. ScriptOf[r] = "e"
      BY <1>1, ProgramOf
    <3>2. Expected(r) = {200} /\ 404 # 200
      BY <1>1, <3>1 DEF Expected, Thieves
    <3> QED BY <2>2, <3>2 DEF Answered, Fail
  <2> QED BY <2>1, <2>2 DEF AskToRevoke
<1>5. Earned(r)'
  BY <1>1, <1>3, <1>4, EarnedAfter DEF Sound
<1>6. FlowsOf(r) = {} /\ AnswersFor(r) = {}
  BY <1>1 DEF Sound, Awaited
<1>7. FlowsOf(r)' = {} /\ AnswersFor(r)' = {} /\ SeenThisStep(r)
  BY <1>1, <1>6, QuietNetwork
<1>8. Sound(r)'
  BY <1>1, <1>2, <1>5, <1>7, AnsweredIsSound
<1>9. ASSUME NEW s \in Runs, s # r  PROVE Sound(s)'
  <2>1. Untouched(s)
    BY <1>1, <1>2, <1>9, AnswerEffect, QuietNetwork DEF Untouched
  <2> QED BY <2>1, UntouchedIsSound
<1> QED BY <1>8, <1>9

(* The backend signs a token: the request that a run waits for turns into  *)
(* the answer to it.                                                       *)
LEMMA IssuesKeepSound ==
  ASSUME DemoTypeOK, RunInvariant, MadeAtHome, \A s \in Runs : Sound(s),
         NEW f \in upstream, Issues(f)
  PROVE  \A s \in Runs : Sound(s)'
<1> DEFINE r == f.proof.jti[1]
<1>1. PICK t \in Tokens : BackendIssues(f, t)
  BY DEF Issues
<1>2. PICK reply : /\ reply.meta = f.meta
                   /\ replies' = replies \cup {reply}
  BY <1>1 DEF BackendIssues
<1>3. /\ upstream' = upstream \ {f} /\ f.path = "token"
      /\ UNCHANGED <<at, outcome, waiting, session, dpopJtiSeen, revoked>>
  BY <1>1 DEF Issues, BackendIssues, TokenRequestValid, ServerFrame, bindingVars,
              historyVars, runVars
<1>4. r \in Runs /\ SessionsAreLoaded
  BY RunOfFlow DEF RunInvariant
<1>5. f.meta # None => f.meta.jkt = OwnKey[r]
  BY DEF MadeAtHome
<1>6. ASSUME NEW s \in Runs, f.meta = None \/ s # r
      PROVE  Sound(s)'
  <2>1. AnswersFor(s)' = AnswersFor(s)
    BY <1>2, <1>4, <1>5, <1>6, RunsAssumption DEF AnswersFor
  <2>2. FlowsOf(s)' \subseteq FlowsOf(s)
    BY <1>3 DEF FlowsOf
  <2>3. Untouched(s)
    BY <1>3, <2>1, <2>2 DEF Untouched, SeenNoMore
  <2> QED BY <1>3, <2>3, UntouchedIsSound
<1>7. ASSUME f.meta # None  PROVE Sound(r)'
  <2>1. Taken(r)' /\ Earned(r)'
    BY <1>3, <1>4 DEF Sound, Taken, Earned
  <2>2. ASSUME outcome[r] = "running"
        PROVE  /\ waiting[r] /\ Step(r) = "token"
               /\ FlowsOf(r)' = {} /\ AnswersFor(r)' = {reply}
    <3>1. f \in FlowsOf(r)
      BY DEF FlowsOf
    <3>2. /\ waiting[r] /\ AnswersFor(r) = {} /\ FlowsOf(r) = {f}
          /\ CarriesRequest(r, f)
      BY <1>4, <2>2, <3>1 DEF Sound, Awaited
    <3>3. Step(r) = "token"
      BY <1>3, <3>2 DEF CarriesRequest, PathOf
    <3>4. FlowsOf(r)' = {}
      BY <1>3, <3>2 DEF FlowsOf
    <3>5. AnswersFor(r)' = {reply}
      BY <1>2, <1>5, <1>7, <3>2 DEF AnswersFor
    <3> QED BY <3>2, <3>3, <3>4, <3>5
  <2>3. Awaited(r)'
    BY <1>3, <2>2 DEF Awaited, Step
  <2> QED BY <2>1, <2>3 DEF Sound
<1> QED BY <1>6, <1>7

(* Who hears something over the wire.                                      *)
LEMMA HearsEffect ==
  ASSUME DemoTypeOK, SessionsAreLoaded, RunsHaveAsked, NEW r \in Runs, NEW status,
         Hears(r, status)
  PROVE  /\ ~waiting[r] => UNCHANGED <<at, outcome, waiting>>
         /\ waiting[r] =>
              /\ outcome[r] = "running" /\ Step(r) \in AskingSteps
              /\ Answered(r, status) /\ ~waiting'[r]
              /\ at'[r] \in {at[r], at[r] + 1}
         /\ \A s \in Runs : s # r =>
              at'[s] = at[s] /\ outcome'[s] = outcome[s] /\ waiting'[s] = waiting[s]
<1>1. waiting \in [Runs -> BOOLEAN]
  BY DEF DemoTypeOK
<1>2. CASE ~waiting[r]
  BY <1>2 DEF Hears
<1>3. CASE waiting[r]
  <2>1. /\ outcome[r] = "running" /\ Step(r) \in AskingSteps
        /\ Answered(r, status) /\ waiting' = [waiting EXCEPT ![r] = FALSE]
    BY <1>3 DEF Hears, RunsHaveAsked
  <2>2. /\ at'[r] \in {at[r], at[r] + 1}
        /\ \A s \in Runs : s # r => at'[s] = at[s] /\ outcome'[s] = outcome[s]
    BY <2>1, AnswerEffect
  <2> QED BY <1>1, <1>3, <2>1, <2>2
<1> QED BY <1>2, <1>3

(* The backend answers: the request is no longer on its way.               *)
LEMMA ServesKeepSound ==
  ASSUME DemoTypeOK, RunInvariant, \A s \in Runs : Sound(s), NEW f \in upstream,
         Serves(f)
  PROVE  \A s \in Runs : Sound(s)'
<1> DEFINE r == f.proof.jti[1]
<1>1. /\ upstream' = upstream \ {f}
      /\ UNCHANGED <<replies, session, dpopJtiSeen, revoked>>
  BY DEF Serves, BackendExecutes, BackendRefuses, ServerFrame, bindingVars, historyVars
<1>2. r \in Runs /\ SessionsAreLoaded /\ RunsHaveAsked
  BY RunOfFlow DEF RunInvariant
<1>3. PICK status : /\ Hears(r, status)
                    /\ status = 401 \/ f.path = "api"
  BY DEF Serves, BackendExecutes
<1> HIDE DEF r
<1>4. CASE ~waiting[r]
  <2>1. UNCHANGED <<at, outcome, waiting>>
    BY <1>2, <1>3, <1>4, HearsEffect
  <2> QED BY <1>1, <1>2, <2>1, BystandersStaySound
<1>5. CASE waiting[r]
  <2>1. /\ outcome[r] = "running" /\ Step(r) \in AskingSteps
        /\ Answered(r, status) /\ ~waiting'[r]
        /\ at'[r] \in {at[r], at[r] + 1}
    BY <1>2, <1>3, <1>5, HearsEffect
  <2>2. f \in FlowsOf(r)
    BY DEF FlowsOf, r
  <2>3. FlowsOf(r) = {f} /\ AnswersFor(r) = {} /\ CarriesRequest(r, f)
    BY <1>2, <2>1, <2>2 DEF Sound, Awaited
  <2>4. FlowsOf(r)' = {} /\ AnswersFor(r)' = {} /\ SeenThisStep(r)
    BY <1>1, <2>3 DEF FlowsOf, AnswersFor, SeenThisStep
  <2>5. ScriptOf[r] = "a" /\ Step(r) = "token" => at'[r] = at[r]
    <3> SUFFICES ASSUME ScriptOf[r] = "a", Step(r) = "token"
                 PROVE  at'[r] = at[r]
      OBVIOUS
    <3>1. f.path = "token"
      BY <2>3 DEF CarriesRequest, PathOf
    <3>2. status = 401 /\ Expected(r) = {200} /\ 401 # 200
      BY <1>3, <3>1 DEF Expected, Thieves
    <3> QED BY <2>1, <3>2 DEF Answered, Fail
  <2>6. Step(r) # "revoke"
    BY <2>1 DEF AskingSteps
  <2>7. Earned(r)'
    BY <1>1, <1>2, <2>1, <2>5, <2>6, EarnedAfter DEF Sound
  <2>8. Sound(r)'
    BY <1>2, <2>1, <2>4, <2>7, AnsweredIsSound
  <2>9. ASSUME NEW s \in Runs, s # r  PROVE Sound(s)'
    <3>1. FlowsOf(s)' \subseteq FlowsOf(s) /\ AnswersFor(s)' \subseteq AnswersFor(s)
      BY <1>1 DEF FlowsOf, AnswersFor
    <3>2. Untouched(s)
      BY <1>1, <1>2, <1>3, <2>9, <3>1, HearsEffect DEF Untouched, SeenNoMore
    <3> QED BY <1>1, <3>2, UntouchedIsSound
  <2> QED BY <2>8, <2>9
<1> QED BY <1>4, <1>5

(* The response hook answers a token request: script A has its token.      *)
LEMMA HandingOverKeepsSound ==
  ASSUME DemoTypeOK, RunInvariant, \A s \in Runs : Sound(s), NEW reply \in replies,
         HandsOver(reply)
  PROVE  \A s \in Runs : Sound(s)'
<1> DEFINE r == AskerOf(reply)
<1>1. /\ replies' = replies \ {reply}
      /\ UNCHANGED <<upstream, dpopJtiSeen, revoked>>
  BY DEF HandsOver, BindIssuedToken, HookFrame
<1>2. /\ r \in Runs /\ ScriptOf[r] = "a" /\ OwnKey[r] = reply.meta.jkt
      /\ reply.token \in Tokens /\ reply.meta # None
      /\ SessionsAreLoaded /\ RunsHaveAsked
  BY RunOfReply DEF HandsOver, BindIssuedToken, Bindable, RunInvariant
<1>3. /\ Hears(r, 200)
      /\ session' = IF waiting[r] THEN [session EXCEPT ![r].token = reply.token]
                                  ELSE session
  BY DEF HandsOver
<1> HIDE DEF r
<1>4. CASE ~waiting[r]
  <2>1. UNCHANGED <<at, outcome, waiting, session>>
    BY <1>2, <1>3, <1>4, HearsEffect
  <2> QED BY <1>1, <1>2, <2>1, BystandersStaySound
<1>5. CASE waiting[r]
  <2>1. /\ outcome[r] = "running" /\ Step(r) \in AskingSteps
        /\ Answered(r, 200) /\ ~waiting'[r]
        /\ at'[r] \in {at[r], at[r] + 1}
    BY <1>2, <1>3, <1>5, HearsEffect
  <2>2. /\ session'[r].token = reply.token
        /\ \A s \in Runs : s # r => session'[s] = session[s]
    BY <1>2, <1>3, <1>5 DEF DemoTypeOK, Session
  <2>3. reply \in AnswersFor(r)
    BY <1>2 DEF AnswersFor
  <2>4. AnswersFor(r) = {reply} /\ FlowsOf(r) = {}
    BY <1>2, <2>1, <2>3 DEF Sound, Awaited
  <2>5. FlowsOf(r)' = {} /\ AnswersFor(r)' = {} /\ SeenThisStep(r)
    BY <1>1, <2>4 DEF FlowsOf, AnswersFor, SeenThisStep
  <2>6. Step(r) # "revoke"
    BY <2>1 DEF AskingSteps
  <2>7. Earned(r)'
    BY <1>1, <1>2, <2>1, <2>2, <2>6, EarnedAfter DEF Sound
  <2>8. Sound(r)'
    BY <1>2, <2>1, <2>5, <2>7, AnsweredIsSound
  <2>9. ASSUME NEW s \in Runs, s # r  PROVE Sound(s)'
    <3>1. FlowsOf(s)' \subseteq FlowsOf(s) /\ AnswersFor(s)' \subseteq AnswersFor(s)
      BY <1>1 DEF FlowsOf, AnswersFor
    <3>2. Untouched(s)
      BY <1>1, <1>2, <1>3, <2>2, <2>9, <3>1, HearsEffect DEF Untouched, SeenNoMore
    <3> QED BY <1>1, <3>2, UntouchedIsSound
  <2> QED BY <2>8, <2>9
<1> QED BY <1>4, <1>5

(* Whatever happens, every run stays sound.                                *)
LEMMA RunsStaySound ==
  ASSUME Rehearsed, DemoTypeOK, RunInvariant, MadeAtHome, \A s \in Runs : Sound(s),
         [DemoNext]_demoVars
  PROVE  \A s \in Runs : Sound(s)'
<1>1. SessionsAreLoaded /\ RunsHaveAsked /\ ~AuditMayFail
  BY DEF RunInvariant, Rehearsed, Staged
<1>2. revoked \subseteq revoked'
  BY <1>1, DemoStepIsStep, TokensAreKept DEF DemoTypeOK
<1>3. outcome \in [Runs -> Outcomes] /\ waiting \in [Runs -> BOOLEAN]
  BY DEF DemoTypeOK
<1>4. ASSUME NEW r \in Runs, RunStep(r)  PROVE \A s \in Runs : Sound(s)'
  <2>1. CASE LoadToken(r) \/ LoadKey(r) \/ WriteToken(r) \/ WriteKey(r)
    BY <1>1, <2>1, FilesKeepSound
  <2>2. CASE Roam(r)
    BY <1>1, <2>2, RoamKeepsSound
  <2>3. CASE Connect(r)
    <3>1. /\ UNCHANGED <<at, outcome, waiting, session>>
          /\ UNCHANGED <<upstream, replies, dpopJtiSeen>>
      BY <2>3 DEF Connect, TlsClientHello, bindingVars, runVars
    <3> QED BY <1>1, <1>2, <3>1, BystandersStaySound
  <2>4. CASE Ask(r)
    BY <1>1, <1>2, <2>4, AskKeepsSound
  <2>5. CASE AskToRevoke(r)
    BY <1>1, <1>2, <2>5, RevocationKeepsSound
  <2>6. CASE TimesOut(r)
    <3>1. /\ UNCHANGED <<at, session, upstream, replies, dpopJtiSeen>>
          /\ outcome' = [outcome EXCEPT ![r] = "LOST"]
          /\ waiting' = [waiting EXCEPT ![r] = FALSE]
      BY <2>6 DEF TimesOut, GiveUp, vars, bindingVars
    <3>2. \A s \in Runs :
            \/ outcome'[s] = outcome[s] /\ waiting'[s] = waiting[s]
            \/ outcome'[s] # "running" /\ ~waiting'[s]
      BY <1>3, <3>1
    <3> QED BY <1>1, <1>2, <3>1, <3>2, BystandersStaySound
  <2> QED BY <1>4, <2>1, <2>2, <2>3, <2>4, <2>5, <2>6 DEF RunStep
<1>5. ASSUME NEW f \in upstream, Issues(f) \/ Serves(f)
      PROVE  \A s \in Runs : Sound(s)'
  BY <1>5, IssuesKeepSound, ServesKeepSound
<1>6. ASSUME NEW reply \in replies, HandsOver(reply)
      PROVE  \A s \in Runs : Sound(s)'
  BY <1>6, HandingOverKeepsSound
<1>7. ASSUME Restarts  PROVE \A s \in Runs : Sound(s)'
  <2>1. /\ UNCHANGED <<at, session>>
        /\ upstream' \subseteq upstream /\ replies' \subseteq replies
        /\ dpopJtiSeen' \subseteq dpopJtiSeen
    BY <1>7 DEF Restarts, LoseAll, ProxyRestarts, BackendRestarts, bindingVars
  <2>2. PICK runs : LoseAll(runs)
    BY <1>7 DEF Restarts
  <2>3. \A s \in Runs :
          \/ outcome'[s] = outcome[s] /\ waiting'[s] = waiting[s]
          \/ outcome'[s] # "running" /\ ~waiting'[s]
    BY <1>3, <2>2 DEF LoseAll
  <2> QED BY <1>1, <1>2, <2>1, <2>3, BystandersStaySound
<1>8. CASE UNCHANGED <<at, outcome, waiting, session, upstream, replies, dpopJtiSeen>>
  BY <1>1, <1>2, <1>8, BystandersStaySound
<1> QED
  BY <1>4, <1>5, <1>6, <1>7, <1>8
  DEF DemoNext, BringAliasUp, Tick, demoVars, vars, bindingVars, runVars

(***************************************************************************)
(* The invariant.                                                          *)
(***************************************************************************)
LEMMA CauseInit ==
  ASSUME DemoInit
  PROVE  CauseInvariant
<1>1. /\ at = [r \in Runs |-> 1] /\ upstream = {} /\ replies = {}
      /\ dpopJtiSeen = {} /\ tokenFile = None
      /\ waiting = [r \in Runs |-> FALSE]
      /\ session = [r \in Runs |->
                      [token |-> None, key |-> OwnKey[r]]]
      /\ bindings = [t \in Tokens |-> None]
  BY DEF DemoInit, Init, ProxyInit, BindingStoreInit
<1>2. MadeAtHome
  BY <1>1 DEF MadeAtHome
<1>3. OneThingAwaited /\ ProofsAreOfStepsTaken
  BY <1>1 DEF OneThingAwaited, ProofsAreOfStepsTaken, FlowsOf, AnswersFor
<1>4. HeldTokensAreKnown
  BY <1>1 DEF HeldTokensAreKnown, Held
<1>5. StepsAreEarned
  <2>1. ~(1 > 1) /\ ~(1 > 4)
    OBVIOUS
  <2> QED BY <1>1, <2>1 DEF StepsAreEarned
<1> QED BY <1>2, <1>3, <1>4, <1>5 DEF CauseInvariant

(* The invariant is inductive, given what holds of the proxy whoever asks. *)
LEMMA CauseStep ==
  ASSUME Rehearsed, DemoTypeOK, RunInvariant, SenderInvariant, TokensExpireFirst,
         CauseInvariant, [DemoNext]_demoVars
  PROVE  CauseInvariant'
<1>1. MadeAtHome' /\ HeldTokensAreKnown'
  BY TokensStayMadeAtHome, HeldTokensStayKnown DEF CauseInvariant, Rehearsed, Staged
<1>2. \A s \in Runs : Sound(s)'
  BY SoundRuns, RunsStaySound DEF CauseInvariant
<1>3. (OneThingAwaited /\ ProofsAreOfStepsTaken /\ StepsAreEarned)'
  BY <1>2 DEF Sound, Awaited, Taken, Earned, OneThingAwaited, ProofsAreOfStepsTaken,
              StepsAreEarned
<1> QED BY <1>1, <1>3 DEF CauseInvariant

(***************************************************************************)
(* The causes.                                                             *)
(***************************************************************************)

(* Only an answer that is not expected is a FAIL.                          *)
LEMMA FailIsUnexpected ==
  ASSUME DemoTypeOK, SessionsAreLoaded, NEW r \in Runs, outcome[r] = "running",
         outcome'[r] = "FAIL"
  PROVE  /\ ~Advance(r)
         /\ \A status : Answered(r, status) => status \notin Expected(r)
<1>1. outcome \in [Runs -> Outcomes]
  BY DEF DemoTypeOK
<1>2. ~Advance(r)
  BY <1>1 DEF Advance
<1> QED BY <1>2 DEF Answered

(* Who asks an API has a token, one that is known.                         *)
LEMMA AskersHaveTokens ==
  ASSUME DemoTypeOK, SessionsAreLoaded, CauseInvariant, NEW r \in Runs,
         Step(r) \in AskingSteps \cup {"revoke"}, Step(r) # "token"
  PROVE  /\ session[r].token \in Tokens /\ session[r].token # None
         /\ Known(session[r].token)
<1>1. session[r].token # None
  <2>1. at[r] \in Nat /\ at[r] # 0
    BY DEF DemoTypeOK
  <2>2. CASE ScriptOf[r] = "a"
    <3>1. at[r] # 1
      BY <2>2, PlaceOfStep
    <3> QED BY <2>1, <2>2, <3>1 DEF CauseInvariant, StepsAreEarned
  <2>3. CASE ScriptOf[r] # "a"
    <3>1. at[r] # 1
      BY <2>3, ProgramOf
    <3> QED BY <2>3, <3>1 DEF SessionsAreLoaded
  <2> QED BY <2>2, <2>3
<1>2. session[r].token \in Tokens
  BY <1>1, SessionTyped DEF Optional
<1>3. Known(session[r].token)
  BY <1>1 DEF CauseInvariant, HeldTokensAreKnown, Held, Known
<1> QED BY <1>1, <1>2, <1>3

(* A token that the proxy does not find is not good any more.              *)
LEMMA LostTokenIsBad ==
  ASSUME DemoTypeOK, TokensExpireFirst, NEW r \in Runs, session[r].token \in Tokens,
         session[r].token # None, Known(session[r].token),
         Found(session[r].token, now) = None
  PROVE  ~TokenIsGood(r)
<1> DEFINE t == session[r].token
<1>1. /\ now \in Nat /\ TokenTTL \in Nat /\ tokens[t].exp \in Nat
      /\ bindings[t] # None => bindings[t].issued_at \in Nat
  BY ExpiryTypes DEF DemoTypeOK, Known
<1>2. CASE bindings[t] = None
  BY <1>1, <1>2 DEF Known, TokenIsGood, TokenVerifies
<1>3. CASE bindings[t] # None
  <2>1. Expired(t, now)
    BY <1>3, NoneAssumption DEF Found
  <2>2. tokens[t].exp <= bindings[t].issued_at + TokenTTL
    BY <1>3 DEF TokensExpireFirst
  <2>3. ~(now < tokens[t].exp)
    BY <1>1, <1>3, <2>1, <2>2 DEF Expired
  <2> QED BY <2>3 DEF TokenIsGood, TokenVerifies
<1> QED BY <1>2, <1>3

(* What the engine holds against a legitimate run.                         *)
LEMMA EngineOnLegitimate ==
  ASSUME Rehearsed, DemoTypeOK, RunInvariant, SenderInvariant, CauseInvariant,
         NEW r \in Legitimate, Ask(r), Found(RequestOf(r).token, now) # None
  PROVE  /\ DecisionOn(RequestOf(r)).outcome = "BLOCK"
              => ~(SessionIsWhole(r) /\ TokenIsGood(r))
         /\ ~InChallengeBand(DecisionOn(RequestOf(r)))
<1> DEFINE q == RequestOf(r)
           b == bindings[q.token]
           risk == Risk(b, Source(q), q.ja4h)
<1>1. r \in Runs /\ SessionsAreLoaded /\ Conn(r) \in connected
  BY DEF Legitimate, RunInvariant, Ask
<1>2. /\ q.token = session[r].token /\ q.proof.jkt = session[r].key
      /\ q.conn = Conn(r) /\ q.ja4h = HeadersSent[r]
  BY <1>1, RequestFields
<1> HIDE DEF q
<1>3. q.token \in Tokens /\ b # None /\ Found(q.token, now) = b
  <2>1. q.token \in Optional(Tokens)
    BY <1>1, <1>2, SessionTyped
  <2> QED BY <2>1, FoundIsBound DEF q, Optional
<1>4. PICK o \in Runs : /\ ScriptOf[o] = "a"
                        /\ b.ja4 = StackOf[o] /\ b.ja4h = HeadersSent[o]
  BY <1>3 DEF RunInvariant, TokensAreOfScriptA, OfScriptA
<1>5. StackOf[r] = b.ja4 /\ HeadersSent[r] = b.ja4h
  BY <1>1, <1>4 DEF Rehearsed, Legitimate
<1>6. Presented(q) = b.ja4
  BY <1>1, <1>2, <1>5, ConnOfRun DEF Presented, RunInvariant, ConnectionsAreTheirs
<1>7. ~Ja4hDelta(b, q.ja4h)
  BY <1>2, <1>5 DEF Ja4hDelta
<1>8. ~IpDelta(b, Source(q))
  <2>1. b.source_ip = "home"
    BY <1>3 DEF CauseInvariant, MadeAtHome
  <2>2. Source(q) = "home"
    BY <1>1, <1>2, ConnOfRun DEF Source
  <2> QED BY <2>1, <2>2 DEF IpDelta
<1>9. /\ risk = 0
      /\ RiskThreshold \in Nat /\ RiskThreshold # 0
      /\ ChallengeThreshold \in Nat /\ ChallengeThreshold # 0
  BY <1>7, <1>8, PolicyAssumption DEF AcceptedPolicy, Rehearsed, Risk
<1>10. DecisionOn(q) = Evaluate(b, b.ja4, [valid |-> TRUE, jkt |-> session[r].key],
                                Source(q), q.ja4h)
  BY <1>2, <1>3, <1>6 DEF DecisionOn
<1>11. DecisionOn(q).risk = risk
  BY <1>10 DEF Evaluate
<1>12. ASSUME DecisionOn(q).outcome = "BLOCK"
       PROVE  ~(SessionIsWhole(r) /\ TokenIsGood(r))
  <2>1. ~(risk >= RiskThreshold)
    BY <1>9
  <2>2. b.revoked \/ session[r].key # b.jkt
    <3> DEFINE dpop == [valid |-> TRUE, jkt |-> session[r].key]
    <3>1. Reason(b, b.ja4, dpop, Source(q), q.ja4h) # "ok"
      BY <1>10, <1>12 DEF Evaluate
    <3>2. dpop.valid /\ dpop.jkt = session[r].key
      OBVIOUS
    <3> HIDE DEF dpop, b
    <3> QED BY <2>1, <3>1, <3>2 DEF Reason, IsRevoked, Ja4Matches
  <2>3. b.revoked => session[r].token \in revoked
    BY <1>2, <1>3 DEF CauseInvariant, HeldTokensAreKnown
  <2>4. b.jkt = tokens[session[r].token].jkt
    BY <1>2, <1>3 DEF SenderInvariant, BindingMatchesToken
  <2> QED BY <2>2, <2>3, <2>4 DEF SessionIsWhole, TokenIsGood
<1>13. ~InChallengeBand(DecisionOn(q))
  BY <1>9, <1>11 DEF InChallengeBand
<1> QED BY <1>12, <1>13 DEF q

(* A request that the proxy turns away.                                    *)
LEMMA AskFailsForACause ==
  ASSUME Rehearsed, DemoTypeOK, TheftInvariant, SenderInvariant, TokensExpireFirst,
         CauseInvariant, NEW r \in Runs, Ask(r), outcome'[r] = "FAIL"
  PROVE  Cause(r)
<1> DEFINE q == RequestOf(r)
<1>1. /\ RunInvariant /\ SessionsAreLoaded /\ Staged /\ ~AuditMayFail
      /\ OneThingAwaited /\ ProofsAreOfStepsTaken
  BY DEF TheftInvariant, RunInvariant, Rehearsed, Staged, CauseInvariant
<1>2. /\ outcome[r] = "running" /\ Step(r) \in AskingSteps /\ Conn(r) \in connected
  BY DEF Ask, CanStep
<1>3. /\ q.token = session[r].token
      /\ q.path = PathOf(r) /\ q.conn = Conn(r)
  BY RequestFields
<1> HIDE DEF q
<1>4. ASSUME NEW status, Told(r, status)  PROVE status \notin Expected(r)
  BY <1>1, <1>2, <1>4, FailIsUnexpected DEF Told
<1>5. 401 \notin Expected(r) => r \in Legitimate
  <2>1. ScriptOf[r] \in Scripts
    BY <1>1, ScriptOfRun
  <2>2. ScriptOf[r] = "replay" => 401 \in Expected(r)
    BY DEF Expected
  <2>3. r \in Thieves => 401 \in Expected(r)
    BY DEF Expected, Thieves
  <2>4. ScriptOf[r] # "f"
    BY <1>1, <1>2, PlaceOfStep
  <2> QED BY <2>1, <2>2, <2>3, <2>4 DEF Scripts, Thieves, Legitimate
<1>6. CASE RateLimited(q) /\ Told(r, 429)
  <2>1. Step(r) = "token" /\ ~Allowed(Presented(q), now)
    BY <1>3, <1>6 DEF RateLimited, PathOf
  <2>2. Presented(q) = StackOf[r]
    BY <1>1, <1>2, <1>3, ConnOfRun DEF Presented, RunInvariant, ConnectionsAreTheirs
  <2> QED BY <2>1, <2>2 DEF Cause
<1>7. CASE UnboundToken(q)
  <2>1. Step(r) # "token" /\ Found(session[r].token, now) = None
    BY <1>3, <1>7 DEF UnboundToken, PathOf
  <2>2. session[r].token # None /\ ~TokenIsGood(r)
    BY <1>1, <1>2, <2>1, AskersHaveTokens, LostTokenIsBad
  <2> QED BY <2>2 DEF Cause
<1>8. CASE BlockedByEngine(q) /\ Told(r, 401)
  <2>1. r \in Legitimate
    BY <1>4, <1>5, <1>8
  <2>2. /\ Step(r) # "token" /\ Found(q.token, now) # None
        /\ DecisionOn(q).outcome = "BLOCK"
    BY <1>3, <1>8 DEF BlockedByEngine, FindsBinding, AcceptsProof, PathOf
  <2>3. ~(SessionIsWhole(r) /\ TokenIsGood(r))
    BY <1>1, <2>1, <2>2, EngineOnLegitimate DEF q
  <2>4. session[r].token # None
    BY <1>1, <1>2, <2>2, AskersHaveTokens
  <2> QED BY <2>3, <2>4 DEF Cause
<1>9. CASE StepUpRequired(q) /\ Told(r, 428)
  <2>1. Found(q.token, now) # None /\ InChallengeBand(DecisionOn(q))
    BY <1>9 DEF StepUpRequired, FindsBinding
  <2>2. r \in Legitimate
    <3>1. r \notin Thieves
      BY <1>1, <2>1, PassIsOfScriptA DEF InChallengeBand, q
    <3>2. ScriptOf[r] # "replay"
      BY <1>4, <1>9 DEF Expected
    <3>3. ScriptOf[r] # "f"
      BY <1>1, <1>2, PlaceOfStep
    <3>4. ScriptOf[r] \in Scripts
      BY <1>1, ScriptOfRun
    <3> QED BY <3>1, <3>2, <3>3, <3>4 DEF Thieves, Scripts, Legitimate
  <2> QED BY <1>1, <2>1, <2>2, EngineOnLegitimate DEF q
<1>10. CASE Forwarded(r)
  BY <1>2, <1>10 DEF Forwarded
<1> QED BY <1>1, <1>6, <1>7, <1>8, <1>9, <1>10, AskEnds DEF q

(* What a script does on its own.                                          *)
LEMMA StepFailsForACause ==
  ASSUME Rehearsed, DemoTypeOK, TheftInvariant, SenderInvariant, TokensExpireFirst,
         CauseInvariant, NEW r \in Runs, RunStep(r), outcome[r] # "FAIL",
         outcome'[r] = "FAIL"
  PROVE  Cause(r)
<1>1. SessionsAreLoaded /\ RunsHaveAsked
  BY DEF TheftInvariant, RunInvariant
<1>2. CASE LoadToken(r)
  <2>1. outcome[r] = "running" /\ Step(r) = "load_token"
    BY <1>2 DEF LoadToken, CanStep
  <2> QED BY <1>1, <1>2, <2>1, FailIsUnexpected DEF LoadToken, Cause
<1>3. CASE LoadKey(r)
  <2>1. outcome[r] = "running" /\ Step(r) = "load_key"
    BY <1>3 DEF LoadKey, CanStep
  <2> QED BY <1>1, <1>3, <2>1, FailIsUnexpected DEF LoadKey, Cause
<1>4. CASE WriteToken(r) \/ WriteKey(r)
  <2>1. outcome[r] = "running" /\ Advance(r)
    BY <1>4 DEF WriteToken, WriteKey, CanStep
  <2> QED BY <1>1, <2>1, FailIsUnexpected
<1>5. CASE Roam(r)
  <2>1. outcome[r] = "running" /\ Step(r) = "roam"
    BY <1>5 DEF Roam, CanStep
  <2>2. ScriptOf[r] = "f"
    BY <1>1, <1>5, <2>1, FailIsUnexpected DEF Roam
  <2> QED BY <2>1, <2>2 DEF Cause
<1>6. CASE Connect(r)
  BY <1>6 DEF Connect, runVars
<1>7. CASE Ask(r)
  BY <1>7, AskFailsForACause
<1>8. CASE AskToRevoke(r)
  <2>1. outcome[r] = "running" /\ Step(r) = "revoke"
    BY <1>8 DEF AskToRevoke, CanStep
  <2>2. ScriptOf[r] = "e"
    BY <1>1, <2>1, ProgramOf
  <2>3. 200 \in Expected(r)
    BY <2>1, <2>2 DEF Expected, Thieves
  <2>4. RevokeUnknown(session[r].token)
    BY <1>1, <1>8, <2>1, <2>3, FailIsUnexpected DEF AskToRevoke
  <2>5. /\ session[r].token \in Tokens /\ session[r].token # None
        /\ Known(session[r].token)
    BY <1>1, <2>1, AskersHaveTokens
  <2>6. Found(session[r].token, now) = None
    BY <2>4, <2>5 DEF RevokeUnknown, Revocable, Found
  <2> QED BY <2>5, <2>6, LostTokenIsBad DEF Cause
<1>9. CASE TimesOut(r)
  <2>1. outcome' = [outcome EXCEPT ![r] = "LOST"] /\ outcome \in [Runs -> Outcomes]
    BY <1>9 DEF TimesOut, GiveUp, DemoTypeOK
  <2>2. outcome'[r] = "LOST"
    BY <2>1
  <2> QED BY <2>2
<1> QED BY <1>2, <1>3, <1>4, <1>5, <1>6, <1>7, <1>8, <1>9 DEF RunStep

(* An answer of the backend.                                               *)
LEMMA AnswerFailsForACause ==
  ASSUME DemoTypeOK, TheftInvariant, CauseInvariant, NEW f \in upstream, Serves(f),
         NEW r \in Runs, r = f.proof.jti[1], outcome[r] # "FAIL", outcome'[r] = "FAIL"
  PROVE  Cause(r)
<1>1. /\ SessionsAreLoaded /\ RunsHaveAsked /\ OneThingAwaited /\ StepsAreEarned
      /\ f.proof # None
  BY DEF TheftInvariant, RunInvariant, CauseInvariant, RunsHaveAsked
<1>2. PICK status : Hears(r, status)
  BY DEF Serves
<1>3. waiting[r] /\ outcome[r] = "running" /\ Step(r) \in AskingSteps
  BY <1>1, <1>2, HearsEffect
<1>4. CarriesRequest(r, f)
  <2>1. f \in FlowsOf(r)
    BY DEF FlowsOf
  <2> QED BY <1>1, <1>3, <2>1 DEF OneThingAwaited
<1>5. \A s : Hears(r, s) => s \notin Expected(r)
  BY <1>1, <1>3, FailIsUnexpected DEF Hears
<1>6. Step(r) # "token" => session[r].token # None
  BY <1>1, <1>3, AskersHaveTokens
<1>7. CASE BackendExecutes(f) /\ Hears(r, 200)
  <2>1. 200 \notin Expected(r)
    BY <1>5, <1>7
  <2>2. r \notin Thieves
    BY <1>3 DEF TheftInvariant, ThievesGetNowhere
  <2>3. ScriptOf[r] # "replay"
    BY <2>1 DEF Expected
  <2>4. Step(r) = "accounts_again"
    BY <2>1, <2>2, <2>3 DEF Expected
  <2>5. ScriptOf[r] = "e" /\ at[r] = 5
    BY <1>1, <2>4, PlaceOfStep
  <2>6. session[r].token \in revoked
    <3>1. 5 > 4
      OBVIOUS
    <3> QED BY <1>1, <2>5, <3>1 DEF StepsAreEarned
  <2> QED BY <1>6, <2>4, <2>6 DEF Cause, TokenIsGood
<1>8. CASE BackendRefuses(f)
  <2>1. \A path : path = PathOf(r) =>
          (ValidDpop(f.proof, path, now) <=> FreshProof(f.proof, now))
    BY <1>4 DEF CarriesRequest, ValidDpop
  <2>2. ~FreshProof(f.proof, now) => ProofIsOld(r)
    BY DEF ProofIsOld
  <2>3. CASE Step(r) = "token"
    <3>1. f.path = "token" /\ PathOf(r) = "token"
      BY <1>4, <2>3 DEF CarriesRequest, PathOf
    <3>2. ~ValidDpop(f.proof, "token", now)
      BY <1>1, <1>8, <3>1 DEF BackendRefuses, TokenRequestValid
    <3> QED BY <2>1, <2>2, <3>1, <3>2 DEF Cause
  <2>4. CASE Step(r) # "token"
    <3>1. f.path = "api" /\ PathOf(r) = "api"
      BY <1>4, <2>4 DEF CarriesRequest, PathOf
    <3>2. ~Authenticates(f.token, f.proof, now)
      BY <1>8, <3>1 DEF BackendRefuses
    <3>3. f.token = session[r].token /\ f.proof.jkt = session[r].key
      BY <1>4 DEF CarriesRequest
    <3>4. \/ ~TokenVerifies(session[r].token, now)
          \/ ~FreshProof(f.proof, now)
          \/ session[r].key # tokens[session[r].token].jkt
      BY <1>1, <2>1, <3>1, <3>2, <3>3 DEF Authenticates
    <3> QED BY <1>6, <2>2, <2>4, <3>4 DEF Cause, TokenIsGood, SessionIsWhole
  <2> QED BY <2>3, <2>4
<1> QED BY <1>7, <1>8 DEF Serves

(* A run fails by a step of its own or by an answer of the backend.        *)
LEMMA CausesOfFailure ==
  ASSUME Rehearsed, DemoTypeOK, TheftInvariant, SenderInvariant, TokensExpireFirst,
         CauseInvariant, DemoNext, NEW r \in Runs, outcome[r] # "FAIL",
         outcome'[r] = "FAIL"
  PROVE  Cause(r)
<1>1. RunInvariant /\ SessionsAreLoaded /\ RunsHaveAsked
  BY DEF TheftInvariant, RunInvariant
<1>2. ASSUME NEW s \in Runs, RunStep(s)  PROVE Cause(r)
  <2>1. CASE s = r
    BY <1>2, <2>1, StepFailsForACause
  <2>2. CASE s # r
    <3>1. outcome'[r] = outcome[r]
      <4>1. CASE \E status : outcome[s] = "running" /\
                   (Answered(s, status) \/ Advance(s) \/ Fail(s))
        BY <1>1, <2>2, <4>1, AnswerEffect
      <4>2. CASE UNCHANGED outcome
        BY <4>2
      <4>3. CASE outcome' = [outcome EXCEPT ![s] = "LOST"]
        BY <2>2, <4>3 DEF DemoTypeOK
      <4> QED BY <1>2, <4>1, <4>2, <4>3
        DEF RunStep, LoadToken, LoadKey, WriteToken, WriteKey, Roam, Connect,
            Ask, AskToRevoke, TimesOut, GiveUp, CanStep, runVars
    <3> QED BY <3>1
  <2> QED BY <2>1, <2>2
<1>3. ASSUME NEW f \in upstream, Serves(f)  PROVE Cause(r)
  <2>1. f.proof.jti[1] \in Runs
    BY <1>1, RunOfFlow
  <2>2. CASE f.proof.jti[1] = r
    BY <1>3, <2>2, AnswerFailsForACause
  <2>3. CASE f.proof.jti[1] # r
    <3>1. \E status : Hears(f.proof.jti[1], status)
      BY <1>3 DEF Serves
    <3> QED BY <1>1, <2>1, <2>3, <3>1, HearsEffect
  <2> QED BY <2>2, <2>3
<1>4. ASSUME NEW reply \in replies, HandsOver(reply)  PROVE Cause(r)
  <2> DEFINE s == AskerOf(reply)
  <2>1. /\ s \in Runs /\ ScriptOf[s] = "a" /\ OwnKey[s] = reply.meta.jkt
        /\ reply.meta # None
    BY <1>1, <1>4, RunOfReply DEF HandsOver, BindIssuedToken, Bindable, RunInvariant
  <2>2. Hears(s, 200)
    BY <1>4 DEF HandsOver
  <2> HIDE DEF s
  <2>3. s = r /\ waiting[r] /\ outcome[r] = "running"
    BY <1>1, <2>1, <2>2, HearsEffect
  <2>4. reply \in AnswersFor(r)
    BY <2>1, <2>3 DEF AnswersFor
  <2>5. Step(r) = "token"
    BY <2>3, <2>4 DEF CauseInvariant, OneThingAwaited
  <2>6. 200 \in Expected(r)
    BY <2>1, <2>3, <2>5 DEF Expected, Thieves
  <2> QED BY <1>1, <2>2, <2>3, <2>6, FailIsUnexpected DEF Hears
<1>5. ASSUME Restarts  PROVE FALSE
  <2>1. PICK runs : LoseAll(runs)
    BY <1>5 DEF Restarts
  <2> QED BY <2>1 DEF LoseAll
<1>6. CASE UNCHANGED outcome
  BY <1>6
<1> QED BY <1>2, <1>3, <1>4, <1>5, <1>6
        DEF DemoNext, Issues, BringAliasUp, Tick, runVars

(* A script fails for a cause that its reader can find, for any number of  *)
(* runs of any script, however they overlap, whichever files they read,    *)
(* whatever is lost or late, and whoever restarts.                         *)
THEOREM ScriptsFailForACause ==
  ASSUME Rehearsed
  PROVE  DemoSpec => FailsForACause
<1>1. DemoInit => CauseInvariant
  BY CauseInit
<1>2. DemoTypeOK /\ TheftInvariant /\ SenderInvariant /\ TokensExpireFirst
        /\ CauseInvariant /\ [DemoNext]_demoVars
          => CauseInvariant'
  <2> SUFFICES ASSUME DemoTypeOK, TheftInvariant, SenderInvariant, TokensExpireFirst,
                      CauseInvariant, [DemoNext]_demoVars
               PROVE  CauseInvariant'
    OBVIOUS
  <2>1. RunInvariant
    BY DEF TheftInvariant
  <2> QED BY <2>1, CauseStep
<1>3. DemoTypeOK /\ TheftInvariant /\ SenderInvariant /\ TokensExpireFirst
        /\ CauseInvariant /\ [DemoNext]_demoVars
        => [\A r \in Runs :
              outcome[r] # "FAIL" /\ outcome'[r] = "FAIL" => Cause(r)]_demoVars
  <2> SUFFICES ASSUME DemoTypeOK, TheftInvariant, SenderInvariant, TokensExpireFirst,
                      CauseInvariant, DemoNext, NEW r \in Runs,
                      outcome[r] # "FAIL", outcome'[r] = "FAIL"
               PROVE  Cause(r)
    OBVIOUS
  <2> QED BY CausesOfFailure
<1>4. Spec => []TokensExpireFirst
  BY TypeCorrect, SenderInvariantHolds, ExpiryInit, ExpiryStep, PTL DEF Spec
<1>5. DemoSpec => [](DemoTypeOK /\ TheftInvariant)
  BY TheftInvariantHolds DEF Rehearsed
<1>6. DemoSpec => []CauseInvariant
  BY <1>1, <1>2, <1>4, <1>5, DemoIsSystem, SenderInvariantHolds, PTL DEF DemoSpec
<1>7. DemoSpec => [][\A r \in Runs :
         outcome[r] # "FAIL" /\ outcome'[r] = "FAIL" => Cause(r)]_demoVars
  BY <1>3, <1>4, <1>5, <1>6, DemoIsSystem, SenderInvariantHolds, PTL DEF DemoSpec
<1> QED BY <1>7 DEF FailsForACause
=============================================================================
