--------------------------- MODULE ChallengeStore ---------------------------
(***************************************************************************)
(* ChallengeStore (proxy/challenge_store.py): at most one outstanding      *)
(* step-up nonce per token.  secrets.token_urlsafe never repeats, so the   *)
(* n-th nonce drawn is the number n; 0 is a proof that carries no nonce.   *)
(***************************************************************************)
EXTENDS Identities, Integers

CONSTANT ChallengeTTL    (* config.CHALLENGE_TTL_SECONDS                    *)

ASSUME ChallengeTTLAssumption == ChallengeTTL \in Nat

VARIABLES
  challenges,    (* [Tokens -> Challenge or None]: the _challenges dict     *)
  noncesDrawn    (* how many nonces have been drawn so far                  *)

challengeVars == <<challenges, noncesDrawn>>

Challenge == [nonce: Nat \ {0}, issued_at: Nat]

ASSUME NoneIsNoChallenge == None \notin Challenge

NoNonce == 0

ChallengeStoreTypeOK ==
  /\ challenges \in [Tokens -> Optional(Challenge)]
  /\ noncesDrawn \in Nat

ChallengeStoreInit ==
  /\ challenges = [t \in Tokens |-> None]
  /\ noncesDrawn = 0

(* issue(t) replaces whatever challenge was outstanding for t.             *)
IssueChallenge(t, time) ==
  /\ noncesDrawn' = noncesDrawn + 1
  /\ challenges' = [challenges EXCEPT ![t] =
       [nonce |-> noncesDrawn + 1, issued_at |-> time]]

ChallengeExpired(t, time) == time - challenges[t].issued_at > ChallengeTTL

(* A bug: an answer is good however old the challenge.                     *)
AnswersAnytime(t, nonce, time) ==
  /\ nonce # NoNonce
  /\ challenges[t] # None
  /\ challenges[t].nonce = nonce

(* What verify_and_consume(t, nonce) answers ...                           *)
Answers(t, nonce, time) ==
  /\ nonce # NoNonce
  /\ challenges[t] # None
  /\ ~ChallengeExpired(t, time)
  /\ challenges[t].nonce = nonce

(* A bug: the challenge is verified and not consumed.                      *)
KeepChallenge(t) == UNCHANGED challengeVars

(* ... and the deletion that makes a correct answer count once.  (A wrong  *)
(* or expired one is followed by IssueChallenge, which overwrites what the *)
(* method may have deleted.)                                               *)
ConsumeChallenge(t) ==
  /\ challenges' = [challenges EXCEPT ![t] = None]
  /\ UNCHANGED noncesDrawn
=============================================================================
