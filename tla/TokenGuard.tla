----------------------------- MODULE TokenGuard -----------------------------
(***************************************************************************)
(* What the proxy promises about access tokens, without saying how: a      *)
(* token is bound at most once in its life, to one sender (a DPoP key and  *)
(* a TLS stack); only that sender passes under it, each time with another  *)
(* proof; and a token that has died stays dead.                            *)
(***************************************************************************)
CONSTANTS
  Tokens, Senders, Proofs,
  Nobody    (* the sender of a token that is not bound                      *)

VARIABLES
  life,      (* [Tokens -> {"unbound", "bound", "dead"}]                    *)
  sender,    (* [Tokens -> Senders \cup {Nobody}]: whom it is bound to      *)
  passed,    (* the <<token, sender, proof>> triples let pass so far        *)
  uses       (* [Tokens \X Proofs -> Nat]: how often a token was let pass   *)
             (* with a proof                                                *)

guardVars == <<life, sender, passed, uses>>

GuardInit ==
  /\ life = [t \in Tokens |-> "unbound"]
  /\ sender = [t \in Tokens |-> Nobody]
  /\ passed = {}
  /\ uses = [use \in Tokens \X Proofs |-> 0]

BindTo(t, s) ==
  /\ life[t] = "unbound"
  /\ life' = [life EXCEPT ![t] = "bound"]
  /\ sender' = [sender EXCEPT ![t] = s]
  /\ UNCHANGED <<passed, uses>>

(* Any number of tokens die at once: by revocation, expiry or a restart,   *)
(* or because the answer that would have bound them is lost.               *)
Die(dying) ==
  /\ life' = [t \in Tokens |-> IF t \in dying THEN "dead" ELSE life[t]]
  /\ sender' = [t \in Tokens |-> IF t \in dying THEN Nobody ELSE sender[t]]
  /\ UNCHANGED <<passed, uses>>

(* A pass is counted, so that another one with the same proof is not       *)
(* taken for a stutter: it is a step that is not allowed.                  *)
Pass(t, s, p) ==
  /\ life[t] = "bound"
  /\ sender[t] = s
  /\ uses[<<t, p>>] = 0
  /\ uses' = [uses EXCEPT ![<<t, p>>] = 1]
  /\ passed' = passed \cup {<<t, s, p>>}
  /\ UNCHANGED <<life, sender>>

GuardNext ==
  \/ \E t \in Tokens, s \in Senders : BindTo(t, s)
  \/ \E dying \in SUBSET Tokens : Die(dying)
  \/ \E t \in Tokens, s \in Senders, p \in Proofs : Pass(t, s, p)

GuardSpec == GuardInit /\ [][GuardNext]_guardVars
=============================================================================
