---------------------------- MODULE RateLimiter -----------------------------
(***************************************************************************)
(* SlidingWindowRateLimiter (proxy/rate_limiter.py): per key, the times of *)
(* all attempts that may still matter, oldest first.  Attempts that are    *)
(* refused are recorded too.                                               *)
(***************************************************************************)
EXTENDS Identities, Integers, Sequences, FiniteSets

CONSTANTS
  RateMax,      (* config.RATE_LIMIT_MAX_ATTEMPTS                           *)
  RateWindow    (* config.RATE_LIMIT_WINDOW_SECONDS                         *)

ASSUME RateAssumption == RateMax \in Nat /\ RateWindow \in Nat

VARIABLE attempts    (* [RateKeys -> Seq(Nat)]: the _attempts deques        *)

RateKeys == Optional(JA4s)

RateLimiterTypeOK == attempts \in [RateKeys -> Seq(Nat)]

RateLimiterInit == attempts = [k \in RateKeys |-> <<>>]

(* A bug: an entry exactly as old as the window is dropped too.            *)
OldPrefixInclusive(w, cutoff) ==
  Cardinality({i \in 1..Len(w) : \A j \in 1..i : w[j] <= cutoff})

(* popleft while the head is older than the window: the longest prefix of  *)
(* old entries goes, whatever comes after the first recent one stays.      *)
OldPrefix(w, cutoff) ==
  Cardinality({i \in 1..Len(w) : \A j \in 1..i : w[j] < cutoff})

Pruned(w, time) ==
  SubSeq(w, OldPrefix(w, time - RateWindow) + 1, Len(w))

(* check_and_record(k): what it answers ...                                *)
Allowed(k, time) == Len(Pruned(attempts[k], time)) < RateMax

(* Bugs: only allowed attempts are recorded; the wrong time is recorded.   *)
RecordIfAllowed(k, time) ==
  attempts' = IF Allowed(k, time)
                THEN [attempts EXCEPT ![k] = Append(Pruned(@, time), time)]
                ELSE attempts

RecordCutoff(k, time) ==
  attempts' = [attempts EXCEPT ![k] =
                 Append(Pruned(@, time), time - RateWindow)]

(* ... and what it records, allowed or not.                                *)
RecordAttempt(k, time) ==
  attempts' = [attempts EXCEPT ![k] = Append(Pruned(@, time), time)]
=============================================================================
