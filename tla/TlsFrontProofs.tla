--------------------------- MODULE TlsFrontProofs ---------------------------
(***************************************************************************)
(* Theorems about what stands behind the ClientHello hook: the rate        *)
(* limiter, for every limit, window and number of stacks and a clock that  *)
(* is set back any number of times, and the JA4 registry, of any size.     *)
(***************************************************************************)
EXTENDS TlsFront, SequenceTheorems, FiniteSetTheorems, NaturalsInduction,
        WellFoundedInduction, TLAPS

(***************************************************************************)
(* Pruning a deque.                                                        *)
(***************************************************************************)
LEMMA SmallestNumber ==
  ASSUME NEW S, S \subseteq Nat, S # {}
  PROVE  \E n \in S : \A m \in S : n <= m
<1>1. PICK n \in S : \A m \in Nat : <<m, n>> \in OpToRel(<, Nat) => m \notin S
  BY NatLessThanWellFounded, WFMin
<1>2. \A m \in S : ~(m < n)
  BY <1>1 DEF OpToRel
<1> QED BY <1>2

(* The numbers of the old entries at the head are those up to OldPrefix:   *)
(* popleft stops at the first entry that is recent.                        *)
LEMMA OldPrefixStops ==
  ASSUME NEW w \in Seq(Nat), NEW cutoff \in Int
  PROVE  /\ OldPrefix(w, cutoff) \in 0..Len(w)
         /\ \A i \in 1..Len(w) : i <= OldPrefix(w, cutoff) => w[i] < cutoff
         /\ OldPrefix(w, cutoff) < Len(w) => w[OldPrefix(w, cutoff) + 1] >= cutoff
<1> DEFINE S == {i \in 1..Len(w) : \A j \in 1..i : w[j] < cutoff}
<1>1. Len(w) \in Nat /\ \A i \in 1..Len(w) : w[i] \in Nat
  BY LenProperties, ElementOfSeq
<1>2. \E n \in 0..Len(w) : S = 1..n /\ (n < Len(w) => w[n + 1] >= cutoff)
  <2>1. CASE S = 1..Len(w)
    BY <1>1, <2>1
  <2>2. CASE S # 1..Len(w)
    <3>1. PICK first \in (1..Len(w)) \ S : \A m \in (1..Len(w)) \ S : first <= m
      <4>1. (1..Len(w)) \ S # {} /\ (1..Len(w)) \ S \subseteq Nat
        BY <2>2
      <4> QED BY <4>1, SmallestNumber
    <3>2. \A i \in 1..(first - 1) : i \in S
      <4> TAKE i \in 1..(first - 1)
      <4> HIDE DEF S
      <4>1. i \in 1..Len(w) /\ ~(first <= i)
        BY <1>1, <3>1
      <4> QED BY <3>1, <4>1
    <3>3. \A i \in S : i < first
      BY <1>1, <3>1
    <3>4. S = 1..(first - 1)
      BY <1>1, <3>1, <3>2, <3>3
    <3>5. w[first] >= cutoff
      <4>1. PICK j \in 1..first : ~(w[j] < cutoff)
        BY <3>1
      <4>2. j \notin 1..(first - 1)
        <5>1. \A i \in 1..(first - 1) : w[i] < cutoff
          BY <3>1, <3>2
        <5> QED BY <4>1, <5>1
      <4>3. j = first /\ j \in 1..Len(w)
        BY <3>1, <4>1, <4>2, <1>1
      <4> QED BY <1>1, <4>1, <4>3
    <3>6. first - 1 \in 0..Len(w) /\ (first - 1) + 1 = first
      BY <1>1, <3>1
    <3> QED BY <3>4, <3>5, <3>6
  <2> QED BY <2>1, <2>2
<1>3. PICK n \in 0..Len(w) : S = 1..n /\ (n < Len(w) => w[n + 1] >= cutoff)
  BY <1>2
<1>4. Cardinality(S) = n
  <2>1. n \in Nat
    BY <1>1
  <2>2. Cardinality(1..n) = n
    BY <2>1, FS_Interval
  <2> QED BY <1>3, <2>2
<1>5. OldPrefix(w, cutoff) = n
  BY <1>4 DEF OldPrefix
<1>6. \A i \in 1..n : w[i] < cutoff
  <2> TAKE i \in 1..n
  <2>1. i \in S
    BY <1>3
  <2> QED BY <2>1, <1>1
<1> QED BY <1>1, <1>3, <1>5, <1>6

(* What is left of a deque: the entries after a number of old ones.        *)
LEMMA PrunedDeque ==
  ASSUME NEW w \in Seq(Nat), NEW time \in Nat
  PROVE  \E n \in 0..Len(w) :
           /\ Pruned(w, time) \in Seq(Nat)
           /\ Len(Pruned(w, time)) = Len(w) - n
           /\ \A p \in 1..(Len(w) - n) : Pruned(w, time)[p] = w[n + p]
           /\ \A p \in 1..n : w[p] < time - RateWindow
           /\ n < Len(w) => w[n + 1] >= time - RateWindow
<1>1. Len(w) \in Nat /\ time - RateWindow \in Int
  BY LenProperties, RateAssumption
<1>2. PICK n \in 0..Len(w) :
        /\ n = OldPrefix(w, time - RateWindow)
        /\ \A p \in 1..Len(w) : p <= n => w[p] < time - RateWindow
        /\ n < Len(w) => w[n + 1] >= time - RateWindow
  BY <1>1, OldPrefixStops
<1>3. Pruned(w, time) = SubSeq(w, n + 1, Len(w))
  BY <1>2 DEF Pruned
<1>4. /\ Pruned(w, time) \in Seq(Nat)
      /\ Len(Pruned(w, time)) = Len(w) - n
      /\ \A p \in 1..(Len(w) - n) : Pruned(w, time)[p] = w[n + p]
  <2>1. n \in Nat /\ n + 1 \in Int /\ \A i \in (n + 1)..Len(w) : w[i] \in Nat
    BY <1>1, ElementOfSeq
  <2> DEFINE rest == SubSeq(w, n + 1, Len(w))
  <2>2. /\ rest \in Seq(Nat)
        /\ Len(rest) = IF n + 1 <= Len(w) THEN Len(w) - (n + 1) + 1 ELSE 0
        /\ \A p \in 1..(Len(w) - (n + 1) + 1) : rest[p] = w[(n + 1) + p - 1]
    BY <1>1, <2>1, SubSeqProperties
  <2> HIDE DEF rest
  <2>3. Len(w) - (n + 1) + 1 = Len(w) - n
    BY <1>1, <2>1
  <2>4. \A p \in 1..(Len(w) - n) : (n + 1) + p - 1 = n + p
    BY <2>1
  <2>5. Len(rest) = Len(w) - n
    BY <1>1, <2>1, <2>2
  <2>6. \A p \in 1..(Len(w) - n) : rest[p] = w[n + p]
    BY <2>2, <2>3, <2>4
  <2> QED BY <1>3, <2>2, <2>5, <2>6 DEF rest
<1>5. \A p \in 1..n : p \in 1..Len(w) /\ p <= n
  BY <1>1
<1> QED BY <1>2, <1>4, <1>5

(***************************************************************************)
(* The limiter's invariant.                                                *)
(***************************************************************************)
Arrivals == [hello: Optional(Dialled), at: Nat, allowed: BOOLEAN]

FrontTyped ==
  /\ attempts \in [RateKeys -> Seq(Nat)]
  /\ connections \in Seq(Optional(Dialled))
  /\ now \in Nat /\ elapsed \in Nat /\ setbacks \in Nat
  /\ arrivals \in Seq(Arrivals)

DequesHold ==
  \A key \in RateKeys :
    \E arrivalOf \in [1..Len(attempts[key]) -> OfKey(key)] :
      DequeHolds(key, arrivalOf)

LEMMA InvariantParts == LimiterInvariant <=> FrontTyped /\ TimePasses /\ DequesHold
BY DEF LimiterInvariant, RateLimiterTypeOK, FrontTyped, DequesHold, Arrivals

LEMMA PartsOfNext ==
  LimiterInvariant' <=> FrontTyped' /\ TimePasses' /\ DequesHold'
BY InvariantParts, PTL

LEMMA FingerprintIsKey ==
  ASSUME NEW hello \in Optional(Dialled)
  PROVE  Fingerprint(hello) \in RateKeys
BY FrontAssumption DEF Optional, RateKeys, Fingerprint

(* What FrontTyped says of the numbers of arrivals.                        *)
LEMMA ArrivalNumbers ==
  ASSUME FrontTyped
  PROVE  /\ Len(arrivals) \in Nat
         /\ DOMAIN arrivals = 1..Len(arrivals)
         /\ \A i \in 1..Len(arrivals) :
              /\ arrivals[i].hello \in Optional(Dialled)
              /\ arrivals[i].at \in Nat
              /\ arrivals[i].allowed \in BOOLEAN
         /\ \A key \in RateKeys :
              /\ OfKey(key) \subseteq 1..Len(arrivals)
              /\ attempts[key] \in Seq(Nat)
              /\ Len(attempts[key]) \in Nat
              /\ \A p \in 1..Len(attempts[key]) : attempts[key][p] \in Nat
<1>1. arrivals \in Seq(Arrivals)
  BY DEF FrontTyped
<1>2. /\ Len(arrivals) \in Nat
      /\ DOMAIN arrivals = 1..Len(arrivals)
      /\ \A i \in 1..Len(arrivals) : arrivals[i] \in Arrivals
  BY <1>1, LenProperties, ElementOfSeq
<1>3. ASSUME NEW key \in RateKeys
      PROVE  /\ OfKey(key) \subseteq 1..Len(arrivals)
             /\ attempts[key] \in Seq(Nat)
             /\ Len(attempts[key]) \in Nat
             /\ \A p \in 1..Len(attempts[key]) : attempts[key][p] \in Nat
  <2>1. attempts[key] \in Seq(Nat)
    BY DEF FrontTyped
  <2>2. OfKey(key) \subseteq 1..Len(arrivals)
    BY <1>2 DEF OfKey
  <2> QED BY <2>1, <2>2, LenProperties, ElementOfSeq
<1>4. \A i \in 1..Len(arrivals) :
        /\ arrivals[i].hello \in Optional(Dialled)
        /\ arrivals[i].at \in Nat
        /\ arrivals[i].allowed \in BOOLEAN
  BY <1>2 DEF Arrivals
<1> QED BY <1>2, <1>3, <1>4

LEMMA LimiterStarts == FrontInit => LimiterInvariant
<1> SUFFICES ASSUME FrontInit PROVE FrontTyped /\ TimePasses /\ DequesHold
  BY InvariantParts
<1>1. /\ attempts = [k \in RateKeys |-> <<>>]
      /\ arrivals = <<>> /\ connections = <<>>
      /\ now = 0 /\ elapsed = 0 /\ setbacks = 0
  BY DEF FrontInit, RateLimiterInit
<1>2. FrontTyped
  BY <1>1, EmptySeq DEF FrontTyped
<1>3. TimePasses
  BY <1>1 DEF TimePasses
<1>4. ASSUME NEW key \in RateKeys
      PROVE  \E arrivalOf \in [1..Len(attempts[key]) -> OfKey(key)] :
               DequeHolds(key, arrivalOf)
  <2> DEFINE nothing == [p \in 1..0 |-> 0]
  <2>1. attempts[key] = <<>> /\ Len(attempts[key]) = 0 /\ DOMAIN arrivals = {}
    BY <1>1
  <2>2. OfKey(key) = {}
    BY <2>1 DEF OfKey
  <2>3. nothing \in [1..Len(attempts[key]) -> OfKey(key)]
    BY <2>1
  <2>4. DequeHolds(key, nothing)
    BY <2>1, <2>2 DEF DequeHolds
  <2> QED BY <2>3, <2>4
<1> QED BY <1>2, <1>3, <1>4 DEF DequesHold

LEMMA ClientHelloKeeps ==
  ASSUME LimiterInvariant, NEW hello \in Optional(Dialled), TlsClientHello(hello)
  PROVE  LimiterInvariant'
<1>1. UNCHANGED <<attempts, now, elapsed, setbacks, arrivals>>
  BY DEF TlsClientHello
<1>2. connections' \in Seq(Optional(Dialled))
  BY AppendProperties DEF TlsClientHello, LimiterInvariant
<1>3. FrontTyped /\ TimePasses /\ DequesHold
  BY InvariantParts
<1>4. FrontTyped'
  BY <1>1, <1>2, <1>3 DEF FrontTyped
<1> QED
  BY <1>1, <1>3, <1>4, PartsOfNext DEF TimePasses, DequesHold, DequeHolds, OfKey

LEMMA StutterKeeps ==
  ASSUME LimiterInvariant, UNCHANGED frontVars
  PROVE  LimiterInvariant'
<1>1. FrontTyped /\ TimePasses /\ DequesHold
  BY InvariantParts
<1>2. UNCHANGED <<attempts, now, elapsed, setbacks, connections, arrivals>>
  BY DEF frontVars
<1>3. FrontTyped'
  BY <1>1, <1>2 DEF FrontTyped
<1>4. TimePasses' /\ DequesHold'
  BY <1>1, <1>2 DEF TimePasses, DequesHold, DequeHolds, OfKey
<1> QED BY <1>3, <1>4, PartsOfNext

(* While only time goes by, what is in the deques stays right: the clock   *)
(* gains no more than reality, and keeps pace unless it is set back.       *)
LEMMA TimeKeeps ==
  ASSUME LimiterInvariant, Tick \/ SetClockBack
  PROVE  LimiterInvariant'
<1>1. /\ UNCHANGED <<attempts, connections, arrivals>>
      /\ \/ now' = now + 1 /\ elapsed' = elapsed + 1 /\ setbacks' = setbacks
         \/ now' \in 0..(now - 1) /\ elapsed' = elapsed /\ setbacks' = setbacks + 1
  BY DEF Tick, SetClockBack
<1>2. FrontTyped /\ TimePasses /\ DequesHold
  BY InvariantParts
<1>3. now \in Nat /\ elapsed \in Nat /\ setbacks \in Nat
  BY <1>2 DEF FrontTyped
<1>4. now' \in Nat /\ elapsed' \in Nat /\ setbacks' \in Nat
  BY <1>1, <1>3
<1>5. FrontTyped'
  BY <1>1, <1>2, <1>4 DEF FrontTyped
<1>6. TimePasses'
  BY <1>1, <1>2, <1>3, ArrivalNumbers DEF TimePasses
<1>7. ASSUME NEW key \in RateKeys
      PROVE  \E arrivalOf \in [1..Len(attempts'[key]) -> OfKey(key)'] :
               DequeHolds(key, arrivalOf)'
  <2>1. PICK arrivalOf \in [1..Len(attempts[key]) -> OfKey(key)] :
          DequeHolds(key, arrivalOf)
    BY <1>2 DEF DequesHold
  <2>2. OfKey(key)' = OfKey(key) /\ attempts'[key] = attempts[key]
    BY <1>1 DEF OfKey
  <2>3. ASSUME NEW p \in 1..Len(attempts[key])
        PROVE  LET age == elapsed' - arrivals[arrivalOf[p]].at
               IN  /\ now' - attempts[key][p] <= age
                   /\ setbacks' = 0 => now' - attempts[key][p] = age
    <3>1. /\ attempts[key][p] \in Nat
          /\ arrivals[arrivalOf[p]].at \in Nat
      BY <1>2, ArrivalNumbers
    <3>2. LET age == elapsed - arrivals[arrivalOf[p]].at
          IN  /\ now - attempts[key][p] <= age
              /\ setbacks = 0 => now - attempts[key][p] = age
      BY <2>1 DEF DequeHolds
    <3>3. PICK stamp \in Nat, at \in Nat :
            stamp = attempts[key][p] /\ at = arrivals[arrivalOf[p]].at
      BY <3>1
    <3>4. now - stamp <= elapsed - at /\ (setbacks = 0 => now - stamp = elapsed - at)
      BY <3>2, <3>3
    <3>5. now' - stamp <= elapsed' - at /\ (setbacks' = 0 => now' - stamp = elapsed' - at)
      BY <1>1, <1>3, <3>4
    <3> QED BY <3>3, <3>5
  <2>4. ASSUME NEW i \in OfKey(key), arrivals[i].at >= elapsed' - RateWindow
        PROVE  \E p \in 1..Len(attempts[key]) : arrivalOf[p] = i
    <3>1. arrivals[i].at \in Nat
      BY <1>2, ArrivalNumbers
    <3>2. arrivals[i].at >= elapsed - RateWindow
      BY <1>1, <1>3, <2>4, <3>1, RateAssumption
    <3> QED BY <2>1, <3>2 DEF DequeHolds
  <2>5. \A p, q \in 1..Len(attempts[key]) : p < q => arrivalOf[p] < arrivalOf[q]
    BY <2>1 DEF DequeHolds
  <2>6. DequeHolds(key, arrivalOf)'
    BY <1>1, <2>2, <2>3, <2>4, <2>5 DEF DequeHolds
  <2> QED BY <2>2, <2>6
<1>8. DequesHold'
  BY <1>7 DEF DequesHold
<1> QED BY <1>5, <1>6, <1>8, PartsOfNext

(***************************************************************************)
(* A token request: the deque of its key loses its old entries and gets    *)
(* one for the arrival, the others stay.                                   *)
(***************************************************************************)
Arrives(hello) ==
  /\ attempts' = [attempts EXCEPT ![Fingerprint(hello)] = Append(Pruned(@, now), now)]
  /\ arrivals' = Append(arrivals,
       [hello |-> hello, at |-> elapsed, allowed |-> Allowed(Fingerprint(hello), now)])
  /\ UNCHANGED <<now, elapsed, setbacks, connections>>

LEMMA RequestArrives ==
  ASSUME FrontTyped, RequestToken
  PROVE  \E hello \in Optional(Dialled) : Arrives(hello)
<1>1. connections \in Seq(Optional(Dialled)) /\ connections # <<>>
  BY DEF FrontTyped, RequestToken
<1>2. Len(connections) \in 1..Len(connections)
  BY <1>1, EmptySeq
<1>3. Last(connections) \in Optional(Dialled)
  BY <1>1, <1>2, ElementOfSeq DEF Last
<1>4. Arrives(Last(connections))
  BY DEF RequestToken, RecordAttempt, Arrives
<1> QED BY <1>3, <1>4

(* The arrivals after a token request, by number.                          *)
LEMMA ArrivalsAfter ==
  ASSUME FrontTyped, NEW hello \in Optional(Dialled), Arrives(hello)
  PROVE  /\ arrivals' \in Seq(Arrivals)
         /\ Len(arrivals') = Len(arrivals) + 1
         /\ DOMAIN arrivals' = 1..(Len(arrivals) + 1)
         /\ \A i \in 1..Len(arrivals) : arrivals'[i] = arrivals[i]
         /\ arrivals'[Len(arrivals) + 1].hello = hello
         /\ arrivals'[Len(arrivals) + 1].at = elapsed
         /\ arrivals'[Len(arrivals) + 1].allowed = Allowed(Fingerprint(hello), now)
<1> DEFINE made == [hello |-> hello, at |-> elapsed,
                    allowed |-> Allowed(Fingerprint(hello), now)]
<1>1. Allowed(Fingerprint(hello), now) \in BOOLEAN
  BY DEF Allowed
<1>2. made \in Arrivals
  BY <1>1 DEF FrontTyped, Arrivals
<1>3. arrivals \in Seq(Arrivals) /\ arrivals' = Append(arrivals, made)
  BY DEF FrontTyped, Arrives
<1>4. made.hello = hello /\ made.at = elapsed
        /\ made.allowed = Allowed(Fingerprint(hello), now)
  OBVIOUS
<1> HIDE DEF made
<1>5. /\ arrivals' \in Seq(Arrivals)
      /\ Len(arrivals') = Len(arrivals) + 1
      /\ \A i \in 1..Len(arrivals) : arrivals'[i] = arrivals[i]
      /\ arrivals'[Len(arrivals) + 1] = made
  BY <1>2, <1>3, AppendProperties
<1>6. DOMAIN arrivals' = 1..(Len(arrivals) + 1)
  BY <1>5, LenProperties
<1> QED BY <1>4, <1>5, <1>6

LEMMA KeysAfter ==
  ASSUME FrontTyped, NEW hello \in Optional(Dialled), Arrives(hello),
         NEW key \in RateKeys
  PROVE  OfKey(key)' = IF key = Fingerprint(hello)
                         THEN OfKey(key) \cup {Len(arrivals) + 1} ELSE OfKey(key)
<1>1. Len(arrivals) \in Nat /\ DOMAIN arrivals = 1..Len(arrivals)
  BY ArrivalNumbers
<1>2. \A i : i \in OfKey(key) <=>
               i \in 1..Len(arrivals) /\ Fingerprint(arrivals[i].hello) = key
  BY <1>1 DEF OfKey
<1>3. \A i : i \in OfKey(key)' <=>
               /\ i \in 1..(Len(arrivals) + 1)
               /\ Fingerprint(arrivals'[i].hello) = key
  BY ArrivalsAfter DEF OfKey
<1>4. \A i : i \in 1..(Len(arrivals) + 1) <=>
               i \in 1..Len(arrivals) \/ i = Len(arrivals) + 1
  BY <1>1
<1>5. \A i : i \in OfKey(key)' <=>
               \/ i \in OfKey(key)
               \/ i = Len(arrivals) + 1 /\ Fingerprint(hello) = key
  BY <1>1, <1>2, <1>3, <1>4, ArrivalsAfter
<1> QED BY <1>5

(* What an entry of a deque is: the arrival it stands for is no younger    *)
(* than the entry, and as old while the clock was never set back.          *)
Stands(stamp, at) ==
  /\ now - stamp <= elapsed - at
  /\ setbacks = 0 => now - stamp = elapsed - at

LEMMA RequestKeepsDeque ==
  ASSUME FrontTyped, TimePasses, DequesHold,
         NEW hello \in Optional(Dialled), Arrives(hello)
  PROVE  /\ attempts'[Fingerprint(hello)] \in Seq(Nat)
         /\ \E arrivalOf \in
                 [1..Len(attempts'[Fingerprint(hello)]) -> OfKey(Fingerprint(hello))'] :
              DequeHolds(Fingerprint(hello), arrivalOf)'
<1>1. PICK key \in RateKeys : key = Fingerprint(hello)
  BY FingerprintIsKey
<1>2. PICK old : old = attempts[key] /\ old \in Seq(Nat)
  BY ArrivalNumbers
<1>3. PICK arrivalOf :
        arrivalOf \in [1..Len(old) -> OfKey(key)] /\ DequeHolds(key, arrivalOf)
  BY <1>2 DEF DequesHold
<1>4. PICK len \in Nat : len = Len(old)
  BY <1>2, LenProperties
<1>5. PICK count \in Nat : count = Len(arrivals) /\ OfKey(key) \subseteq 1..count
  BY ArrivalNumbers
<1>6. now \in Nat /\ elapsed \in Nat /\ setbacks \in Nat /\ RateWindow \in Nat
  BY RateAssumption DEF FrontTyped
<1>7. PICK n \in Nat, m \in Nat :
        /\ len = n + m
        /\ Pruned(old, now) \in Seq(Nat)
        /\ Len(Pruned(old, now)) = m
        /\ \A p \in 1..m : Pruned(old, now)[p] = old[n + p]
        /\ \A p \in 1..n : old[p] < now - RateWindow
  <2>1. PICK n \in 0..len :
          /\ Pruned(old, now) \in Seq(Nat)
          /\ Len(Pruned(old, now)) = len - n
          /\ \A p \in 1..(len - n) : Pruned(old, now)[p] = old[n + p]
          /\ \A p \in 1..n : old[p] < now - RateWindow
    BY <1>2, <1>4, <1>6, PrunedDeque
  <2>2. PICK m : m = len - n
    OBVIOUS
  <2>3. n \in Nat /\ m \in Nat /\ len = n + m
    BY <1>4, <2>1, <2>2
  <2> QED BY <2>1, <2>2, <2>3
<1>8. PICK new :
        /\ new = attempts'[key] /\ new \in Seq(Nat)
        /\ Len(new) = m + 1
        /\ \A p \in 1..m : new[p] = old[n + p]
        /\ new[m + 1] = now
  <2> DEFINE kept == Pruned(old, now)
  <2>1. attempts'[key] = Append(kept, now)
    BY <1>1, <1>2 DEF Arrives, FrontTyped
  <2> HIDE DEF kept
  <2>2. kept \in Seq(Nat) /\ Len(kept) = m
          /\ \A p \in 1..m : kept[p] = old[n + p]
    BY <1>7 DEF kept
  <2>3. /\ Append(kept, now) \in Seq(Nat)
        /\ Len(Append(kept, now)) = m + 1
        /\ \A p \in 1..m : Append(kept, now)[p] = kept[p]
        /\ Append(kept, now)[m + 1] = now
    BY <1>6, <2>2, AppendProperties
  <2> QED BY <2>1, <2>2, <2>3
<1> DEFINE after == [p \in 1..(m + 1) |->
                       IF p <= m THEN arrivalOf[n + p] ELSE count + 1]
<1>9. \A p \in 1..m : n + p \in 1..len
  BY <1>7
<1>10. /\ \A p \in 1..m : after[p] = arrivalOf[n + p] /\ after[p] \in OfKey(key)
       /\ after[m + 1] = count + 1
  BY <1>3, <1>4, <1>7, <1>9
<1>11. OfKey(key)' = OfKey(key) \cup {count + 1}
  BY <1>1, <1>5, KeysAfter
<1>12. \A p \in 1..(m + 1) : p \in 1..m \/ p = m + 1
  BY <1>7
<1>13. after \in [1..Len(new) -> OfKey(key)']
  <2>1. after = [p \in 1..(m + 1) |-> after[p]]
    OBVIOUS
  <2> HIDE DEF after
  <2>2. \A p \in 1..(m + 1) : after[p] \in OfKey(key)'
    BY <1>10, <1>11, <1>12
  <2> QED BY <1>8, <2>1, <2>2
<1> HIDE DEF after
<1>14. \A p, q \in 1..len : p < q => arrivalOf[p] < arrivalOf[q]
  BY <1>2, <1>3, <1>4 DEF DequeHolds
<1>15. ASSUME NEW p \in 1..(m + 1), NEW q \in 1..(m + 1), p < q
       PROVE  after[p] < after[q]
  <2>1. p \in 1..m /\ after[p] \in 1..count
    BY <1>5, <1>10, <1>15
  <2>2. CASE q = m + 1
    BY <1>5, <1>10, <2>1, <2>2
  <2>3. CASE q \in 1..m
    BY <1>7, <1>9, <1>10, <1>14, <1>15, <2>1, <2>3
  <2> QED BY <1>12, <2>2, <2>3
<1>16. \A p \in 1..len : Stands(old[p], arrivals[arrivalOf[p]].at)
  BY <1>2, <1>3, <1>4 DEF DequeHolds, Stands
<1>17. ASSUME NEW p \in 1..(m + 1)
       PROVE  Stands(new[p], arrivals'[after[p]].at)
  <2>1. CASE p \in 1..m
    <3>1. new[p] = old[n + p] /\ after[p] = arrivalOf[n + p] /\ after[p] \in 1..count
      BY <1>5, <1>8, <1>10, <2>1
    <3>2. arrivals'[after[p]] = arrivals[after[p]]
      BY <1>5, <3>1, ArrivalsAfter
    <3> QED BY <1>9, <1>16, <2>1, <3>1, <3>2
  <2>2. CASE p = m + 1
    <3>1. new[p] = now /\ arrivals'[after[p]].at = elapsed
      BY <1>5, <1>8, <1>10, <2>2, ArrivalsAfter
    <3> QED BY <1>6, <3>1, TimePasses DEF Stands, TimePasses
  <2> QED BY <1>12, <2>1, <2>2
<1>18. ASSUME NEW i \in OfKey(key)', arrivals'[i].at >= elapsed - RateWindow
       PROVE  \E p \in 1..(m + 1) : after[p] = i
  <2>1. CASE i = count + 1
    <3>1. m + 1 \in 1..(m + 1)
      BY <1>7
    <3> QED BY <1>10, <2>1, <3>1
  <2>2. CASE i \in OfKey(key)
    <3>1. arrivals'[i] = arrivals[i]
      BY <1>5, <2>2, ArrivalsAfter
    <3>2. PICK p \in 1..len : arrivalOf[p] = i
      BY <1>2, <1>3, <1>4, <1>18, <2>2, <3>1 DEF DequeHolds
    <3>3. ~(p <= n)
      <4>1. PICK stamp \in Nat, at \in Nat : stamp = old[p] /\ at = arrivals[i].at
        BY <1>2, <1>4, <1>5, <2>2, ArrivalNumbers
      <4>2. now - stamp <= elapsed - at
        BY <1>16, <3>2, <4>1 DEF Stands
      <4>3. at >= elapsed - RateWindow
        BY <1>18, <3>1, <4>1
      <4>4. ~(stamp < now - RateWindow)
        BY <1>6, <4>1, <4>2, <4>3
      <4>5. p <= n => p \in 1..n
        BY <1>4, <1>7, <3>2
      <4> QED BY <1>7, <4>1, <4>4, <4>5
    <3>4. p - n \in 1..m /\ n + (p - n) = p
      BY <1>4, <1>7, <3>2, <3>3
    <3>5. after[p - n] = i
      BY <1>10, <3>2, <3>4
    <3>6. p - n \in 1..(m + 1)
      BY <1>7, <3>4
    <3> QED BY <3>5, <3>6
  <2> QED BY <1>11, <2>1, <2>2
<1>19. UNCHANGED <<now, elapsed, setbacks>>
  BY DEF Arrives
<1>20. DequeHolds(key, after)'
  BY <1>8, <1>15, <1>17, <1>18, <1>19 DEF DequeHolds, Stands
<1> QED BY <1>1, <1>8, <1>13, <1>20

LEMMA RequestKeeps ==
  ASSUME LimiterInvariant, RequestToken
  PROVE  LimiterInvariant'
<1>1. FrontTyped /\ TimePasses /\ DequesHold
  BY InvariantParts
<1>2. PICK hello \in Optional(Dialled) : Arrives(hello)
  BY <1>1, RequestArrives
<1>3. Fingerprint(hello) \in RateKeys
  BY FingerprintIsKey
<1>4. \A key \in RateKeys :
        key # Fingerprint(hello) => attempts'[key] = attempts[key]
  BY <1>1, <1>2 DEF Arrives, FrontTyped
<1>5. FrontTyped'
  <2>1. attempts' \in [RateKeys -> Seq(Nat)]
    <3>1. attempts' = [key \in RateKeys |-> attempts'[key]]
      BY <1>1, <1>2 DEF Arrives, FrontTyped
    <3>2. \A key \in RateKeys : attempts'[key] \in Seq(Nat)
      BY <1>1, <1>2, <1>4, RequestKeepsDeque, ArrivalNumbers
    <3> QED BY <3>1, <3>2
  <2>2. arrivals' \in Seq(Arrivals)
    BY <1>1, <1>2, ArrivalsAfter
  <2> QED BY <1>1, <1>2, <2>1, <2>2 DEF Arrives, FrontTyped
<1>6. TimePasses'
  <2>1. PICK count \in Nat : count = Len(arrivals)
    BY <1>1, ArrivalNumbers
  <2>2. elapsed' = elapsed /\ setbacks' = setbacks /\ now' = now /\ elapsed \in Nat
    BY <1>1, <1>2 DEF Arrives, FrontTyped
  <2>3. /\ Len(arrivals') = count + 1
        /\ \A i \in 1..count : arrivals'[i].at = arrivals[i].at
        /\ arrivals'[count + 1].at = elapsed
    BY <1>1, <1>2, <2>1, ArrivalsAfter
  <2>4. \A i \in 1..count :
          arrivals[i].at <= elapsed /\ \A j \in 1..i : arrivals[j].at <= arrivals[i].at
    BY <1>1, <2>1 DEF TimePasses
  <2>5. \A i \in 1..(count + 1) : i \in 1..count \/ i = count + 1
    BY <2>1
  <2>6. ASSUME NEW i \in 1..(count + 1)
        PROVE  /\ arrivals'[i].at <= elapsed
               /\ \A j \in 1..i : arrivals'[j].at <= arrivals'[i].at
    <3>1. CASE i \in 1..count
      <4>1. \A j \in 1..i : j \in 1..count
        BY <2>1, <3>1
      <4> QED BY <2>3, <2>4, <3>1, <4>1
    <3>2. CASE i = count + 1
      <4>1. \A j \in 1..i : j \in 1..count \/ j = count + 1
        BY <2>5, <3>2
      <4>2. \A j \in 1..(count + 1) : arrivals'[j].at <= elapsed
        BY <2>2, <2>3, <2>4, <2>5
      <4> QED BY <2>3, <3>2, <4>2
    <3> QED BY <2>5, <3>1, <3>2
  <2>7. setbacks = 0 => now = elapsed
    BY <1>1 DEF TimePasses
  <2> QED BY <2>2, <2>3, <2>6, <2>7 DEF TimePasses
<1>7. ASSUME NEW key \in RateKeys
      PROVE  \E arrivalOf \in [1..Len(attempts'[key]) -> OfKey(key)'] :
               DequeHolds(key, arrivalOf)'
  <2>1. CASE key = Fingerprint(hello)
    BY <1>1, <1>2, <2>1, RequestKeepsDeque
  <2>2. CASE key # Fingerprint(hello)
    <3>1. attempts'[key] = attempts[key] /\ OfKey(key)' = OfKey(key)
      BY <1>1, <1>2, <1>4, <2>2, KeysAfter
    <3>2. PICK arrivalOf \in [1..Len(attempts[key]) -> OfKey(key)] :
            DequeHolds(key, arrivalOf)
      BY <1>1 DEF DequesHold
    <3>3. \A i \in OfKey(key) : arrivals'[i] = arrivals[i]
      BY <1>1, <1>2, ArrivalNumbers, ArrivalsAfter
    <3>4. \A p \in 1..Len(attempts[key]) : arrivals'[arrivalOf[p]] = arrivals[arrivalOf[p]]
      BY <3>2, <3>3
    <3>5. UNCHANGED <<now, elapsed, setbacks>>
      BY <1>2 DEF Arrives
    <3>6. DequeHolds(key, arrivalOf)'
      BY <3>1, <3>2, <3>3, <3>4, <3>5 DEF DequeHolds
    <3> QED BY <3>1, <3>2, <3>6
  <2> QED BY <2>1, <2>2
<1>8. DequesHold'
  BY <1>7 DEF DequesHold
<1> QED BY <1>5, <1>6, <1>8, PartsOfNext

(* The deque of a fingerprint holds what matters of its arrivals, however  *)
(* often the clock is set back (rate_limiter.py, check_and_record).        *)
THEOREM LimiterInvariantHolds == FrontSpec => []LimiterInvariant
<1>1. LimiterInvariant /\ [FrontNext]_frontVars => LimiterInvariant'
  BY ClientHelloKeeps, StutterKeeps, TimeKeeps, RequestKeeps DEF FrontNext
<1> QED BY <1>1, LimiterStarts, PTL DEF FrontSpec

(***************************************************************************)
(* What the limiter counts.                                                *)
(***************************************************************************)
Recent(key) == {i \in OfKey(key) : arrivals[i].at >= elapsed - RateWindow}

(* What is left of a pruned deque is no less than the recent arrivals of   *)
(* its key, and no more while the clock was never set back.                *)
LEMMA DequeCounts ==
  ASSUME LimiterInvariant, NEW key \in RateKeys
  PROVE  /\ IsFiniteSet(Recent(key))
         /\ Cardinality(Recent(key)) \in Nat
         /\ Cardinality(Recent(key)) <= Len(Pruned(attempts[key], now))
         /\ setbacks = 0 => Len(Pruned(attempts[key], now)) <= Cardinality(Recent(key))
<1>1. FrontTyped /\ TimePasses /\ DequesHold
  BY InvariantParts
<1>2. now \in Nat /\ elapsed \in Nat /\ setbacks \in Nat /\ RateWindow \in Nat
  BY <1>1, RateAssumption DEF FrontTyped
<1>3. PICK len \in Nat, count \in Nat :
        /\ len = Len(attempts[key]) /\ count = Len(arrivals)
        /\ OfKey(key) \subseteq 1..count
        /\ \A p \in 1..len : attempts[key][p] \in Nat
        /\ \A i \in 1..count : arrivals[i].at \in Nat
  BY <1>1, ArrivalNumbers
<1>4. PICK arrivalOf :
        /\ arrivalOf \in [1..len -> OfKey(key)]
        /\ \A p, q \in 1..len : p < q => arrivalOf[p] < arrivalOf[q]
        /\ \A p \in 1..len : Stands(attempts[key][p], arrivals[arrivalOf[p]].at)
        /\ \A i \in Recent(key) : \E p \in 1..len : arrivalOf[p] = i
  BY <1>1, <1>3 DEF DequesHold, DequeHolds, Stands, Recent
<1>5. PICK n, m :
        /\ n \in Nat /\ m \in Nat /\ len = n + m
        /\ Len(Pruned(attempts[key], now)) = m
        /\ \A p \in 1..n : attempts[key][p] < now - RateWindow
        /\ n < len => attempts[key][n + 1] >= now - RateWindow
  <2>1. PICK n \in 0..len :
          /\ Len(Pruned(attempts[key], now)) = len - n
          /\ \A p \in 1..n : attempts[key][p] < now - RateWindow
          /\ n < len => attempts[key][n + 1] >= now - RateWindow
    BY <1>1, <1>2, <1>3, ArrivalNumbers, PrunedDeque
  <2>2. PICK m : m = len - n
    OBVIOUS
  <2>3. n \in Nat /\ m \in Nat /\ len = n + m
    BY <1>3, <2>1, <2>2
  <2> QED BY <2>1, <2>2, <2>3
<1>6. IsFiniteSet(1..m) /\ Cardinality(1..m) = m
  BY <1>5, FS_Interval
<1>7. ASSUME NEW p \in 1..len, NEW i \in Recent(key), arrivalOf[p] = i
      PROVE  p - n \in 1..m /\ n + (p - n) = p
  <2>1. PICK stamp \in Nat, at \in Nat : stamp = attempts[key][p] /\ at = arrivals[i].at
    BY <1>3 DEF Recent
  <2>2. at >= elapsed - RateWindow /\ now - stamp <= elapsed - at
    BY <1>4, <1>7, <2>1 DEF Recent, Stands
  <2>3. ~(stamp < now - RateWindow)
    BY <1>2, <2>1, <2>2
  <2>4. ~(p \in 1..n)
    BY <1>5, <2>1, <2>3
  <2> QED BY <1>3, <1>5, <2>4
<1>8. IsFiniteSet(Recent(key)) /\ Cardinality(Recent(key)) <= m
  <2> DEFINE place == [i \in Recent(key) |-> (CHOOSE p \in 1..len : arrivalOf[p] = i) - n]
  <2>1. ASSUME NEW i \in Recent(key)
        PROVE  place[i] \in 1..m /\ arrivalOf[n + place[i]] = i
    <3>1. PICK p : p = (CHOOSE q \in 1..len : arrivalOf[q] = i)
      OBVIOUS
    <3>2. p \in 1..len /\ arrivalOf[p] = i
      BY <1>4, <3>1
    <3>3. place[i] = p - n
      BY <3>1
    <3> QED BY <1>7, <3>2, <3>3
  <2>2. place = [i \in Recent(key) |-> place[i]]
    OBVIOUS
  <2> HIDE DEF place
  <2>3. place \in Injection(Recent(key), 1..m)
    BY <2>1, <2>2 DEF Injection, IsInjective
  <2> QED BY <1>6, <2>3, FS_Injection
<1>9. Cardinality(Recent(key)) \in Nat
  BY <1>8, FS_CardinalityType
<1>10. ASSUME setbacks = 0
       PROVE  m <= Cardinality(Recent(key))
  <2> DEFINE kept == [p \in 1..m |-> arrivalOf[n + p]]
  <2>1. \A p \in 1..m : n + p \in 1..len
    BY <1>5
  <2>2. \A p \in 1..len : attempts[key][p] = arrivals[arrivalOf[p]].at
    <3> TAKE p \in 1..len
    <3>1. PICK stamp \in Nat, at \in Nat :
            stamp = attempts[key][p] /\ at = arrivals[arrivalOf[p]].at
      BY <1>3, <1>4
    <3>2. now = elapsed /\ now - stamp = elapsed - at
      BY <1>1, <1>4, <1>10, <3>1 DEF TimePasses, Stands
    <3> QED BY <1>2, <3>1, <3>2
  <2>3. ASSUME NEW p \in 1..m
        PROVE  arrivalOf[n + p] \in Recent(key)
    <3>1. n + 1 \in 1..len /\ n < len
      BY <1>5
    <3>2. arrivals[arrivalOf[n + 1]].at >= elapsed - RateWindow
      BY <1>1, <1>5, <1>10, <2>2, <3>1 DEF TimePasses
    <3>3. arrivalOf[n + p] \in 1..count /\ arrivalOf[n + 1] \in 1..count
      BY <1>3, <1>4, <2>1, <3>1
    <3>4. arrivalOf[n + 1] \in 1..arrivalOf[n + p]
      <4>1. CASE p = 1
        BY <3>3, <4>1
      <4>2. CASE p # 1
        <5>1. n + 1 < n + p
          BY <1>5, <4>2
        <5>2. arrivalOf[n + 1] < arrivalOf[n + p]
          BY <1>4, <2>1, <3>1, <5>1
        <5> QED BY <1>3, <3>3, <5>2
      <4> QED BY <4>1, <4>2
    <3>5. PICK first \in Nat, at \in Nat :
            /\ first = arrivals[arrivalOf[n + 1]].at
            /\ at = arrivals[arrivalOf[n + p]].at
      BY <1>3, <3>3
    <3>6. first <= at
      BY <1>1, <1>3, <3>3, <3>4, <3>5 DEF TimePasses
    <3>7. at >= elapsed - RateWindow
      BY <1>2, <3>2, <3>5, <3>6
    <3> QED BY <1>4, <2>1, <3>5, <3>7 DEF Recent
  <2>4. \A p, q \in 1..m : arrivalOf[n + p] = arrivalOf[n + q] => p = q
    <3> SUFFICES ASSUME NEW p \in 1..m, NEW q \in 1..m, p < q
                 PROVE  arrivalOf[n + p] # arrivalOf[n + q]
      BY <1>5
    <3>1. n + p < n + q
      BY <1>5
    <3>2. arrivalOf[n + p] < arrivalOf[n + q] /\ arrivalOf[n + p] \in Nat
      BY <1>3, <1>4, <2>1, <3>1
    <3> QED BY <3>2
  <2>5. kept \in Injection(1..m, Recent(key))
    BY <2>3, <2>4 DEF Injection, IsInjective
  <2> QED BY <1>6, <1>8, <2>5, FS_Injection
<1> QED BY <1>5, <1>8, <1>9, <1>10

(* Where JA4 tells the stacks apart, a client is its fingerprint.          *)
LEMMA ClientIsKey ==
  ASSUME MistakenHellos = {},
         NEW g \in Optional(Dialled), NEW h \in Optional(Dialled)
  PROVE  h \in HellosOf[g] <=> Fingerprint(h) = Fingerprint(g)
<1>1. \A hello \in Dialled : hello \in Hellos /\ Ja4Of[hello] \in JA4s
  BY FrontAssumption
<1>2. \A hello \in Dialled : Ja4Of[hello] # None
  BY <1>1, NoneAssumption
<1>3. CASE g = None
  BY <1>2, <1>3 DEF HellosOf, Fingerprint, Optional
<1>4. CASE g # None
  <2>1. g \in Dialled /\ g \in Hellos
    BY <1>1, <1>4 DEF Optional
  <2>2. StackOf(g) = {f \in Hellos : Ja4Of[f] = Ja4Of[g]}
    BY <2>1 DEF MistakenHellos, ToldApart, SameJa4
  <2>3. HellosOf[g] = Dialled \cap StackOf(g)
    BY <1>4 DEF HellosOf
  <2>4. CASE h = None
    BY <1>2, <1>4, <2>1, <2>3, <2>4, FrontAssumption DEF Fingerprint
  <2>5. CASE h # None
    BY <1>1, <1>4, <2>1, <2>2, <2>3, <2>5 DEF Fingerprint, Optional
  <2> QED BY <2>4, <2>5
<1> QED BY <1>3, <1>4

LEMMA ClientArrivals ==
  ASSUME MistakenHellos = {}, FrontTyped, NEW hello \in Optional(Dialled)
  PROVE  OfClient(hello) = OfKey(Fingerprint(hello))
<1>1. \A i \in DOMAIN arrivals : arrivals[i].hello \in Optional(Dialled)
  BY ArrivalNumbers
<1> QED BY <1>1, ClientIsKey DEF OfClient, OfKey

(* Where JA4 tells the stacks apart, the limiter counts each client's      *)
(* attempts of the last window: none is forgotten, whatever the clock      *)
(* does, and while it runs forward none is counted too long.               *)
THEOREM EveryAttemptCounts ==
  ASSUME MistakenHellos = {}
  PROVE  FrontSpec => []CountsEveryAttempt
<1>1. ASSUME LimiterInvariant, NEW hello \in Optional(Dialled)
      PROVE  LET recent == {i \in OfClient(hello) : arrivals[i].at >= elapsed - RateWindow}
                 few == Cardinality(recent) < RateMax
             IN  /\ Allowed(Fingerprint(hello), now) => few
                 /\ setbacks = 0 /\ few => Allowed(Fingerprint(hello), now)
  <2>1. PICK key \in RateKeys : key = Fingerprint(hello)
    BY FingerprintIsKey
  <2>2. {i \in OfClient(hello) : arrivals[i].at >= elapsed - RateWindow} = Recent(key)
    BY <1>1, <2>1, InvariantParts, ClientArrivals DEF Recent
  <2>3. PICK left : left = Len(Pruned(attempts[key], now))
    OBVIOUS
  <2>4. left \in Nat
    BY <1>1, <2>3, InvariantParts, ArrivalNumbers, PrunedDeque, LenProperties
    DEF FrontTyped
  <2>5. PICK size \in Nat :
          size = Cardinality(Recent(key)) /\ size <= left /\ (setbacks = 0 => left <= size)
    BY <1>1, <2>3, DequeCounts
  <2>6. Allowed(key, now) <=> left < RateMax
    BY <2>3 DEF Allowed
  <2>7. (Allowed(key, now) => size < RateMax)
          /\ (setbacks = 0 /\ size < RateMax => Allowed(key, now))
    BY <2>4, <2>5, <2>6, RateAssumption
  <2> QED BY <2>1, <2>2, <2>5, <2>7
<1>2. LimiterInvariant => CountsEveryAttempt
  BY <1>1 DEF CountsEveryAttempt
<1> QED BY <1>2, LimiterInvariantHolds, PTL

(***************************************************************************)
(* What the limiter allows.                                                *)
(***************************************************************************)
LEMMA WindowKept ==
  ASSUME MistakenHellos = {}, LimiterInvariant, WindowRespected, RequestToken
  PROVE  WindowRespected'
<1>1. FrontTyped /\ TimePasses
  BY InvariantParts
<1>2. PICK hello \in Optional(Dialled) : Arrives(hello)
  BY <1>1, RequestArrives
<1>3. PICK count \in Nat :
        /\ count = Len(arrivals)
        /\ DOMAIN arrivals = 1..count /\ DOMAIN arrivals' = 1..(count + 1)
        /\ \A i \in 1..count : arrivals'[i] = arrivals[i]
        /\ arrivals'[count + 1].hello = hello
        /\ arrivals'[count + 1].at = elapsed
        /\ arrivals'[count + 1].allowed = Allowed(Fingerprint(hello), now)
        /\ \A i \in 1..count : arrivals[i].at \in Nat
  BY <1>1, <1>2, ArrivalNumbers, ArrivalsAfter
<1>4. \A i \in 1..(count + 1) : i \in 1..count \/ i = count + 1
  BY <1>3
<1>5. elapsed \in Nat /\ RateWindow \in Nat /\ RateMax \in Nat
  BY <1>1, RateAssumption DEF FrontTyped
<1>6. SUFFICES ASSUME NEW i \in 1..(count + 1), arrivals'[i].allowed
               PROVE  Cardinality(InWindowOf(i)') <= RateMax
  BY <1>3 DEF WindowRespected
<1>7. CASE i \in 1..count
  <2>1. \A j \in 1..i : j \in 1..count
    BY <1>3, <1>7
  <2>2. InWindowOf(i)' = InWindowOf(i)
    BY <1>3, <1>7, <2>1 DEF InWindowOf
  <2> QED BY <1>3, <1>6, <1>7, <2>2 DEF WindowRespected
<1>8. CASE i = count + 1
  <2>1. PICK key \in RateKeys : key = Fingerprint(hello)
    BY FingerprintIsKey
  <2>2. Allowed(key, now)
    BY <1>3, <1>6, <1>8, <2>1
  <2>3. PICK left : left = Len(Pruned(attempts[key], now))
    OBVIOUS
  <2>4. left \in Nat /\ left < RateMax
    <3>1. left \in Nat
      BY <1>1, <2>3, ArrivalNumbers, PrunedDeque, LenProperties DEF FrontTyped
    <3> QED BY <2>2, <2>3, <3>1 DEF Allowed
  <2>5. /\ IsFiniteSet(Recent(key)) /\ Cardinality(Recent(key)) \in Nat
        /\ Cardinality(Recent(key)) <= left
    BY <2>3, DequeCounts
  <2>6. ASSUME NEW j \in InWindowOf(i)', j # i
        PROVE  j \in Recent(key)
    <3>1. j \in 1..count
      BY <1>3, <1>8, <2>6 DEF InWindowOf
    <3>2. arrivals[j].hello \in HellosOf[hello]
      BY <1>3, <1>8, <3>1 DEF InWindowOf
    <3>3. Fingerprint(arrivals[j].hello) = key
      BY <1>1, <1>3, <2>1, <3>1, <3>2, ArrivalNumbers, ClientIsKey
    <3>4. j \in OfKey(key)
      BY <1>3, <3>1, <3>3 DEF OfKey
    <3>5. PICK at \in Nat : at = arrivals[j].at
      BY <1>3, <3>1
    <3>6. elapsed - at <= RateWindow
      BY <1>3, <1>8, <3>1, <3>5 DEF InWindowOf
    <3>7. at >= elapsed - RateWindow
      BY <1>5, <3>6
    <3> QED BY <3>4, <3>5, <3>7 DEF Recent
  <2>7. InWindowOf(i)' \subseteq Recent(key) \cup {i}
    BY <2>6
  <2>8. /\ IsFiniteSet(Recent(key) \cup {i})
        /\ Cardinality(Recent(key) \cup {i}) <= Cardinality(Recent(key)) + 1
    <3>1. PICK size \in Nat : size = Cardinality(Recent(key))
      BY <2>5
    <3>2. /\ IsFiniteSet(Recent(key) \cup {i})
          /\ \/ Cardinality(Recent(key) \cup {i}) = size
             \/ Cardinality(Recent(key) \cup {i}) = size + 1
      BY <2>5, <3>1, FS_AddElement
    <3> QED BY <3>1, <3>2
  <2>9. PICK window : window = InWindowOf(i)'
    OBVIOUS
  <2>10. /\ Cardinality(window) \in Nat
         /\ Cardinality(window) <= Cardinality(Recent(key) \cup {i})
         /\ Cardinality(Recent(key) \cup {i}) \in Nat
    BY <2>7, <2>8, <2>9, FS_Subset, FS_CardinalityType
  <2> QED BY <1>5, <2>4, <2>5, <2>8, <2>9, <2>10
<1> QED BY <1>4, <1>7, <1>8

(* Where JA4 tells the stacks apart, no stack is allowed more than the     *)
(* limit in any window of real time, however it shuffles its ClientHello   *)
(* and although the clock of the limiter may be set back.                  *)
THEOREM WindowIsRespected ==
  ASSUME MistakenHellos = {}
  PROVE  FrontSpec => []WindowRespected
<1>1. FrontInit => WindowRespected
  <2> SUFFICES ASSUME FrontInit PROVE WindowRespected
    OBVIOUS
  <2>1. DOMAIN arrivals = {}
    BY DEF FrontInit
  <2> QED BY <2>1 DEF WindowRespected
<1>2. LimiterInvariant /\ WindowRespected /\ [FrontNext]_frontVars => WindowRespected'
  <2> SUFFICES ASSUME LimiterInvariant, WindowRespected, [FrontNext]_frontVars
               PROVE  WindowRespected'
    OBVIOUS
  <2>1. CASE RequestToken
    BY <2>1, WindowKept
  <2>2. CASE ~RequestToken
    <3>1. arrivals' = arrivals
      BY <2>2 DEF FrontNext, TlsClientHello, Tick, SetClockBack, frontVars
    <3> QED BY <3>1 DEF WindowRespected, InWindowOf
  <2> QED BY <2>1, <2>2
<1> QED BY <1>1, <1>2, LimiterInvariantHolds, PTL DEF FrontSpec

(***************************************************************************)
(* The registry.  What becomes of its order when a fingerprint is          *)
(* recorded: the others keep it, the new one comes last, and the oldest    *)
(* may be forgotten.                                                       *)
(***************************************************************************)
Distinct(reg) == \A p, q \in 1..Len(reg) : reg[p] = reg[q] => p = q

(* The entries of new are those of reg at the given places, in order.      *)
TakenFrom(new, reg, m, pos) ==
  /\ pos \in [1..m -> 1..Len(reg)]
  /\ \A p, q \in 1..m : p < q => pos[p] < pos[q]
  /\ \A p \in 1..m : new[p] = reg[pos[p]]

LEMMA OthersInOrder ==
  ASSUME NEW S, NEW reg, reg \in Seq(S), Distinct(reg), NEW x
  PROVE  \E m, pos :
           /\ m \in Nat
           /\ Others(reg, x) \in Seq(S) /\ Len(Others(reg, x)) = m
           /\ m = IF Contains(reg, x) THEN Len(reg) - 1 ELSE Len(reg)
           /\ TakenFrom(Others(reg, x), reg, m, pos)
           /\ \A p \in 1..m : reg[pos[p]] # x
           /\ \A q \in 1..Len(reg) : reg[q] # x => \E p \in 1..m : pos[p] = q
<1>1. PICK len \in Nat :
        len = Len(reg) /\ DOMAIN reg = 1..len /\ \A i \in 1..len : reg[i] \in S
  BY LenProperties, ElementOfSeq
<1>2. CASE ~Contains(reg, x)
  <2> DEFINE pos == [p \in 1..len |-> p]
  <2>1. Others(reg, x) = reg
    BY <1>2 DEF Others
  <2>2. TakenFrom(reg, reg, len, pos)
    BY <1>1 DEF TakenFrom
  <2>3. \A p \in 1..len : reg[pos[p]] # x
    BY <1>1, <1>2 DEF Contains
  <2>4. \A q \in 1..len : pos[q] = q
    OBVIOUS
  <2> HIDE DEF pos
  <2> QED BY <1>1, <1>2, <2>1, <2>2, <2>3, <2>4
<1>3. CASE Contains(reg, x)
  <2>1. PICK k : k = (CHOOSE i \in DOMAIN reg : reg[i] = x)
    OBVIOUS
  <2>2. k \in 1..len /\ reg[k] = x
    BY <1>1, <1>3, <2>1 DEF Contains
  <2>3. PICK m : m = len - 1
    OBVIOUS
  <2>4. m \in Nat /\ len = m + 1 /\ k \in Nat
    BY <1>1, <2>2, <2>3
  <2>5. PICK head, tail : head = SubSeq(reg, 1, k - 1) /\ tail = SubSeq(reg, k + 1, len)
    OBVIOUS
  <2>6. PICK rest : rest = Others(reg, x)
    OBVIOUS
  <2>7. rest = head \o tail
    BY <1>1, <1>3, <2>1, <2>5, <2>6 DEF Others, RemoveAt
  <2>8. /\ head \in Seq(S) /\ Len(head) = k - 1
        /\ \A i \in 1..(k - 1) : head[i] = reg[i]
    <3>1. \A i \in 1..(k - 1) : reg[i] \in S
      BY <1>1, <2>2
    <3>2. /\ head \in Seq(S)
          /\ Len(head) = IF 1 <= k - 1 THEN (k - 1) - 1 + 1 ELSE 0
          /\ \A i \in 1..((k - 1) - 1 + 1) : head[i] = reg[1 + i - 1]
      BY <2>4, <2>5, <3>1, SubSeqProperties
    <3> QED BY <2>2, <2>4, <3>2
  <2>9. /\ tail \in Seq(S) /\ Len(tail) = len - k
        /\ \A i \in 1..(len - k) : tail[i] = reg[k + i]
    <3>1. \A i \in (k + 1)..len : reg[i] \in S
      BY <1>1, <2>2
    <3>2. /\ tail \in Seq(S)
          /\ Len(tail) = IF k + 1 <= len THEN len - (k + 1) + 1 ELSE 0
          /\ \A i \in 1..(len - (k + 1) + 1) : tail[i] = reg[(k + 1) + i - 1]
      BY <1>1, <2>4, <2>5, <3>1, SubSeqProperties
    <3>3. len - (k + 1) + 1 = len - k /\ \A i \in 1..(len - k) : (k + 1) + i - 1 = k + i
      BY <1>1, <2>4
    <3>4. Len(tail) = len - k
      BY <1>1, <2>2, <3>2
    <3> QED BY <3>2, <3>3, <3>4
  <2>10. /\ rest \in Seq(S) /\ Len(rest) = m
         /\ \A p \in 1..m : rest[p] = IF p < k THEN reg[p] ELSE reg[p + 1]
    <3>1. /\ rest \in Seq(S) /\ Len(rest) = Len(head) + Len(tail)
          /\ \A p \in 1..(Len(head) + Len(tail)) :
               rest[p] = IF p <= Len(head) THEN head[p] ELSE tail[p - Len(head)]
      BY <2>7, <2>8, <2>9, ConcatProperties
    <3>2. Len(head) + Len(tail) = m
      BY <2>2, <2>4, <2>8, <2>9
    <3>3. ASSUME NEW p \in 1..m, p < k
          PROVE  rest[p] = reg[p]
      <4>1. p \in 1..(k - 1) /\ p <= Len(head)
        BY <2>4, <2>8, <3>3
      <4> QED BY <2>8, <3>1, <3>2, <4>1
    <3>4. ASSUME NEW p \in 1..m, ~(p < k)
          PROVE  rest[p] = reg[p + 1]
      <4>1. /\ ~(p <= Len(head)) /\ p - (k - 1) \in 1..(len - k)
            /\ k + (p - (k - 1)) = p + 1
        BY <2>2, <2>4, <2>8, <3>4
      <4> QED BY <2>8, <2>9, <3>1, <3>2, <4>1
    <3> QED BY <3>1, <3>2, <3>3, <3>4
  <2> DEFINE pos == [p \in 1..m |-> IF p < k THEN p ELSE p + 1]
  <2>11. \A p \in 1..m : pos[p] = IF p < k THEN p ELSE p + 1
    OBVIOUS
  <2>12. pos \in [1..m -> 1..len]
    BY <2>4
  <2> HIDE DEF pos
  <2>13. TakenFrom(rest, reg, m, pos)
    <3>1. \A p, q \in 1..m : p < q => pos[p] < pos[q]
      BY <2>4, <2>11
    <3>2. \A p \in 1..m : rest[p] = reg[pos[p]]
      BY <2>10, <2>11
    <3> QED BY <1>1, <2>12, <3>1, <3>2 DEF TakenFrom
  <2>14. \A p \in 1..m : reg[pos[p]] # x
    <3>1. \A p \in 1..m : pos[p] \in 1..len /\ pos[p] # k
      BY <2>4, <2>11, <2>12
    <3> QED BY <1>1, <2>2, <3>1 DEF Distinct
  <2>15. ASSUME NEW q \in 1..len, reg[q] # x
         PROVE  \E p \in 1..m : pos[p] = q
    <3>1. q # k
      BY <2>2, <2>15
    <3>2. CASE q < k
      <4>1. q \in 1..m
        BY <2>2, <2>4, <3>2
      <4> QED BY <2>11, <3>2, <4>1
    <3>3. CASE q > k
      <4>1. q - 1 \in 1..m /\ ~(q - 1 < k) /\ (q - 1) + 1 = q
        BY <2>2, <2>4, <3>3
      <4> QED BY <2>11, <4>1
    <3> QED BY <2>4, <3>1, <3>2, <3>3
  <2> QED BY <1>1, <1>3, <2>3, <2>4, <2>6, <2>10, <2>13, <2>14, <2>15
<1> QED BY <1>2, <1>3

(* Of the registry after a record.                                         *)
Recorded(new, reg, x, m, pos) ==
  /\ new \in Seq(JA4s) /\ Len(new) = m + 1 /\ m + 1 <= RegistrySize
  /\ TakenFrom(new, reg, m, pos)
  /\ new[m + 1] = x
  /\ \A p \in 1..m : new[p] # x
  /\ Len(reg) = RegistrySize => m + 1 = RegistrySize
  /\ \/ \A q \in 1..Len(reg) : reg[q] # x => \E p \in 1..m : pos[p] = q
     \/ /\ m + 1 = RegistrySize
        /\ \A q \in 1..Len(reg) : q # 1 => \E p \in 1..m : pos[p] = q

LEMMA RecordKeepsOrder ==
  ASSUME NEW reg, reg \in Seq(JA4s), Distinct(reg), Len(reg) <= RegistrySize,
         NEW x \in JA4s
  PROVE  \E m, pos : m \in Nat /\ Recorded(Record(reg, x), reg, x, m, pos)
<1>1. PICK len \in Nat : len = Len(reg) /\ \A i \in 1..len : reg[i] \in JA4s
  BY LenProperties, ElementOfSeq
<1>2. PICK rest : rest = Others(reg, x)
  OBVIOUS
<1>3. PICK m, pos :
        /\ m \in Nat
        /\ rest \in Seq(JA4s) /\ Len(rest) = m
        /\ m = IF Contains(reg, x) THEN len - 1 ELSE len
        /\ TakenFrom(rest, reg, m, pos)
        /\ \A p \in 1..m : reg[pos[p]] # x
        /\ \A q \in 1..len : reg[q] # x => \E p \in 1..m : pos[p] = q
  BY <1>1, <1>2, OthersInOrder
<1>4. PICK all : all = Append(rest, x)
  OBVIOUS
<1>5. /\ all \in Seq(JA4s) /\ Len(all) = m + 1
      /\ \A p \in 1..m : all[p] = rest[p]
      /\ all[m + 1] = x
  BY <1>3, <1>4, AppendProperties
<1>6. PICK size \in Nat \ {0} : size = RegistrySize
  BY FrontAssumption
<1>7. TakenFrom(all, reg, m, pos) /\ \A p \in 1..m : all[p] # x
  BY <1>3, <1>5 DEF TakenFrom
<1>8. Record(reg, x) = IF m + 1 > size THEN Tail(all) ELSE all
  BY <1>2, <1>4, <1>5, <1>6 DEF Record
<1>9. CASE ~(m + 1 > size)
  <2>1. m + 1 <= size /\ (len = size => m + 1 = size)
    BY <1>1, <1>3, <1>6, <1>9
  <2>2. Recorded(all, reg, x, m, pos)
    BY <1>1, <1>3, <1>5, <1>6, <1>7, <2>1 DEF Recorded
  <2>3. m \in Nat
    BY <1>3
  <2> QED BY <1>8, <1>9, <2>2, <2>3
<1>10. CASE m + 1 > size
  <2>1. ~Contains(reg, x) /\ m = len /\ m = size
    BY <1>1, <1>3, <1>6, <1>10
  <2>2. PICK k : k = m - 1
    OBVIOUS
  <2>3. k \in Nat /\ m = k + 1
    BY <1>3, <1>6, <2>1, <2>2
  <2>4. PICK new : new = Tail(all)
    OBVIOUS
  <2>5. all # <<>>
    BY <1>3, <1>5, EmptySeq
  <2>6. /\ new \in Seq(JA4s) /\ Len(new) = k + 1
        /\ \A p \in 1..(k + 1) : new[p] = all[p + 1]
    <3>1. /\ new \in Seq(JA4s) /\ Len(new) = Len(all) - 1
          /\ \A p \in 1..Len(new) : new[p] = all[p + 1]
      BY <1>5, <2>4, <2>5, HeadTailProperties
    <3>2. Len(new) = k + 1
      BY <1>5, <2>3, <3>1
    <3> QED BY <3>1, <3>2
  <2> DEFINE behind == [p \in 1..k |-> pos[p + 1]]
  <2>7. \A p \in 1..k : p + 1 \in 1..m
    BY <2>3
  <2>8. \A p \in 1..k : behind[p] = pos[p + 1]
    OBVIOUS
  <2>9. behind \in [1..k -> 1..Len(reg)]
    BY <1>3, <2>7 DEF TakenFrom
  <2> HIDE DEF behind
  <2>10. TakenFrom(new, reg, k, behind) /\ \A p \in 1..k : new[p] # x
    <3>1. \A p, q \in 1..k : p < q => behind[p] < behind[q]
      <4> TAKE p, q \in 1..k
      <4> HAVE p < q
      <4>1. p + 1 < q + 1
        BY <2>3
      <4> QED BY <1>3, <2>7, <2>8, <4>1 DEF TakenFrom
    <3>2. \A p \in 1..k : new[p] = reg[behind[p]] /\ new[p] # x
      <4> TAKE p \in 1..k
      <4>1. p \in 1..(k + 1)
        BY <2>3
      <4> QED BY <1>7, <2>6, <2>7, <2>8, <4>1 DEF TakenFrom
    <3> QED BY <2>9, <3>1, <3>2 DEF TakenFrom
  <2>11. new[k + 1] = x
    <3>1. k + 1 \in 1..(k + 1) /\ (k + 1) + 1 = m + 1
      BY <2>3
    <3> QED BY <1>5, <2>6, <3>1
  <2>12. ASSUME NEW q \in 1..len, q # 1
         PROVE  \E p \in 1..k : behind[p] = q
    <3>1. PICK p \in 1..m : pos[p] = q
      BY <1>1, <1>3, <2>1, <2>12 DEF Contains
    <3>2. p # 1
      <4> SUFFICES ASSUME p = 1 PROVE FALSE
        OBVIOUS
      <4>1. PICK r \in 1..m : pos[r] = 1
        <5>1. 1 \in 1..len
          BY <1>6, <2>1
        <5> QED BY <1>1, <1>3, <2>1, <5>1 DEF Contains
      <4>2. r # 1 /\ 1 < r
        BY <2>12, <3>1, <4>1
      <4>3. pos[1] < pos[r] /\ 1 \in 1..m
        BY <1>3, <3>1, <4>2 DEF TakenFrom
      <4> QED BY <1>1, <2>12, <3>1, <4>1, <4>3
    <3>3. p - 1 \in 1..k /\ (p - 1) + 1 = p
      BY <2>3, <3>2
    <3> QED BY <2>8, <3>1, <3>3
  <2>13. k + 1 = size
    BY <2>1, <2>3
  <2>14. Recorded(new, reg, x, k, behind)
    BY <1>1, <1>6, <2>3, <2>6, <2>10, <2>11, <2>12, <2>13 DEF Recorded
  <2> QED BY <1>8, <1>10, <2>3, <2>4, <2>14
<1> QED BY <1>9, <1>10

(***************************************************************************)
(* What was seen since.                                                    *)
(***************************************************************************)
SeenAt(i) == Fingerprint(connections[i])

(* The numbers of the ClientHellos after the last with this fingerprint.   *)
Later(ja4) ==
  {i \in 1..Len(connections) :
     \A j \in 1..Len(connections) : SeenAt(j) = ja4 => j < i}

ConnectionsTyped == connections \in Seq(Optional(Dialled))

SeenSinceIsLater ==
  \A ja4 \in Seen : SeenSince(ja4) = {SeenAt(i) : i \in Later(ja4)} \ {None}

LEMMA SinceIsLater == ConnectionsTyped => SeenSinceIsLater
<1> SUFFICES ASSUME ConnectionsTyped, NEW ja4 \in Seen
             PROVE  SeenSince(ja4) = {SeenAt(i) : i \in Later(ja4)} \ {None}
  BY DEF SeenSinceIsLater
<1>1. PICK n \in Nat : n = Len(connections) /\ DOMAIN connections = 1..n
  BY LenProperties DEF ConnectionsTyped
<1> DEFINE S == {i \in DOMAIN connections : SeenAt(i) = ja4}
<1>2. S # {} /\ S \subseteq 1..n
  BY <1>1 DEF Seen, SeenAt
<1>3. \E last \in S : \A i \in S : last >= i
  <2> HIDE DEF S
  <2>1. {n - i : i \in S} \subseteq Nat /\ {n - i : i \in S} # {}
    <3>1. \A i \in 1..n : n - i \in Nat
      BY <1>1
    <3>2. PICK i \in S : TRUE
      BY <1>2
    <3>3. n - i \in {n - j : j \in S}
      BY <3>2
    <3> QED BY <1>2, <3>1, <3>3
  <2>2. PICK least \in {n - i : i \in S} : \A d \in {n - i : i \in S} : least <= d
    BY <2>1, SmallestNumber
  <2>3. PICK last \in S : least = n - last
    BY <2>2
  <2>4. \A i \in S : n - last <= n - i
    BY <2>2, <2>3
  <2>5. \A i \in S : last >= i
    BY <1>1, <1>2, <2>3, <2>4
  <2> QED BY <2>3, <2>5
<1>4. PICK last : last = Max(S)
  OBVIOUS
<1>5. last \in S /\ \A i \in S : last >= i
  BY <1>3, <1>4 DEF Max
<1>6. {j \in DOMAIN connections : j > last} = Later(ja4)
  <2>1. ASSUME NEW i \in 1..n, i > last, NEW j \in 1..n, SeenAt(j) = ja4
        PROVE  j < i
    BY <1>1, <1>2, <1>5, <2>1
  <2>2. ASSUME NEW i \in 1..n, \A j \in 1..n : SeenAt(j) = ja4 => j < i
        PROVE  i > last
    BY <1>1, <1>2, <1>5, <2>2
  <2> HIDE DEF S
  <2> QED BY <1>1, <2>1, <2>2 DEF Later
<1>7. SeenSince(ja4) = {SeenAt(i) : i \in {j \in DOMAIN connections : j > last}} \ {None}
  BY <1>4 DEF SeenSince, SeenAt
<1> QED BY <1>6, <1>7

LEMMA SinceIsLaterNext == ConnectionsTyped' => SeenSinceIsLater'
BY SinceIsLater, PTL

(* A ClientHello that arrives is seen since every other, and nothing since *)
(* it.                                                                     *)
LEMMA HelloIsSeen ==
  ASSUME ConnectionsTyped, NEW hello \in Optional(Dialled),
         connections' = Append(connections, hello)
  PROVE  /\ Seen' = Seen \cup ({Fingerprint(hello)} \ {None})
         /\ Fingerprint(hello) # None => SeenSince(Fingerprint(hello))' = {}
         /\ \A ja4 \in Seen :
              ja4 # Fingerprint(hello) =>
                SeenSince(ja4)' = SeenSince(ja4) \cup ({Fingerprint(hello)} \ {None})
<1> DEFINE x == Fingerprint(hello)
<1>1. PICK n \in Nat : n = Len(connections) /\ DOMAIN connections = 1..n
  BY LenProperties DEF ConnectionsTyped
<1>2. /\ Len(connections') = n + 1 /\ DOMAIN connections' = 1..(n + 1)
      /\ \A i \in 1..n : connections'[i] = connections[i]
      /\ connections'[n + 1] = hello
      /\ ConnectionsTyped'
  BY <1>1, AppendProperties DEF ConnectionsTyped
<1>3. /\ \A i \in 1..n : SeenAt(i)' = SeenAt(i)
      /\ SeenAt(n + 1)' = x
  BY <1>2 DEF SeenAt
<1>4. Seen = {SeenAt(i) : i \in 1..n} \ {None}
  BY <1>1 DEF Seen, SeenAt
<1>5. Seen' = {SeenAt(i)' : i \in 1..(n + 1)} \ {None}
  BY <1>2 DEF Seen, SeenAt
<1>6. \A i \in 1..(n + 1) : i \in 1..n \/ i = n + 1
  BY <1>1
<1>7. n + 1 \in 1..(n + 1) /\ \A i \in 1..n : i \in 1..(n + 1) /\ i < n + 1 /\ i # n + 1
  BY <1>1
<1> HIDE DEF x
<1>8. Seen' = Seen \cup ({x} \ {None})
  BY <1>3, <1>4, <1>5, <1>6, <1>7
<1>9. \A y \in Seen' : SeenSince(y)' = {SeenAt(i)' : i \in Later(y)'} \ {None}
  BY <1>2, SinceIsLaterNext DEF SeenSinceIsLater
<1>10. \A y : Later(y)' = {i \in 1..(n + 1) :
                             \A j \in 1..(n + 1) : SeenAt(j)' = y => j < i}
  BY <1>2 DEF Later
<1>11. \A y : Later(y) = {i \in 1..n : \A j \in 1..n : SeenAt(j) = y => j < i}
  BY <1>1 DEF Later
<1>12. ASSUME x # None
       PROVE  SeenSince(x)' = {}
  <2>1. Later(x)' = {}
    <3>1. \A i \in 1..(n + 1) : ~(n + 1 < i)
      BY <1>1
    <3> QED BY <1>3, <1>7, <1>10, <3>1
  <2>2. x \in Seen'
    BY <1>8, <1>12
  <2> QED BY <1>9, <2>1, <2>2
<1>13. ASSUME NEW y \in Seen, y # x
       PROVE  SeenSince(y)' = SeenSince(y) \cup ({x} \ {None})
  <2>1. Later(y)' = Later(y) \cup {n + 1}
    <3>1. \A i \in 1..n : i \in Later(y)' <=> i \in Later(y)
      BY <1>3, <1>6, <1>7, <1>10, <1>11, <1>13
    <3>2. n + 1 \in Later(y)'
      BY <1>3, <1>6, <1>7, <1>10, <1>13
    <3> QED BY <1>6, <1>10, <1>11, <3>1, <3>2
  <2>2. SeenSince(y) = {SeenAt(i) : i \in Later(y)} \ {None}
    BY SinceIsLater, <1>13 DEF SeenSinceIsLater
  <2>3. SeenSince(y)' = {SeenAt(i)' : i \in Later(y)'} \ {None}
    BY <1>8, <1>9, <1>13
  <2>4. \A i \in Later(y) : SeenAt(i)' = SeenAt(i)
    BY <1>3, <1>11
  <2> QED BY <1>3, <2>1, <2>2, <2>3, <2>4
<1> QED BY <1>8, <1>12, <1>13 DEF x

(***************************************************************************)
(* What is remembered is in the order in which it was seen last.           *)
(***************************************************************************)
LEMMA StillDistinct ==
  ASSUME NEW reg, NEW new, NEW x, NEW m \in Nat, NEW pos,
         Len(reg) \in Nat, Distinct(reg), Recorded(new, reg, x, m, pos)
  PROVE  Distinct(new)
<1>1. /\ Len(new) = m + 1 /\ new[m + 1] = x
      /\ \A p \in 1..m : new[p] # x /\ new[p] = reg[pos[p]]
      /\ \A p \in 1..m : pos[p] \in 1..Len(reg)
      /\ \A p, q \in 1..m : p < q => pos[p] < pos[q]
  BY DEF Recorded, TakenFrom
<1>2. \A p \in 1..(m + 1) : p \in 1..m \/ p = m + 1
  OBVIOUS
<1>3. ASSUME NEW p \in 1..m, NEW q \in 1..m, new[p] = new[q]
      PROVE  p = q
  <2>1. pos[p] = pos[q]
    BY <1>1, <1>3 DEF Distinct
  <2>2. pos[p] \in Nat /\ pos[q] \in Nat
    BY <1>1
  <2>3. ~(p < q) /\ ~(q < p)
    BY <1>1, <2>1, <2>2
  <2> QED BY <2>3
<1> QED BY <1>1, <1>2, <1>3 DEF Distinct

(* Nothing follows the fingerprint recorded last; it follows every other;  *)
(* what is not remembered any more was the oldest.                         *)
LEMMA FollowingRecorded ==
  ASSUME NEW reg, NEW new, NEW x, NEW m \in Nat, NEW pos,
         Len(reg) \in Nat, Distinct(reg), Recorded(new, reg, x, m, pos)
  PROVE  /\ Contains(new, x) /\ Following(new, x) = {}
         /\ \A y : y # x /\ Contains(new, y) =>
              /\ Contains(reg, y)
              /\ Following(new, y) = Following(reg, y) \cup {x}
         /\ \A y : y # x /\ ~Contains(new, y) /\ Contains(reg, y) =>
              /\ m + 1 = RegistrySize
              /\ \A p \in 1..m : new[p] \in Following(reg, y)
<1>1. PICK len \in Nat : len = Len(reg)
  OBVIOUS
<1>2. /\ Len(new) = m + 1 /\ new[m + 1] = x
      /\ \A p \in 1..m : new[p] # x /\ new[p] = reg[pos[p]]
      /\ \A p \in 1..m : pos[p] \in 1..len /\ pos[p] \in Nat
      /\ \A p, q \in 1..m : p < q => pos[p] < pos[q]
      /\ \A p, q \in 1..len : reg[p] = reg[q] => p = q
      /\ \/ \A q \in 1..len : reg[q] # x => \E p \in 1..m : pos[p] = q
         \/ /\ m + 1 = RegistrySize
            /\ \A q \in 1..len : q # 1 => \E p \in 1..m : pos[p] = q
  BY <1>1 DEF Recorded, TakenFrom, Distinct
<1>3. /\ \A p \in 1..(m + 1) : p \in 1..m \/ p = m + 1
      /\ \A p \in 1..m : p \in 1..(m + 1) /\ p < m + 1
      /\ m + 1 \in 1..(m + 1)
  OBVIOUS
<1>4. \A y, z : z \in Following(new, y) <=>
        \E p, q \in 1..(m + 1) : p < q /\ new[p] = y /\ new[q] = z
  <2> TAKE y, z
  <2>1. \A q \in 1..(m + 1) : \A p : p \in 1..(q - 1) <=> p \in 1..(m + 1) /\ p < q
    OBVIOUS
  <2> QED BY <1>2, <2>1 DEF Following
<1>5. \A y, z : z \in Following(reg, y) <=>
        \E p, q \in 1..len : p < q /\ reg[p] = y /\ reg[q] = z
  <2> TAKE y, z
  <2>1. \A q \in 1..len : \A p : p \in 1..(q - 1) <=> p \in 1..len /\ p < q
    BY <1>1
  <2> QED BY <1>1, <2>1 DEF Following
<1>6. Contains(new, x) /\ Following(new, x) = {}
  <2>1. \A p \in 1..(m + 1) : new[p] = x => p = m + 1
    BY <1>2, <1>3
  <2>2. \A p \in 1..(m + 1) : ~(m + 1 < p)
    OBVIOUS
  <2>3. \A z : z \notin Following(new, x)
    BY <1>4, <2>1, <2>2
  <2> QED BY <1>2, <1>3, <2>3 DEF Contains
<1>7. ASSUME NEW y, y # x, Contains(new, y)
      PROVE  /\ Contains(reg, y)
             /\ Following(new, y) = Following(reg, y) \cup {x}
  <2>1. PICK p \in 1..m : new[p] = y /\ reg[pos[p]] = y
    BY <1>2, <1>3, <1>7 DEF Contains
  <2>2. Contains(reg, y)
    BY <1>1, <1>2, <2>1 DEF Contains
  <2>3. x \in Following(new, y)
    BY <1>2, <1>3, <1>4, <2>1
  <2>4. ASSUME NEW z \in Following(reg, y), z # x
        PROVE  z \in Following(new, y)
    <3>1. PICK s \in 1..len, r \in 1..len : s < r /\ reg[s] = y /\ reg[r] = z
      BY <1>5, <2>4
    <3>2. s = pos[p] /\ r # 1
      BY <1>2, <2>1, <3>1
    <3>3. PICK q \in 1..m : pos[q] = r
      BY <1>2, <2>4, <3>1, <3>2
    <3>4. ~(q < p) /\ q # p
      BY <1>2, <2>1, <3>1, <3>2, <3>3
    <3>5. p < q
      BY <2>1, <3>3, <3>4
    <3>6. new[q] = z
      BY <1>2, <3>1, <3>3
    <3> QED BY <1>3, <1>4, <2>1, <3>3, <3>5, <3>6
  <2>5. ASSUME NEW z \in Following(new, y), z # x
        PROVE  z \in Following(reg, y)
    <3>1. PICK s \in 1..(m + 1), r \in 1..(m + 1) : s < r /\ new[s] = y /\ new[r] = z
      BY <1>4, <2>5
    <3>2. s \in 1..m /\ r \in 1..m
      BY <1>2, <1>3, <1>7, <2>5, <3>1
    <3> QED BY <1>2, <1>5, <3>1, <3>2
  <2> QED BY <2>2, <2>3, <2>4, <2>5
<1>8. ASSUME NEW y, y # x, ~Contains(new, y), Contains(reg, y)
      PROVE  m + 1 = RegistrySize /\ \A p \in 1..m : new[p] \in Following(reg, y)
  <2>1. PICK s \in 1..len : reg[s] = y
    BY <1>1, <1>8 DEF Contains
  <2>2. \A p \in 1..m : pos[p] # s
    BY <1>2, <1>3, <1>8, <2>1 DEF Contains
  <2>3. m + 1 = RegistrySize /\ s = 1
    BY <1>2, <1>8, <2>1, <2>2
  <2>4. ASSUME NEW p \in 1..m
        PROVE  new[p] \in Following(reg, y)
    <3>1. s < pos[p] /\ pos[p] \in 1..len /\ new[p] = reg[pos[p]]
      BY <1>2, <2>2, <2>3, <2>4
    <3> QED BY <1>5, <2>1, <3>1
  <2> QED BY <2>3, <2>4
<1> QED BY <1>6, <1>7, <1>8

LEMMA RegistryStarts == FrontInit => RegistryInvariant
<1> SUFFICES ASSUME FrontInit PROVE RegistryInvariant
  OBVIOUS
<1>1. registry = <<>> /\ connections = <<>> /\ Len(registry) = 0
  BY DEF FrontInit
<1>2. Seen = {}
  BY <1>1 DEF Seen
<1>3. registry \in Seq(JA4s)
  BY <1>1, EmptySeq
<1>4. Len(registry) <= RegistrySize
  BY <1>1, FrontAssumption
<1> QED BY <1>1, <1>2, <1>3, <1>4 DEF RegistryInvariant

(* A ClientHello that does not parse, and whatever is no ClientHello.      *)
LEMMA RegistryUntouched ==
  ASSUME RegistryInvariant, UNCHANGED <<registry, Seen>>,
         \A ja4 \in Seen : SeenSince(ja4)' = SeenSince(ja4)
  PROVE  RegistryInvariant'
BY DEF RegistryInvariant, Following

LEMMA HelloKeepsRegistry ==
  ASSUME ConnectionsTyped, RegistryInvariant,
         NEW hello \in Optional(Dialled), TlsClientHello(hello)
  PROVE  RegistryInvariant'
<1>1. /\ connections' = Append(connections, hello)
      /\ registry' = IF hello = None THEN registry
                     ELSE Record(registry, Fingerprint(hello))
  BY DEF TlsClientHello
<1> DEFINE x == Fingerprint(hello)
<1>2. /\ Seen' = Seen \cup ({x} \ {None})
      /\ x # None => SeenSince(x)' = {}
      /\ \A y \in Seen : y # x => SeenSince(y)' = SeenSince(y) \cup ({x} \ {None})
  BY <1>1, HelloIsSeen
<1>3. None \notin Seen
  BY DEF Seen
<1>4. CASE hello = None
  <2>1. x = None
    BY <1>4 DEF Fingerprint
  <2> QED BY <1>1, <1>2, <1>3, <1>4, <2>1, RegistryUntouched
<1>5. CASE hello # None
  <2>1. x \in JA4s /\ x # None
    BY <1>5, FrontAssumption, NoneAssumption DEF Optional, Fingerprint
  <2>2. PICK reg, new : reg = registry /\ new = registry'
    OBVIOUS
  <2>3. /\ reg \in Seq(JA4s) /\ Len(reg) \in Nat /\ Len(reg) <= RegistrySize
        /\ Distinct(reg)
        /\ \A p \in 1..Len(reg) : reg[p] \in Seen
        /\ \A y \in Seen :
             IF Contains(reg, y) THEN SeenSince(y) = Following(reg, y)
             ELSE /\ Len(reg) = RegistrySize
                  /\ \A p \in 1..Len(reg) : reg[p] \in SeenSince(y)
    BY <2>2, LenProperties DEF RegistryInvariant, Distinct
  <2> HIDE DEF x
  <2>4. PICK m, pos : m \in Nat /\ Recorded(new, reg, x, m, pos)
    BY <1>1, <1>5, <2>1, <2>2, <2>3, RecordKeepsOrder DEF x
  <2>5. /\ new \in Seq(JA4s) /\ Len(new) = m + 1 /\ m + 1 <= RegistrySize
        /\ new[m + 1] = x
        /\ \A p \in 1..m : pos[p] \in 1..Len(reg) /\ new[p] = reg[pos[p]]
        /\ Len(reg) = RegistrySize => m + 1 = RegistrySize
    BY <2>4 DEF Recorded, TakenFrom
  <2>6. Distinct(new)
    BY <2>3, <2>4, StillDistinct
  <2>7. /\ Contains(new, x) /\ Following(new, x) = {}
        /\ \A y : y # x /\ Contains(new, y) =>
             Contains(reg, y) /\ Following(new, y) = Following(reg, y) \cup {x}
        /\ \A y : y # x /\ ~Contains(new, y) /\ Contains(reg, y) =>
             m + 1 = RegistrySize /\ \A p \in 1..m : new[p] \in Following(reg, y)
    BY <2>3, <2>4, FollowingRecorded
  <2>8. \A p \in 1..(m + 1) : p \in 1..m \/ p = m + 1
    BY <2>4
  <2>9. \A p \in 1..(m + 1) : new[p] \in Seen'
    BY <1>2, <2>1, <2>3, <2>5, <2>8
  <2>10. ASSUME NEW y \in Seen'
         PROVE  IF Contains(new, y) THEN SeenSince(y)' = Following(new, y)
                ELSE /\ m + 1 = RegistrySize
                     /\ \A p \in 1..(m + 1) : new[p] \in SeenSince(y)'
    <3>1. CASE y = x
      BY <1>2, <2>1, <2>7, <3>1
    <3>2. CASE y # x
      <4>1. y \in Seen /\ SeenSince(y)' = SeenSince(y) \cup {x}
        BY <1>2, <2>1, <2>10, <3>2
      <4>2. CASE Contains(new, y)
        BY <2>3, <2>7, <3>2, <4>1, <4>2
      <4>3. CASE ~Contains(new, y) /\ Contains(reg, y)
        BY <2>3, <2>5, <2>7, <2>8, <3>2, <4>1, <4>3
      <4>4. CASE ~Contains(new, y) /\ ~Contains(reg, y)
        BY <2>3, <2>5, <2>8, <3>2, <4>1, <4>4
      <4> QED BY <4>2, <4>3, <4>4
    <3> QED BY <3>1, <3>2
  <2>11. /\ registry' \in Seq(JA4s) /\ Len(registry') = m + 1
         /\ m + 1 <= RegistrySize
         /\ \A p, q \in 1..(m + 1) : registry'[p] = registry'[q] => p = q
         /\ \A p \in 1..(m + 1) : registry'[p] \in Seen'
         /\ \A y \in Seen' :
              IF Contains(registry', y) THEN SeenSince(y)' = Following(registry', y)
              ELSE /\ m + 1 = RegistrySize
                   /\ \A p \in 1..(m + 1) : registry'[p] \in SeenSince(y)'
    BY <2>2, <2>5, <2>6, <2>9, <2>10 DEF Distinct
  <2> QED BY <2>11 DEF RegistryInvariant, Following
<1> QED BY <1>4, <1>5

LEMMA OthersKeepRegistry ==
  ASSUME RegistryInvariant, UNCHANGED <<registry, connections>>
  PROVE  RegistryInvariant'
<1>1. UNCHANGED Seen /\ \A ja4 \in Seen : SeenSince(ja4)' = SeenSince(ja4)
  BY DEF Seen, SeenSince, Fingerprint
<1> QED BY <1>1, RegistryUntouched

(* The registry holds the fingerprints seen last, in the order in which    *)
(* they were, and forgets none before it is full of newer ones             *)
(* (ja4_registry.py, Ja4Registry.record).                                  *)
THEOREM RegistryInvariantHolds == FrontSpec => []RegistryInvariant
<1>1. LimiterInvariant /\ RegistryInvariant /\ [FrontNext]_frontVars
        => RegistryInvariant'
  <2> SUFFICES ASSUME LimiterInvariant, RegistryInvariant, [FrontNext]_frontVars
               PROVE  RegistryInvariant'
    OBVIOUS
  <2>1. ASSUME NEW hello \in Optional(Dialled), TlsClientHello(hello)
        PROVE  RegistryInvariant'
    BY <2>1, HelloKeepsRegistry DEF LimiterInvariant, ConnectionsTyped
  <2>2. CASE UNCHANGED <<registry, connections>>
    BY <2>2, OthersKeepRegistry
  <2> QED
    BY <2>1, <2>2 DEF FrontNext, RequestToken, Tick, SetClockBack, frontVars
<1> QED BY <1>1, RegistryStarts, LimiterInvariantHolds, PTL DEF FrontSpec

(* The types of what the front of the proxy keeps.                         *)
THEOREM FrontTypeCorrect == FrontSpec => []FrontTypeOK
<1>1. LimiterInvariant /\ RegistryInvariant => FrontTypeOK
  <2> SUFFICES ASSUME LimiterInvariant, RegistryInvariant PROVE FrontTypeOK
    OBVIOUS
  <2>1. \A i \in DOMAIN arrivals :
          arrivals[i] \in [hello: Optional(Dialled), at: Nat, allowed: BOOLEAN]
    BY LenProperties, ElementOfSeq DEF LimiterInvariant
  <2> QED BY <2>1 DEF LimiterInvariant, RegistryInvariant, FrontTypeOK
<1> QED BY <1>1, LimiterInvariantHolds, RegistryInvariantHolds, PTL

(***************************************************************************)
(* Whoever was seen and is not forgotten is in the registry.               *)
(***************************************************************************)
LEMMA SeenIsFinite ==
  ASSUME ConnectionsTyped
  PROVE  IsFiniteSet(Seen) /\ \A ja4 \in Seen : SeenSince(ja4) \subseteq Seen
<1>1. PICK n \in Nat : n = Len(connections) /\ DOMAIN connections = 1..n
  BY LenProperties DEF ConnectionsTyped
<1>2. IsFiniteSet(1..n)
  BY <1>1, FS_Interval
<1> DEFINE all == {SeenAt(i) : i \in 1..n}
<1>3. IsFiniteSet(all)
  <2> DEFINE f == [i \in 1..n |-> SeenAt(i)]
  <2>1. f \in [1..n -> all] /\ \A z \in all : \E i \in 1..n : f[i] = z
    OBVIOUS
  <2> HIDE DEF f, all
  <2>2. f \in Surjection(1..n, all)
    BY <2>1 DEF Surjection
  <2> QED BY <1>2, <2>2, FS_Surjection DEF ExistsSurjection
<1>4. Seen \subseteq all
  BY <1>1 DEF Seen, SeenAt
<1>5. Seen = all \ {None}
  BY <1>1 DEF Seen, SeenAt
<1>6. ASSUME NEW ja4 \in Seen
      PROVE  SeenSince(ja4) \subseteq Seen
  <2>1. SeenSince(ja4) = {SeenAt(i) : i \in Later(ja4)} \ {None}
    BY SinceIsLater, <1>6 DEF SeenSinceIsLater
  <2>2. Later(ja4) \subseteq 1..n
    BY <1>1 DEF Later
  <2> QED BY <1>5, <2>1, <2>2
<1> HIDE DEF all
<1> QED BY <1>3, <1>4, <1>6, FS_Subset

(* What a sequence without repetition lists has as many members.           *)
LEMMA DistinctCount ==
  ASSUME NEW reg, NEW S, reg \in Seq(S), Distinct(reg)
  PROVE  /\ IsFiniteSet({reg[p] : p \in 1..Len(reg)})
         /\ Cardinality({reg[p] : p \in 1..Len(reg)}) = Len(reg)
<1>1. PICK len \in Nat : len = Len(reg)
  BY LenProperties
<1> DEFINE listed == {reg[p] : p \in 1..len}
           f == [p \in 1..len |-> reg[p]]
<1>2. /\ f \in [1..len -> listed]
      /\ \A p, q \in 1..len : f[p] = f[q] => p = q
      /\ \A z \in listed : \E p \in 1..len : f[p] = z
  BY <1>1 DEF Distinct
<1> HIDE DEF f, listed
<1>3. f \in Bijection(1..len, listed)
  BY <1>2 DEF Bijection, Injection, Surjection, IsInjective
<1>4. IsFiniteSet(1..len) /\ Cardinality(1..len) = len
  <2>1. /\ IsFiniteSet(1..len)
        /\ Cardinality(1..len) = IF 1 > len THEN 0 ELSE len - 1 + 1
    BY FS_Interval
  <2> QED BY <1>1, <2>1
<1>5. IsFiniteSet(listed) /\ Cardinality(listed) = len
  BY <1>3, <1>4, FS_Bijection DEF ExistsBijection
<1> QED BY <1>1, <1>5 DEF listed

LEMMA RememberedIsListed ==
  ASSUME ConnectionsTyped, RegistryInvariant, NEW ja4 \in Seen
  PROVE  Remembered(ja4) <=> Contains(registry, ja4)
<1> DEFINE listed == {registry[p] : p \in 1..Len(registry)}
           since == SeenSince(ja4)
<1>1. PICK size \in Nat : size = RegistrySize
  BY FrontAssumption
<1>2. /\ IsFiniteSet(listed) /\ Cardinality(listed) = Len(registry)
      /\ Len(registry) \in Nat /\ Len(registry) <= size
  BY <1>1, DistinctCount, LenProperties DEF RegistryInvariant, Distinct
<1>3. IsFiniteSet(since) /\ Cardinality(since) \in Nat
  BY SeenIsFinite, FS_Subset, FS_CardinalityType
<1>4. CASE Contains(registry, ja4)
  <2>1. since = Following(registry, ja4)
    BY <1>4 DEF RegistryInvariant
  <2>2. ja4 \in listed
    BY <1>4 DEF Contains
  <2>3. since \subseteq listed \ {ja4}
    <3>1. since \subseteq listed
      BY <2>1 DEF Following
    <3>2. ja4 \notin Following(registry, ja4)
      <4> SUFFICES ASSUME NEW q \in 1..Len(registry), NEW p \in 1..(q - 1),
                          registry[p] = ja4, registry[q] = ja4
                   PROVE  FALSE
        BY DEF Following
      <4>1. PICK len \in Nat : len = Len(registry)
        BY <1>2
      <4>2. \A i \in 1..len : \A j \in 1..(i - 1) : j \in 1..len /\ j # i
        BY <4>1
      <4>3. p \in 1..Len(registry) /\ p # q
        BY <4>1, <4>2
      <4> QED BY <4>3 DEF RegistryInvariant
    <3> QED BY <2>1, <3>1, <3>2
  <2>4. /\ IsFiniteSet(listed \ {ja4})
        /\ Cardinality(listed \ {ja4}) = Cardinality(listed) - 1
    BY <1>2, <2>2, FS_RemoveElement
  <2>5. Cardinality(since) <= Cardinality(listed \ {ja4})
    BY <2>3, <2>4, FS_Subset
  <2>6. PICK c \in Nat, len \in Nat : c = Cardinality(since) /\ len = Len(registry)
    BY <1>2, <1>3
  <2>7. c <= len - 1 /\ len <= size
    BY <1>2, <2>4, <2>5, <2>6
  <2>8. Cardinality(since) < size
    BY <1>1, <2>6, <2>7
  <2> QED BY <1>1, <1>4, <2>8 DEF Remembered
<1>5. CASE ~Contains(registry, ja4)
  <2>1. Len(registry) = size /\ listed \subseteq since
    BY <1>1, <1>5 DEF RegistryInvariant
  <2>2. Cardinality(listed) <= Cardinality(since)
    BY <1>3, <2>1, FS_Subset
  <2>3. ~(Cardinality(since) < size)
    BY <1>1, <1>2, <1>3, <2>1, <2>2
  <2> QED BY <1>1, <1>5, <2>3 DEF Remembered
<1> QED BY <1>4, <1>5

(***************************************************************************)
(* The difference of two fingerprints.                                     *)
(***************************************************************************)
Ja4Fields ==
  {"version_code", "sni_char", "cipher_count", "ext_count", "alpn_code",
   "ciphers", "extensions"}

LEMMA SeenAreRecords ==
  ASSUME ConnectionsTyped, NEW ja4 \in Seen
  PROVE  /\ DOMAIN ja4 = Ja4Fields
         /\ ja4 = [field \in DOMAIN ja4 |-> ja4[field]]
<1>1. PICK i \in DOMAIN connections : ja4 = Fingerprint(connections[i])
  BY DEF Seen
<1>2. connections[i] \in Optional(Dialled)
  BY <1>1, LenProperties, ElementOfSeq DEF ConnectionsTyped
<1>3. PICK hello \in Hellos : ja4 = Ja4Of[hello]
  BY <1>1, <1>2, FrontAssumption DEF Seen, Optional, Fingerprint
<1>4. ja4 = Ja4Components(hello)
  BY <1>3 DEF Ja4Of
<1> QED BY <1>4 DEF Ja4Components, Ja4Fields

LEMMA DifferenceSaysAll ==
  ASSUME NEW a, NEW b, DOMAIN a = Ja4Fields, DOMAIN b = Ja4Fields,
         b = [field \in DOMAIN b |-> b[field]]
  PROVE  /\ Patched(a, DiffJa4(a, b)) = b
         /\ \A field \in DOMAIN DiffJa4(a, b) :
              DiffJa4(a, b)[field][1] # DiffJa4(a, b)[field][2]
<1> DEFINE diff == DiffJa4(a, b)
<1>1. /\ DOMAIN diff = {field \in Ja4Fields : a[field] # b[field]}
      /\ \A field \in DOMAIN diff : diff[field] = <<a[field], b[field]>>
  BY DEF DiffJa4
<1> HIDE DEF diff
<1>2. Patched(a, diff) = [field \in Ja4Fields |-> b[field]]
  BY <1>1 DEF Patched
<1>3. \A field \in DOMAIN diff : diff[field][1] # diff[field][2]
  BY <1>1
<1> QED BY <1>2, <1>3 DEF diff

(* Between two fingerprints that were seen the difference is found, and is *)
(* right, exactly while both are remembered (ja4_registry.py).             *)
THEOREM MismatchesAreExplained == FrontSpec => []MismatchIsExplained
<1>1. LimiterInvariant /\ RegistryInvariant => MismatchIsExplained
  <2> SUFFICES ASSUME LimiterInvariant, RegistryInvariant,
                      NEW bound \in Seen, NEW presented \in Seen
               PROVE  LET diff == Explanation(bound, presented)
                      IN  IF Remembered(bound) /\ Remembered(presented)
                            THEN /\ diff # None
                                 /\ Patched(bound, diff) = presented
                                 /\ \A field \in DOMAIN diff :
                                      diff[field][1] # diff[field][2]
                            ELSE diff = None
    BY DEF MismatchIsExplained
  <2>1. ConnectionsTyped
    BY DEF LimiterInvariant, ConnectionsTyped
  <2>2. /\ Remembered(bound) <=> Contains(registry, bound)
        /\ Remembered(presented) <=> Contains(registry, presented)
    BY <2>1, RememberedIsListed
  <2>3. CASE Contains(registry, bound) /\ Contains(registry, presented)
    <3>1. bound \in JA4s /\ presented \in JA4s
      BY <2>3, LenProperties, ElementOfSeq DEF RegistryInvariant, Contains
    <3>2. DiffJa4(bound, presented) # None
      BY <3>1, FrontAssumption
    <3>3. /\ Patched(bound, DiffJa4(bound, presented)) = presented
          /\ \A field \in DOMAIN DiffJa4(bound, presented) :
               DiffJa4(bound, presented)[field][1] # DiffJa4(bound, presented)[field][2]
      BY <2>1, SeenAreRecords, DifferenceSaysAll
    <3>4. Explanation(bound, presented) = DiffJa4(bound, presented)
      BY <2>3 DEF Explanation
    <3> QED BY <2>2, <2>3, <3>2, <3>3, <3>4
  <2>4. CASE ~(Contains(registry, bound) /\ Contains(registry, presented))
    BY <2>2, <2>4 DEF Explanation
  <2> QED BY <2>3, <2>4
<1> QED BY <1>1, LimiterInvariantHolds, RegistryInvariantHolds, PTL
=============================================================================
