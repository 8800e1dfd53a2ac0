--------------------------- MODULE ObservedProofs ---------------------------
(***************************************************************************)
(* Theorems about the addon and its observers: the log tells the story of  *)
(* every token and challenge in order, and the dashboard tells the same as *)
(* the log, whichever writes of the audit file fail.                       *)
(***************************************************************************)
EXTENDS ObservedSentinel, SentinelUses, SequenceTheorems, FiniteSetTheorems, TLAPS

(***************************************************************************)
(* Facts about sequences.                                                  *)
(***************************************************************************)
LEMMA LogProperties ==
  ASSUME NEW log, log \in Seq(Range(log))
  PROVE  /\ Len(log) \in Nat
         /\ DOMAIN log = 1..Len(log)
         /\ log \in [1..Len(log) -> Range(log)]
         /\ log = <<>> <=> Len(log) = 0
BY LenProperties, EmptySeq

LEMMA AppendedLog ==
  ASSUME NEW log, log \in Seq(Range(log)), NEW e
  PROVE  /\ Append(log, e) \in Seq(Range(Append(log, e)))
         /\ Len(Append(log, e)) = Len(log) + 1
         /\ \A i \in 1..Len(log) : Append(log, e)[i] = log[i]
         /\ Append(log, e)[Len(log) + 1] = e
<1> DEFINE S == Range(log) \cup {e}
<1>1. log \in Seq(S) /\ e \in S
  BY SeqMonotonic
<1> HIDE DEF S
<1>2. /\ Append(log, e) \in Seq(S)
      /\ Len(Append(log, e)) = Len(log) + 1
      /\ \A i \in 1..Len(log) : Append(log, e)[i] = log[i]
      /\ Append(log, e)[Len(log) + 1] = e
  BY <1>1, AppendProperties
<1>3. Append(log, e) \in Seq(Range(Append(log, e)))
  BY <1>2, SeqOfRange
<1> QED BY <1>2, <1>3

(* Adding to a file the k entries after the n-th one of the memory.        *)
Mirrored(new, file, log, n, k) == new = file \o SubSeq(log, n + 1, n + k)

IsLog(log) == log \in Seq(Range(log))

Extended(new, file, log, n, k) ==
  /\ Len(new) = Len(file) + k
  /\ \A j \in 1..Len(file) : new[j] = file[j]
  /\ \A j \in 1..k : new[Len(file) + j] = log[n + j]

LEMMA MirroredLog ==
  ASSUME NEW log, IsLog(log), NEW file, IsLog(file),
         NEW n \in Nat, NEW k \in Nat, n + k <= Len(log),
         NEW new, Mirrored(new, file, log, n, k)
  PROVE  IsLog(new) /\ Extended(new, file, log, n, k)
<1> USE DEF IsLog, Extended
<1> DEFINE S == Range(log) \cup Range(file)
           part == SubSeq(log, n + 1, n + k)
<1>1. log \in Seq(S) /\ file \in Seq(S) /\ Len(log) \in Nat
  BY SeqMonotonic, LogProperties
<1>2. PICK m \in Nat : m = Len(file)
  BY LogProperties
<1> HIDE DEF S
<1>3. /\ part \in Seq(S) /\ Len(part) = k
      /\ \A j \in 1..k : part[j] = log[n + j]
  BY <1>1, SubSeqProperties
<1> HIDE DEF part
<1>4. /\ new \in Seq(S) /\ Len(new) = m + k
      /\ \A j \in 1..(m + k) : new[j] = IF j <= m THEN file[j] ELSE part[j - m]
  <2>1. new = file \o part
    BY DEF Mirrored, part
  <2> QED BY <1>1, <1>2, <1>3, <2>1, ConcatProperties
<1>5. new \in Seq(Range(new))
  BY <1>4, SeqOfRange
<1>6. \A j \in 1..m : new[j] = file[j]
  BY <1>4
<1>7. ASSUME NEW j \in 1..k
      PROVE  new[m + j] = log[n + j]
  <2>1. m + j \in 1..(m + k) /\ ~(m + j <= m) /\ (m + j) - m = j
    OBVIOUS
  <2>2. new[m + j] = part[j]
    BY <1>4, <2>1
  <2> QED BY <1>3, <2>2
<1> QED BY <1>2, <1>4, <1>5, <1>6, <1>7

(***************************************************************************)
(* The entries of one hook.  The fold over its events is a recursive       *)
(* function on the sets of their numbers; a hook has two of them at most.  *)
(***************************************************************************)
With(log, time, event) == Append(log, NewEntry(log, time, event))

IsFold(g, log, time, events) ==
  g = [s \in SUBSET DOMAIN events |->
         IF s = {} THEN log ELSE With(g[s \ {Max(s)}], time, events[Max(s)])]

LEMMA FoldOfNone ==
  ASSUME NEW log, NEW time, NEW events, DOMAIN events = {}
  PROVE  (CHOOSE g : IsFold(g, log, time, events))[DOMAIN events] = log
<1>1. \E g : IsFold(g, log, time, events)
  <2> DEFINE g == [s \in SUBSET DOMAIN events |-> log]
  <2>1. IsFold(g, log, time, events)
    BY DEF IsFold
  <2> QED BY <2>1
<1>2. PICK g : g = (CHOOSE h : IsFold(h, log, time, events))
                 /\ IsFold(g, log, time, events)
  BY <1>1
<1> QED BY <1>2 DEF IsFold

LEMMA LargestOfTwo ==
  /\ Max({1}) = 1 /\ Max({2}) = 2 /\ Max({1, 2}) = 2
  /\ \A s \in SUBSET {1, 2} : s = {} \/ s = {1} \/ s = {2} \/ s = {1, 2}
<1>1. \A n \in {1, 2} : Max({n}) = n
  BY DEF Max
<1>2. Max({1, 2}) = 2
  <2>1. \E x \in {1, 2} : \A y \in {1, 2} : x >= y
    OBVIOUS
  <2>2. Max({1, 2}) \in {1, 2} /\ \A y \in {1, 2} : Max({1, 2}) >= y
    BY <2>1 DEF Max
  <2> QED BY <2>2
<1> QED BY <1>1, <1>2

LEMMA FoldOfOne ==
  ASSUME NEW log, NEW time, NEW events, DOMAIN events = {1}
  PROVE  (CHOOSE g : IsFold(g, log, time, events))[DOMAIN events]
           = With(log, time, events[1])
<1> DEFINE one == With(log, time, events[1])
<1>1. \E g : IsFold(g, log, time, events)
  <2> HIDE DEF one
  <2> DEFINE g == [s \in SUBSET {1} |-> IF s = {} THEN log ELSE one]
  <2>1. g[{}] = log /\ g[{1}] = one
    OBVIOUS
  <2>2. {1} \ {1} = {}
    OBVIOUS
  <2>3. g = [s \in SUBSET {1} |-> g[s]]
    OBVIOUS
  <2> HIDE DEF g
  <2>4. \A s \in SUBSET {1} :
          g[s] = IF s = {} THEN log ELSE With(g[s \ {Max(s)}], time, events[Max(s)])
    <3> SUFFICES ASSUME NEW s \in SUBSET {1}
                 PROVE  g[s] = IF s = {} THEN log
                               ELSE With(g[s \ {Max(s)}], time, events[Max(s)])
      OBVIOUS
    <3>1. CASE s = {}
      BY <2>1, <3>1
    <3>2. CASE s = {1}
      BY <2>1, <2>2, <3>2, LargestOfTwo DEF one
    <3> QED BY <3>1, <3>2
  <2>5. IsFold(g, log, time, events)
    BY <2>3, <2>4 DEF IsFold
  <2> QED BY <2>5
<1>2. PICK g : g = (CHOOSE h : IsFold(h, log, time, events))
                 /\ IsFold(g, log, time, events)
  BY <1>1
<1>3. \A s \in SUBSET {1} :
        g[s] = IF s = {} THEN log ELSE With(g[s \ {Max(s)}], time, events[Max(s)])
  BY <1>2 DEF IsFold
<1>4. g[{}] = log
  BY <1>3
<1>5. g[{1}] = one
  <2>1. {1} \ {1} = {}
    OBVIOUS
  <2> QED BY <1>3, <1>4, <2>1, LargestOfTwo
<1> QED BY <1>2, <1>5

LEMMA FoldOfTwo ==
  ASSUME NEW log, NEW time, NEW events, DOMAIN events = {1, 2}
  PROVE  (CHOOSE g : IsFold(g, log, time, events))[DOMAIN events]
           = With(With(log, time, events[1]), time, events[2])
<1> DEFINE one == With(log, time, events[1])
           other == With(log, time, events[2])
           two == With(one, time, events[2])
<1>1. \E g : IsFold(g, log, time, events)
  <2> HIDE DEF one, other, two
  <2> DEFINE g == [s \in SUBSET {1, 2} |->
                     IF s = {} THEN log ELSE IF s = {1} THEN one
                     ELSE IF s = {2} THEN other ELSE two]
  <2>1. g[{}] = log /\ g[{1}] = one /\ g[{2}] = other /\ g[{1, 2}] = two
    OBVIOUS
  <2>2. {1} \ {1} = {} /\ {2} \ {2} = {} /\ {1, 2} \ {2} = {1}
    OBVIOUS
  <2>3. g = [s \in SUBSET {1, 2} |-> g[s]]
    OBVIOUS
  <2> HIDE DEF g
  <2>4. \A s \in SUBSET {1, 2} :
          g[s] = IF s = {} THEN log ELSE With(g[s \ {Max(s)}], time, events[Max(s)])
    <3> SUFFICES ASSUME NEW s \in SUBSET {1, 2}
                 PROVE  g[s] = IF s = {} THEN log
                               ELSE With(g[s \ {Max(s)}], time, events[Max(s)])
      OBVIOUS
    <3>1. CASE s = {}
      BY <2>1, <3>1
    <3>2. CASE s = {1}
      BY <2>1, <2>2, <3>2, LargestOfTwo DEF one
    <3>3. CASE s = {2}
      BY <2>1, <2>2, <3>3, LargestOfTwo DEF other
    <3>4. CASE s = {1, 2}
      BY <2>1, <2>2, <3>4, LargestOfTwo DEF two
    <3> QED BY <3>1, <3>2, <3>3, <3>4, LargestOfTwo
  <2>5. IsFold(g, log, time, events)
    BY <2>3, <2>4 DEF IsFold
  <2> QED BY <2>5
<1>2. PICK g : g = (CHOOSE h : IsFold(h, log, time, events))
                 /\ IsFold(g, log, time, events)
  BY <1>1
<1>3. \A s \in SUBSET {1, 2} :
        g[s] = IF s = {} THEN log ELSE With(g[s \ {Max(s)}], time, events[Max(s)])
  BY <1>2 DEF IsFold
<1>4. g[{}] = log
  BY <1>3
<1>5. g[{1}] = one
  <2>1. {1} \ {1} = {}
    OBVIOUS
  <2> QED BY <1>3, <1>4, <2>1, LargestOfTwo
<1>6. g[{1, 2}] = two
  <2>1. {1, 2} \ {2} = {1}
    OBVIOUS
  <2> QED BY <1>3, <1>5, <2>1, LargestOfTwo
<1> QED BY <1>2, <1>6

(* How many entries a hook makes, what they are, and how many of them get  *)
(* into the file.                                                          *)
Reached(rep) ==
  IF rep.kind = "none" THEN 0
  ELSE IF rep.kind = "challenge_passed" /\ rep.written >= 1 THEN 2 ELSE 1

EventOf(rep, i) == IF i = 1 THEN Event(rep.kind, rep) ELSE Event("decision", rep)

Written(rep) == Smaller(rep.written, Reached(rep))

ReachedEvents(rep) ==
  SubSeq(EventsOf(rep), 1, Smaller(rep.written + 1, Len(EventsOf(rep))))

LEMMA ReachedEventsAre ==
  ASSUME NEW rep \in Report
  PROVE  /\ DOMAIN ReachedEvents(rep) = 1..Reached(rep)
         /\ \A i \in 1..Reached(rep) : ReachedEvents(rep)[i] = EventOf(rep, i)
<1>1. rep.written \in 0..2
  BY DEF Report
<1>2. CASE rep.kind = "none"
  <2>1. EventsOf(rep) = <<>> /\ Len(EventsOf(rep)) = 0
    BY <1>2 DEF EventsOf
  <2>2. Smaller(rep.written + 1, 0) = 0
    BY <1>1 DEF Smaller
  <2>3. ReachedEvents(rep) = <<>>
    BY <2>1, <2>2 DEF ReachedEvents
  <2> QED BY <1>2, <2>3 DEF Reached
<1>3. CASE rep.kind = "challenge_passed"
  <2> DEFINE a == Event("challenge_passed", rep)
             b == Event("decision", rep)
  <2>1. EventsOf(rep) = <<a, b>>
    BY <1>3 DEF EventsOf
  <2>2. EventOf(rep, 1) = a /\ EventOf(rep, 2) = b
    BY <1>3 DEF EventOf
  <2>3. Smaller(rep.written + 1, 2) = Reached(rep) /\ Reached(rep) \in {1, 2}
    BY <1>1, <1>3 DEF Smaller, Reached
  <2> HIDE DEF a, b
  <2>4. ReachedEvents(rep) = SubSeq(<<a, b>>, 1, Reached(rep))
    BY <2>1, <2>3 DEF ReachedEvents
  <2>5. CASE Reached(rep) = 1
    BY <2>2, <2>4, <2>5
  <2>6. CASE Reached(rep) = 2
    BY <2>2, <2>4, <2>6
  <2> QED BY <2>3, <2>5, <2>6
<1>4. CASE rep.kind \notin {"none", "challenge_passed"}
  <2> DEFINE a == Event(rep.kind, rep)
  <2>1. EventsOf(rep) = <<a>> /\ EventOf(rep, 1) = a /\ Reached(rep) = 1
    BY <1>4 DEF EventsOf, EventOf, Reached
  <2>2. Smaller(rep.written + 1, 1) = 1
    BY <1>1 DEF Smaller
  <2> HIDE DEF a
  <2>3. ReachedEvents(rep) = SubSeq(<<a>>, 1, 1)
    BY <2>1, <2>2 DEF ReachedEvents
  <2> QED BY <2>1, <2>3
<1> QED BY <1>2, <1>3, <1>4

(* What a hook adds to the memory, and to the file.                        *)
Adds(rep) ==
  /\ entries' \in Seq(Range(entries'))
  /\ Len(entries') = Len(entries) + Reached(rep)
  /\ \A i \in 1..Len(entries) : entries'[i] = entries[i]
  /\ \A i \in 1..Reached(rep) :
       LET e == entries'[Len(entries) + i]
       IN  e.seq = Len(entries) + i - 1 /\ e.ts = now /\ e.event = EventOf(rep, i)

Mirrors(rep) ==
  /\ disk' \in Seq(Range(disk'))
  /\ Len(disk') = Len(disk) + Written(rep)
  /\ \A j \in 1..Len(disk) : disk'[j] = disk[j]
  /\ \A j \in 1..Written(rep) : disk'[Len(disk) + j] = entries'[Len(entries) + j]

LEMMA WithEntry ==
  ASSUME NEW log, log \in Seq(Range(log)), NEW time, NEW event
  PROVE  /\ With(log, time, event) \in Seq(Range(With(log, time, event)))
         /\ Len(With(log, time, event)) = Len(log) + 1
         /\ \A i \in 1..Len(log) : With(log, time, event)[i] = log[i]
         /\ With(log, time, event)[Len(log) + 1].seq = Len(log)
         /\ With(log, time, event)[Len(log) + 1].ts = time
         /\ With(log, time, event)[Len(log) + 1].event = event
<1>1. /\ NewEntry(log, time, event).seq = Len(log)
      /\ NewEntry(log, time, event).ts = time
      /\ NewEntry(log, time, event).event = event
  BY DEF NewEntry
<1> QED BY <1>1, AppendedLog DEF With

LEMMA HookAdds ==
  ASSUME entries \in Seq(Range(entries)), NEW rep \in Report, AuditReport(rep)
  PROVE  Adds(rep)
<1> DEFINE events == ReachedEvents(rep)
<1>1. entries' = (CHOOSE g : IsFold(g, entries, now, events))[DOMAIN events]
  BY DEF AuditReport, FoldLeft, MapThenFoldSet, IsFold, With, ReachedEvents
<1>2. /\ DOMAIN events = 1..Reached(rep)
      /\ \A i \in 1..Reached(rep) : events[i] = EventOf(rep, i)
  BY ReachedEventsAre
<1>3. Len(entries) \in Nat
  BY LogProperties
<1> HIDE DEF events
<1>4. CASE Reached(rep) = 0
  <2>1. DOMAIN events = {}
    BY <1>2, <1>4
  <2>2. entries' = entries
    BY <1>1, <2>1, FoldOfNone
  <2> QED BY <1>3, <1>4, <2>2 DEF Adds
<1>5. CASE Reached(rep) = 1
  <2>1. DOMAIN events = {1} /\ events[1] = EventOf(rep, 1)
    BY <1>2, <1>5
  <2>2. entries' = With(entries, now, EventOf(rep, 1))
    BY <1>1, <2>1, FoldOfOne
  <2> QED BY <1>3, <1>5, <2>2, WithEntry DEF Adds
<1>6. CASE Reached(rep) = 2
  <2>1. DOMAIN events = {1, 2} /\ events[1] = EventOf(rep, 1) /\ events[2] = EventOf(rep, 2)
    BY <1>2, <1>6
  <2>2. entries' = With(With(entries, now, EventOf(rep, 1)), now, EventOf(rep, 2))
    BY <1>1, <2>1, FoldOfTwo
  <2>3. PICK n \in Nat : n = Len(entries)
    BY <1>3
  <2>4. PICK log : log = With(entries, now, EventOf(rep, 1))
    OBVIOUS
  <2>5. /\ log \in Seq(Range(log))
        /\ Len(log) = n + 1
        /\ \A i \in 1..n : log[i] = entries[i]
        /\ log[n + 1].seq = n /\ log[n + 1].ts = now
        /\ log[n + 1].event = EventOf(rep, 1)
    BY <2>3, <2>4, WithEntry
  <2>6. /\ entries' \in Seq(Range(entries'))
        /\ Len(entries') = n + 2
        /\ \A i \in 1..(n + 1) : entries'[i] = log[i]
        /\ entries'[n + 2].seq = n + 1 /\ entries'[n + 2].ts = now
        /\ entries'[n + 2].event = EventOf(rep, 2)
    BY <2>2, <2>4, <2>5, WithEntry
  <2>7. entries'[n + 1] = log[n + 1] /\ \A i \in 1..n : entries'[i] = entries[i]
    BY <2>5, <2>6
  <2> QED BY <1>6, <2>3, <2>5, <2>6, <2>7 DEF Adds
<1> QED BY <1>4, <1>5, <1>6 DEF Reached

LEMMA HookMirrors ==
  ASSUME entries \in Seq(Range(entries)), disk \in Seq(Range(disk)),
         NEW rep \in Report, AuditReport(rep)
  PROVE  Mirrors(rep)
<1>1. disk' = disk \o SubSeq(entries', Len(entries) + 1,
                             Smaller(Len(entries) + rep.written, Len(entries')))
  BY DEF AuditReport, FoldLeft, MapThenFoldSet
<1>2. Adds(rep)
  BY HookAdds
<1>3. PICK n \in Nat : n = Len(entries)
  BY LogProperties
<1>4. /\ rep.written \in 0..2 /\ Reached(rep) \in 0..2
      /\ Written(rep) \in 0..2 /\ Written(rep) <= Reached(rep)
  BY DEF Report, Reached, Written, Smaller
<1>5. Len(entries') = n + Reached(rep) /\ entries' \in Seq(Range(entries'))
  BY <1>2, <1>3 DEF Adds
<1>6. Smaller(n + rep.written, Len(entries')) = n + Written(rep)
  BY <1>4, <1>5 DEF Smaller, Written
<1>7. Mirrored(disk', disk, entries', n, Written(rep))
  BY <1>1, <1>3, <1>6 DEF Mirrored
<1>8. n + Written(rep) <= Len(entries') /\ Written(rep) \in Nat
  BY <1>4, <1>5
<1>9. IsLog(disk) /\ IsLog(entries')
  BY <1>5 DEF IsLog
<1>10. IsLog(disk') /\ Extended(disk', disk, entries', n, Written(rep))
  BY <1>7, <1>8, <1>9, MirroredLog
<1> QED BY <1>3, <1>10 DEF Mirrors, IsLog, Extended

(***************************************************************************)
(* What a step of Sentinel tells in its report: of the requests let pass   *)
(* and blocked, of the bindings, and of the challenges.                    *)
(***************************************************************************)
Admits == \E a : a \notin admitted /\ admitted' = admitted \cup {a}

DecisionTold(rep) ==
  IF rep.kind \in {"decision", "challenge_passed"} /\ rep.reason = "ok"
    THEN /\ rep.token \in Tokens
         /\ bindings[rep.token] # None
         /\ ~bindings[rep.token].revoked
         /\ Admits
    ELSE /\ rep.kind # "challenge_passed"
         /\ rep.reason # "ok"
         /\ rep.kind = "decision" =>
              rep.token \in Tokens /\ bindings[rep.token] # None
         /\ UNCHANGED admitted

BindingTold(rep) ==
  /\ rep.kind = "revocation" => rep.token \in Tokens
  /\ \A t \in Tokens :
       /\ rep.kind = "revocation" /\ rep.token = t => OutOfUse(t)'
       /\ bindings'[t] # None =>
            bindings[t] # None \/ (rep.kind = "issuance" /\ rep.token = t)

ChallengeTold(rep) ==
  CASE rep.kind = "challenge_passed" ->
         /\ rep.token \in Tokens
         /\ challenges[rep.token] # None
         /\ ~ChallengeExpired(rep.token, now)
         /\ challenges' = [challenges EXCEPT ![rep.token] = None]
    [] rep.kind = "challenge_issued" ->
         /\ rep.token \in Tokens
         /\ challenges'[rep.token].issued_at = now
         /\ \A t \in Tokens : t # rep.token => challenges'[t] = challenges[t]
    [] OTHER -> UNCHANGED challenges

Told(rep) == DecisionTold(rep) /\ BindingTold(rep) /\ ChallengeTold(rep)

LEMMA NoReportTells == NoReport.kind = "none" /\ NoReport.reason # "ok"
BY DEF NoReport

(* A step of which nothing is reported.                                    *)
LEMMA SilentStep ==
  ASSUME report' = NoReport, UNCHANGED <<challenges, admitted>>,
         \A t \in Tokens : bindings'[t] # None => bindings[t] # None
  PROVE  Told(report')
BY NoReportTells DEF Told, DecisionTold, BindingTold, ChallengeTold

LEMMA ReportTold ==
  ASSUME NEW kind, NEW t, NEW reason, NEW risk, NEW written,
         Reported(kind, t, reason, risk, written)
  PROVE  report'.kind = kind /\ report'.token = t /\ report'.reason = reason
BY DEF Reported

(* A request that is refused, with a challenge or without.                 *)
LEMMA RefusalTold ==
  ASSUME NEW r, NEW kind, NEW reason, NEW risk, Refuse(r, kind, reason, risk)
  PROVE  /\ report'.kind = kind
         /\ report'.token = r.token
         /\ report'.reason = reason
         /\ UNCHANGED admitted
BY DEF Refuse, Reported

LEMMA BlockTold ==
  ASSUME NEW r, NEW kind \in {"rate_limited", "block", "decision"}, NEW reason,
         reason # "ok", NEW risk, Refuse(r, kind, reason, risk),
         kind = "decision" => r.token \in Tokens /\ bindings[r.token] # None,
         UNCHANGED challenges,
         \A t \in Tokens : bindings'[t] # None => bindings[t] # None
  PROVE  Told(report')
BY RefusalTold DEF Told, DecisionTold, BindingTold, ChallengeTold

LEMMA PassTold ==
  ASSUME TypeOK, ProofsAreUsedUp, NEW r \in RequestType,
         NEW kind \in {"decision", "challenge_passed"},
         NEW risk, NEW nonce, FindsBinding(r), DecisionOn(r).outcome = "PASS",
         Admit(r, kind, risk, nonce)
  PROVE  /\ report'.kind = kind /\ report'.token = r.token
         /\ DecisionTold(report')
<1>1. report'.kind = kind /\ report'.token = r.token /\ report'.reason = "ok"
  BY DEF Admit, Reported
<1>2. /\ r.token \in Tokens
      /\ bindings[r.token] # None /\ ~bindings[r.token].revoked
  BY PassMatches, DecisionTyped DEF FindsBinding
<1>3. r.proof.jti \notin dpopJtiSeen
  BY DEF FindsBinding, AcceptsProof, DpopJtiFresh
<1>4. PICK a : /\ a = AdmissionOf(r, nonce)
               /\ admitted' = admitted \cup {a}
  BY DEF Admit, AdmissionOf
<1>5. a.token = r.token /\ a.proof = r.proof.jti
  BY <1>4 DEF AdmissionOf
<1>6. Admits
  BY <1>2, <1>3, <1>4, <1>5 DEF Admits, ProofsAreUsedUp
<1> QED BY <1>1, <1>2, <1>6 DEF DecisionTold

LEMMA RequestTold ==
  ASSUME TypeOK, ProofsAreUsedUp, NEW r \in RequestType, Request(r)
  PROVE  Told(report')
<1>1. \A t \in Tokens : bindings'[t] # None => bindings[t] # None
  BY RequestEffect
<1>2. CASE RateLimited(r) \/ MissingProof(r) \/ InvalidProof(r) \/ ReplayedProof(r)
           \/ UnboundToken(r)
  <2>1. PICK kind, reason, risk :
          /\ kind \in {"rate_limited", "block"} /\ reason # "ok"
          /\ Refuse(r, kind, reason, risk)
    BY <1>2 DEF RateLimited, MissingProof, InvalidProof, ReplayedProof, UnboundToken
  <2>2. UNCHANGED challenges
    BY <1>2 DEF RateLimited, MissingProof, InvalidProof, ReplayedProof,
                UnboundToken, challengeVars
  <2> QED BY <1>1, <2>1, <2>2, BlockTold
<1>3. CASE ForwardTokenRequest(r)
  BY <1>1, <1>3, SilentStep DEF ForwardTokenRequest, challengeVars
<1>4. CASE BlockedByEngine(r)
  <2>1. r.token \in Tokens /\ bindings[r.token] # None
    BY <1>4, DecisionTyped, FoundIsBound DEF BlockedByEngine, FindsBinding
  <2>2. DecisionOn(r).reason # "ok"
    BY <1>4 DEF BlockedByEngine, DecisionOn, Evaluate
  <2>3. Refuse(r, "decision", DecisionOn(r).reason, DecisionOn(r).risk)
        /\ UNCHANGED challenges
    BY <1>4 DEF BlockedByEngine, challengeVars
  <2> QED BY <1>1, <2>1, <2>2, <2>3, BlockTold
<1>5. CASE PassedByEngine(r)
  <2>1. /\ report'.kind = "decision" /\ report'.token = r.token
        /\ DecisionTold(report')
    BY <1>5, PassTold DEF PassedByEngine
  <2>2. UNCHANGED challenges
    BY <1>5 DEF PassedByEngine, challengeVars
  <2> QED BY <1>1, <2>1, <2>2 DEF Told, BindingTold, ChallengeTold
<1>6. CASE StepUpPassed(r)
  <2>1. /\ report'.kind = "challenge_passed" /\ report'.token = r.token
        /\ DecisionTold(report')
    BY <1>6, PassTold DEF StepUpPassed, InChallengeBand
  <2>2. r.token \in Tokens
    BY <1>6, DecisionTyped DEF StepUpPassed, FindsBinding
  <2>3. /\ challenges[r.token] # None /\ ~ChallengeExpired(r.token, now)
        /\ challenges' = [challenges EXCEPT ![r.token] = None]
    BY <1>6 DEF StepUpPassed, Answers, ConsumeChallenge
  <2> QED BY <1>1, <2>1, <2>2, <2>3 DEF Told, BindingTold, ChallengeTold
<1>7. CASE StepUpRequired(r)
  <2>1. r.token \in Tokens
    BY <1>7, DecisionTyped DEF StepUpRequired, FindsBinding
  <2>2. PICK reason, risk :
          reason # "ok" /\ Refuse(r, "challenge_issued", reason, risk)
    BY <1>7 DEF StepUpRequired
  <2>3. /\ report'.kind = "challenge_issued" /\ report'.token = r.token
        /\ report'.reason # "ok" /\ UNCHANGED admitted
    BY <2>2, RefusalTold
  <2>4. /\ challenges'[r.token].issued_at = now
        /\ \A t \in Tokens : t # r.token => challenges'[t] = challenges[t]
    BY <1>7, <2>1 DEF StepUpRequired, IssueChallenge, TypeOK, ChallengeStoreTypeOK
  <2> QED BY <1>1, <2>1, <2>3, <2>4 DEF Told, DecisionTold, BindingTold, ChallengeTold
<1> QED BY <1>2, <1>3, <1>4, <1>5, <1>6, <1>7 DEF Request

(* A step short of a restart of the proxy.                                 *)
LEMMA StepTold ==
  ASSUME TypeOK, SenderInvariant, ProofsAreUsedUp, Next, restarts' = restarts
  PROVE  Told(report')
<1>1. CASE \E r \in Requests : Request(r)
  BY <1>1, RequestTyped, RequestTold
<1>2. ASSUME NEW reply \in replies, BindIssuedToken(reply)
      PROVE  Told(report')
  <2>1. /\ report'.kind = "issuance" /\ report'.token = reply.token
        /\ report'.reason # "ok"
    <3>1. PICK reason, written :
            reason # "ok" /\ Reported("issuance", reply.token, reason, 0, written)
      BY <1>2 DEF BindIssuedToken
    <3> QED BY <3>1, ReportTold
  <2>2. UNCHANGED <<challenges, admitted>>
    BY <1>2 DEF BindIssuedToken, HookFrame, challengeVars
  <2>3. \A t \in Tokens : t # reply.token => bindings'[t] = bindings[t]
    BY <1>2, BindEffect
  <2> QED BY <2>1, <2>2, <2>3 DEF Told, DecisionTold, BindingTold, ChallengeTold
<1>3. ASSUME NEW t \in Tokens, RevokeToken(t)
      PROVE  Told(report')
  <2>1. /\ report'.kind = "revocation" /\ report'.token = t
        /\ report'.reason # "ok"
    <3>1. PICK reason, written :
            reason # "ok" /\ Reported("revocation", t, reason, 0, written)
      BY <1>3 DEF RevokeToken
    <3> QED BY <3>1, ReportTold
  <2>2. UNCHANGED <<challenges, admitted>>
    BY <1>3 DEF RevokeToken, HookFrame, challengeVars
  <2>3. OutOfUse(t)'
    BY <1>3, RevokedIsOutOfUse
  <2>4. bindings[t] # None /\ \A u \in Tokens : u # t => bindings'[u] = bindings[u]
    BY <1>3, RevokeEffect
  <2> QED BY <2>1, <2>2, <2>3, <2>4
          DEF Told, DecisionTold, BindingTold, ChallengeTold
<1>4. CASE ProxyRestarts
  BY <1>4 DEF ProxyRestarts, TypeOK
<1>5. ASSUME report' = NoReport, UNCHANGED <<bindings, challengeVars, admitted>>
      PROVE  Told(report')
  BY <1>5, SilentStep DEF challengeVars
<1> QED
  BY <1>1, <1>2, <1>3, <1>4, <1>5
  DEF Next, TlsClientHello, IgnoreReply, LoseReply, RevokeUnknown, BackendIssues,
      BackendExecutes, BackendRefuses, LoseRequest, BackendRestarts, Tick,
      HookFrame, ServerFrame, bindingVars, historyVars

(***************************************************************************)
(* The invariants of Sentinel hold here as well.                           *)
(***************************************************************************)
ProxyInvariant == TypeOK /\ SenderInvariant /\ ProofsAreUsedUp

LEMMA ProxyInvariantInit == ObservedInit => ProxyInvariant
BY InitTypeOK, SenderInit, UsedUpInit DEF ObservedInit, ProxyInvariant

LEMMA ProxyStep ==
  ProxyInvariant /\ [ObservedNext]_<<vars, observerVars>> => ProxyInvariant'
<1>1. [ObservedNext]_<<vars, observerVars>> => [Next]_vars
  BY DEF ObservedNext
<1> QED BY <1>1, NextTypeOK, SenderStep, UsedUpStep DEF ProxyInvariant

LEMMA ProxyInvariantHolds == ObservedSpec => []ProxyInvariant
BY ProxyInvariantInit, ProxyStep, PTL DEF ObservedSpec

(* A step of the proxy that is no restart, and what it tells its observers.*)
HookStep(rep) ==
  /\ rep \in Report
  /\ AuditReport(rep)
  /\ ShowReport(rep)
  /\ Told(rep)
  /\ \A t \in Tokens : OutOfUse(t) => OutOfUse(t)'
  /\ UNCHANGED restarts

(* A restart: everything that is observed is gone, and so are the bindings *)
(* and the challenges.                                                     *)
RestartStep ==
  /\ restarts' = restarts + 1
  /\ entries' = <<>> /\ disk' = <<>> /\ rows' = <<>>
  /\ counts' = [c \in DOMAIN counts |-> 0]
  /\ \A t \in Tokens : bindings'[t] = None /\ challenges'[t] = None
  /\ UNCHANGED admitted

LEMMA ObservedSteps ==
  ASSUME ProxyInvariant, ObservedNext
  PROVE  RestartStep \/ \E rep : HookStep(rep)
<1>1. CASE restarts' # restarts
  <2>1. ProxyRestarts
    BY <1>1
    DEF ObservedNext, Next, Request, RateLimited, MissingProof, InvalidProof,
        ReplayedProof, ForwardTokenRequest, UnboundToken, BlockedByEngine,
        PassedByEngine, StepUpPassed, StepUpRequired, RequestFrame,
        TlsClientHello, BindIssuedToken, IgnoreReply, LoseReply, RevokeToken,
        RevokeUnknown, BackendIssues, BackendExecutes, BackendRefuses,
        LoseRequest, BackendRestarts, Tick, HookFrame, ServerFrame, restartVars
  <2> QED BY <1>1, <2>1
          DEF ObservedNext, Observe, ProxyRestarts, historyVars, RestartStep
<1>2. CASE restarts' = restarts
  <2>1. PICK rep : rep = report'
    OBVIOUS
  <2>2. rep \in Report
    BY <2>1, NextTypeOK DEF ProxyInvariant, ObservedNext, TypeOK
  <2>3. Told(rep)
    BY <1>2, <2>1, StepTold DEF ProxyInvariant, ObservedNext
  <2>4. AuditReport(rep) /\ ShowReport(rep)
    BY <1>2, <2>1 DEF ObservedNext, Observe
  <2>5. \A t \in Tokens : OutOfUse(t) => OutOfUse(t)'
    BY OutOfUseStays DEF ProxyInvariant, ObservedNext
  <2> QED BY <1>2, <2>2, <2>3, <2>4, <2>5 DEF HookStep
<1> QED BY <1>1, <1>2

(***************************************************************************)
(* The entries a hook adds to the log.                                     *)
(***************************************************************************)
IsNew(rep, i) ==
  /\ i \in {Len(entries) + 1, Len(entries) + 2}
  /\ entries'[i].ts = now
  /\ entries'[i].event.token = rep.token
  /\ entries'[i].event.reason = rep.reason
  /\ entries'[i].event.risk = rep.risk
  /\ rep.kind # "none"
  /\ i = Len(entries) + 1 => entries'[i].event.type = rep.kind
  /\ i = Len(entries) + 2 =>
       /\ entries'[i].event.type = "decision"
       /\ rep.kind = "challenge_passed"
       /\ rep.written >= 1

LEMMA EventFields ==
  ASSUME NEW rep, NEW i \in {1, 2}
  PROVE  /\ EventOf(rep, i).token = rep.token
         /\ EventOf(rep, i).reason = rep.reason
         /\ EventOf(rep, i).risk = rep.risk
         /\ i = 1 => EventOf(rep, i).type = rep.kind
         /\ i = 2 => EventOf(rep, i).type = "decision"
BY DEF EventOf, Event

LEMMA LogGrows ==
  ASSUME entries \in Seq(Range(entries)), NEW rep \in Report, Adds(rep)
  PROVE  /\ Len(entries) \in Nat /\ Len(entries') \in Nat
         /\ Len(entries) <= Len(entries')
         /\ \A i \in 1..Len(entries) :
              i \in 1..Len(entries') /\ entries'[i] = entries[i]
         /\ \A i \in 1..Len(entries') : i \in 1..Len(entries) \/ IsNew(rep, i)
<1>1. PICK n \in Nat : n = Len(entries)
  BY LogProperties
<1>2. PICK m \in {0, 1, 2} : m = Reached(rep)
  BY DEF Reached
<1>3. /\ Len(entries') = n + m
      /\ \A i \in 1..n : entries'[i] = entries[i]
      /\ \A i \in 1..m : /\ entries'[n + i].ts = now
                         /\ entries'[n + i].event = EventOf(rep, i)
  BY <1>1, <1>2 DEF Adds
<1>4. \A i \in 1..(n + m) : i \in 1..n \/ (i - n \in 1..m /\ n + (i - n) = i)
  BY <1>2
<1>5. ASSUME NEW k \in 1..m  PROVE IsNew(rep, n + k)
  <2>1. k \in {1, 2} /\ rep.kind # "none"
    BY <1>2 DEF Reached
  <2>2. k = 2 => rep.kind = "challenge_passed" /\ rep.written >= 1
    BY <1>2 DEF Reached
  <2>3. /\ entries'[n + k].ts = now
        /\ entries'[n + k].event = EventOf(rep, k)
    BY <1>3
  <2>4. /\ n + k \in {n + 1, n + 2}
        /\ n + k = n + 1 => k = 1
        /\ n + k = n + 2 => k = 2
    BY <2>1
  <2>5. PICK i, e : i = n + k /\ e = EventOf(rep, k)
    OBVIOUS
  <2>6. /\ e.token = rep.token /\ e.reason = rep.reason /\ e.risk = rep.risk
        /\ k = 1 => e.type = rep.kind
        /\ k = 2 => e.type = "decision"
    BY <2>1, <2>5, EventFields
  <2>7. /\ entries'[i].ts = now /\ entries'[i].event = e
        /\ i \in {n + 1, n + 2}
        /\ i = n + 1 => k = 1
        /\ i = n + 2 => k = 2
    BY <2>3, <2>4, <2>5
  <2>8. IsNew(rep, i)
    BY <1>1, <2>1, <2>2, <2>6, <2>7 DEF IsNew
  <2> QED BY <2>5, <2>8
<1>6. \A i \in 1..(n + m) : i \in 1..n \/ IsNew(rep, i)
  BY <1>4, <1>5
<1> QED BY <1>1, <1>2, <1>3, <1>6

(***************************************************************************)
(* The story of a token.                                                   *)
(***************************************************************************)
LEMMA StoryInit == ObservedInit => StoryInvariant
<1> SUFFICES ASSUME ObservedInit  PROVE StoryInvariant
  OBVIOUS
<1>1. entries = <<>> /\ Len(entries) = 0 /\ entries \in Seq(Range(entries))
  BY EmptySeq DEF ObservedInit, AuditInit
<1>2. \A t \in Tokens : bindings[t] = None
  BY DEF ObservedInit, Init, ProxyInit, BindingStoreInit
<1> QED BY <1>1, <1>2 DEF StoryInvariant, StoriesAreInOrder, Logged

LEMMA StoryRestart ==
  ASSUME RestartStep  PROVE StoryInvariant'
<1>1. entries' = <<>> /\ Len(entries') = 0 /\ entries' \in Seq(Range(entries'))
  BY EmptySeq DEF RestartStep
<1> QED BY <1>1 DEF RestartStep, StoryInvariant, StoriesAreInOrder, Logged

LEMMA StoryHook ==
  ASSUME StoryInvariant, NEW rep, HookStep(rep)
  PROVE  StoryInvariant'
<1>1. Adds(rep) /\ rep \in Report
  BY HookAdds DEF HookStep, StoryInvariant
<1>2. /\ Len(entries) \in Nat /\ Len(entries') \in Nat
      /\ Len(entries) <= Len(entries')
      /\ \A i \in 1..Len(entries) :
           i \in 1..Len(entries') /\ entries'[i] = entries[i]
      /\ \A i \in 1..Len(entries') : i \in 1..Len(entries) \/ IsNew(rep, i)
  BY <1>1, LogGrows DEF StoryInvariant
<1>3. \A t \in Tokens :
        bindings[t] # None =>
          \E j \in 1..Len(entries) :
            entries[j].event.type = "issuance" /\ entries[j].event.token = t
  BY DEF StoryInvariant, Logged
<1>4. \A i \in 1..Len(entries) :
        entries[i].event.type = "revocation" =>
          entries[i].event.token \in Tokens /\ OutOfUse(entries[i].event.token)
  BY DEF StoryInvariant, Logged
<1>5. entries' \in Seq(Range(entries'))
  BY <1>1 DEF Adds
<1>6. ASSUME NEW i \in 1..Len(entries'), entries'[i].event.type = "decision"
      PROVE  \E j \in 1..(i - 1) :
               /\ entries'[j].event.type = "issuance"
               /\ entries'[j].event.token = entries'[i].event.token
  <2>1. CASE i \in 1..Len(entries)
    <3>1. PICK j \in 1..(i - 1) : /\ entries[j].event.type = "issuance"
                                  /\ entries[j].event.token = entries[i].event.token
      BY <1>2, <1>6, <2>1 DEF StoryInvariant, StoriesAreInOrder
    <3>2. j \in 1..Len(entries)
      BY <1>2, <2>1
    <3> QED BY <1>2, <2>1, <3>1, <3>2
  <2>2. CASE IsNew(rep, i)
    <3>1. rep.kind \in {"decision", "challenge_passed"}
      BY <1>6, <2>2 DEF IsNew
    <3>2. rep.token \in Tokens /\ bindings[rep.token] # None
      BY <3>1 DEF HookStep, Told, DecisionTold
    <3>3. PICK j \in 1..Len(entries) : /\ entries[j].event.type = "issuance"
                                       /\ entries[j].event.token = rep.token
      BY <1>3, <3>2
    <3>4. j \in 1..(i - 1)
      BY <1>2, <2>2 DEF IsNew
    <3> QED BY <1>2, <2>2, <3>3, <3>4 DEF IsNew
  <2> QED BY <1>2, <2>1, <2>2
<1>7. ASSUME NEW i \in 1..Len(entries'), entries'[i].event.type = "revocation",
             NEW j \in (i + 1)..Len(entries'),
             entries'[j].event.token = entries'[i].event.token
      PROVE  entries'[j].event.reason # "ok"
  <2>1. j \in 1..Len(entries') /\ i < j
    BY <1>2
  <2>2. CASE IsNew(rep, i)
    <3>1. i = Len(entries) + 1 /\ rep.kind = "revocation"
      BY <1>2, <1>7, <2>2 DEF IsNew
    <3>2. IsNew(rep, j) /\ j # Len(entries) + 1
      BY <1>2, <2>1, <3>1
    <3> QED BY <3>1, <3>2 DEF IsNew
  <2>3. CASE i \in 1..Len(entries) /\ j \in 1..Len(entries)
    <3>1. j \in (i + 1)..Len(entries)
      BY <2>1, <2>3
    <3> QED BY <1>2, <1>7, <2>3, <3>1 DEF StoryInvariant, StoriesAreInOrder
  <2>4. CASE i \in 1..Len(entries) /\ IsNew(rep, j)
    <3>1. rep.token \in Tokens /\ OutOfUse(rep.token)
      BY <1>2, <1>4, <1>7, <2>4 DEF IsNew
    <3>2. rep.reason # "ok"
      BY <3>1 DEF OutOfUse, HookStep, Told, DecisionTold
    <3> QED BY <2>4, <3>2 DEF IsNew
  <2> QED BY <1>2, <2>1, <2>2, <2>3, <2>4
<1>8. ASSUME NEW t \in Tokens, bindings'[t] # None
      PROVE  \E j \in 1..Len(entries') :
               entries'[j].event.type = "issuance" /\ entries'[j].event.token = t
  <2>1. CASE bindings[t] # None
    BY <1>2, <1>3, <2>1
  <2>2. CASE rep.kind = "issuance" /\ rep.token = t
    <3>1. Reached(rep) = 1
      BY <2>2 DEF Reached
    <3>2. Len(entries') = Len(entries) + 1
      BY <1>1, <3>1 DEF Adds
    <3>3. /\ Len(entries) + 1 \in 1..Len(entries')
          /\ Len(entries) + 1 \notin 1..Len(entries)
      BY <1>2, <3>2
    <3>4. IsNew(rep, Len(entries) + 1)
      BY <1>2, <3>3
    <3> QED BY <2>2, <3>3, <3>4 DEF IsNew
  <2> QED BY <1>8, <2>1, <2>2 DEF HookStep, Told, BindingTold
<1>9. ASSUME NEW i \in 1..Len(entries'), entries'[i].event.type = "revocation"
      PROVE  /\ entries'[i].event.token \in Tokens
             /\ \E t \in Tokens : t = entries'[i].event.token /\ OutOfUse(t)'
  <2>1. CASE i \in 1..Len(entries)
    BY <1>2, <1>4, <1>9, <2>1 DEF HookStep
  <2>2. CASE IsNew(rep, i)
    BY <1>9, <2>2 DEF IsNew, HookStep, Told, BindingTold
  <2> QED BY <1>2, <2>1, <2>2
<1>10. StoriesAreInOrder'
  BY <1>6, <1>7 DEF StoriesAreInOrder
<1>11. \A t \in Tokens :
         bindings'[t] # None =>
           \E j \in Logged("issuance")' : entries'[j].event.token = t
  BY <1>8 DEF Logged
<1>12. \A i \in Logged("revocation")' :
         entries'[i].event.token \in Tokens /\ OutOfUse(entries[i].event.token)'
  BY <1>9 DEF Logged, OutOfUse
<1> QED BY <1>5, <1>10, <1>11, <1>12 DEF StoryInvariant

LEMMA StoryStep ==
  ProxyInvariant /\ StoryInvariant /\ [ObservedNext]_<<vars, observerVars>>
    => StoryInvariant'
<1> SUFFICES ASSUME ProxyInvariant, StoryInvariant,
                    [ObservedNext]_<<vars, observerVars>>
             PROVE  StoryInvariant'
  OBVIOUS
<1>1. CASE ObservedNext
  BY <1>1, ObservedSteps, StoryRestart, StoryHook
<1>2. CASE UNCHANGED <<vars, observerVars>>
  BY <1>2 DEF vars, observerVars, auditVars, bindingVars, backendVars,
              StoryInvariant, StoriesAreInOrder, Logged, OutOfUse
<1> QED BY <1>1, <1>2

LEMMA StoryInvariantHolds == ObservedSpec => []StoryInvariant
BY ProxyInvariantHolds, StoryInit, StoryStep, PTL DEF ObservedSpec

(* The log tells the story of a token in order, although what is reported  *)
(* of a request is written after the state it was decided on may be gone.  *)
THEOREM StoriesAreAlwaysInOrder == ObservedSpec => []StoriesAreInOrder
<1>1. StoryInvariant => StoriesAreInOrder
  BY DEF StoryInvariant
<1> QED BY <1>1, StoryInvariantHolds, PTL

(***************************************************************************)
(* Challenges and their answers.                                           *)
(***************************************************************************)

(* The j-th entry of the log is the last word about t's challenge, issued  *)
(* at the time given.                                                      *)
LastWord(log, j, t, time, last) ==
  /\ log[j].event.type = "challenge_issued"
  /\ log[j].event.token = t
  /\ log[j].ts = time
  /\ \A k \in (j + 1)..last :
       log[k].event.type \in {"challenge_passed", "challenge_issued"} =>
         log[k].event.token # t

LEMMA ChallengeInit == ObservedInit => ChallengeInvariant
<1> SUFFICES ASSUME ObservedInit  PROVE ChallengeInvariant
  OBVIOUS
<1>1. entries = <<>> /\ Len(entries) = 0
  BY EmptySeq DEF ObservedInit, AuditInit
<1>2. \A t \in Tokens : challenges[t] = None
  BY DEF ObservedInit, Init, ProxyInit
<1> QED BY <1>1, <1>2 DEF ChallengeInvariant, ChallengesAreAnswered

LEMMA ChallengeRestart ==
  ASSUME RestartStep  PROVE ChallengeInvariant'
<1>1. entries' = <<>> /\ Len(entries') = 0
  BY EmptySeq DEF RestartStep
<1> QED BY <1>1 DEF RestartStep, ChallengeInvariant, ChallengesAreAnswered

LEMMA ChallengeHook ==
  ASSUME entries \in Seq(Range(entries)), now \in Nat,
         challenges \in [Tokens -> Optional(Challenge)],
         ChallengeInvariant, NEW rep, HookStep(rep)
  PROVE  ChallengeInvariant'
<1>1. Adds(rep) /\ rep \in Report
  BY HookAdds DEF HookStep
<1>2. /\ Len(entries) \in Nat /\ Len(entries') \in Nat
      /\ Len(entries) <= Len(entries')
      /\ \A i \in 1..Len(entries) :
           i \in 1..Len(entries') /\ entries'[i] = entries[i]
      /\ \A i \in 1..Len(entries') : i \in 1..Len(entries) \/ IsNew(rep, i)
  BY <1>1, LogGrows
<1>3. PICK n \in Nat : n = Len(entries)
  BY <1>2
<1>4. ASSUME NEW t \in Tokens, challenges[t] # None
      PROVE  \E j \in 1..n : LastWord(entries, j, t, challenges[t].issued_at, n)
  <2>1. PICK j \in Logged("challenge_issued") :
          /\ entries[j].event.token = t
          /\ entries[j].ts = challenges[t].issued_at
          /\ \A k \in Logged("challenge_issued") \cup Logged("challenge_passed") :
               k > j => entries[k].event.token # t
    BY <1>4 DEF ChallengeInvariant
  <2>2. j \in 1..n /\ entries[j].event.type = "challenge_issued"
    BY <1>3, <2>1 DEF Logged
  <2>3. ASSUME NEW k \in (j + 1)..n,
               entries[k].event.type \in {"challenge_passed", "challenge_issued"}
        PROVE  entries[k].event.token # t
    <3>1. k > j /\ k \in 1..Len(entries)
      BY <1>3, <2>2, <2>3
    <3> QED BY <2>1, <2>3, <3>1 DEF Logged
  <2> QED BY <2>1, <2>2, <2>3 DEF LastWord
<1>5. ASSUME NEW j \in 1..n, NEW t, NEW time, LastWord(entries, j, t, time, n)
      PROVE  LastWord(entries', j, t, time, n)
  BY <1>2, <1>3, <1>5 DEF LastWord
<1>6. ASSUME NEW i \in 1..Len(entries'), entries'[i].event.type = "challenge_passed"
      PROVE  \E j \in 1..(i - 1) :
               /\ entries'[j].event.type = "challenge_issued"
               /\ entries'[j].event.token = entries'[i].event.token
               /\ entries'[i].ts - entries'[j].ts <= ChallengeTTL
               /\ \A k \in (j + 1)..(i - 1) :
                    entries'[k].event.type \in {"challenge_passed", "challenge_issued"} =>
                      entries'[k].event.token # entries'[i].event.token
  <2>1. CASE i \in 1..n
    <3>1. PICK j \in 1..(i - 1) :
            /\ entries[j].event.type = "challenge_issued"
            /\ entries[j].event.token = entries[i].event.token
            /\ entries[i].ts - entries[j].ts <= ChallengeTTL
            /\ \A k \in (j + 1)..(i - 1) :
                 entries[k].event.type \in {"challenge_passed", "challenge_issued"} =>
                   entries[k].event.token # entries[i].event.token
      BY <1>2, <1>3, <1>6, <2>1 DEF ChallengeInvariant, ChallengesAreAnswered
    <3>2. j \in 1..Len(entries) /\ \A k \in (j + 1)..(i - 1) : k \in 1..Len(entries)
      BY <1>3, <2>1
    <3> QED BY <1>2, <1>3, <2>1, <3>1, <3>2
  <2>2. CASE IsNew(rep, i)
    <3>1. i = n + 1 /\ rep.kind = "challenge_passed"
      BY <1>3, <1>6, <2>2 DEF IsNew
    <3>2. /\ entries'[i].event.token = rep.token
          /\ entries'[i].ts = now
      BY <2>2 DEF IsNew
    <3>3. /\ rep.token \in Tokens
          /\ challenges[rep.token] # None
          /\ now - challenges[rep.token].issued_at <= ChallengeTTL
      <4>1. /\ rep.token \in Tokens
            /\ challenges[rep.token] # None
            /\ ~ChallengeExpired(rep.token, now)
        BY <3>1 DEF HookStep, Told, ChallengeTold
      <4>2. challenges[rep.token].issued_at \in Nat
        BY <4>1 DEF Optional, Challenge
      <4> QED BY <4>1, <4>2, ChallengeTTLAssumption DEF ChallengeExpired
    <3>4. PICK j \in 1..n :
            LastWord(entries', j, rep.token, challenges[rep.token].issued_at, n)
      BY <1>4, <1>5, <3>3
    <3>5. j \in 1..(i - 1) /\ i - 1 = n
      BY <3>1
    <3> QED BY <3>2, <3>3, <3>4, <3>5 DEF LastWord
  <2> QED BY <1>2, <1>3, <2>1, <2>2
<1>7. ASSUME NEW t \in Tokens, challenges'[t] # None
      PROVE  \E j \in 1..Len(entries') :
               LastWord(entries', j, t, challenges'[t].issued_at, Len(entries'))
  <2>1. CASE rep.kind = "challenge_issued" /\ rep.token = t
    <3>1. Reached(rep) = 1
      BY <2>1 DEF Reached
    <3>2. Len(entries') = n + 1
      BY <1>1, <1>3, <3>1 DEF Adds
    <3>3. IsNew(rep, n + 1)
      BY <1>2, <1>3, <3>2
    <3>4. challenges'[t].issued_at = now
      BY <2>1 DEF HookStep, Told, ChallengeTold
    <3>5. LastWord(entries', n + 1, t, now, n + 1)
      BY <1>3, <2>1, <3>3 DEF IsNew, LastWord
    <3> QED BY <3>2, <3>4, <3>5
  <2>2. CASE ~(rep.kind = "challenge_issued" /\ rep.token = t)
    <3>1. /\ challenges'[t] = challenges[t]
          /\ rep.kind \in {"challenge_passed", "challenge_issued"} => rep.token # t
      BY <1>7, <2>2 DEF HookStep, Told, ChallengeTold
    <3>2. PICK j \in 1..n : LastWord(entries', j, t, challenges[t].issued_at, n)
      BY <1>4, <1>5, <1>7, <3>1
    <3>3. ASSUME NEW k \in (j + 1)..Len(entries'),
                 entries'[k].event.type \in {"challenge_passed", "challenge_issued"}
          PROVE  entries'[k].event.token # t
      <4>1. CASE k \in 1..n
        <5>1. k \in (j + 1)..n
          BY <4>1
        <5> QED BY <3>2, <3>3, <5>1 DEF LastWord
      <4>2. CASE IsNew(rep, k)
        BY <3>1, <3>3, <4>2 DEF IsNew
      <4>3. k \in 1..Len(entries')
        BY <1>2
      <4> QED BY <1>2, <1>3, <4>1, <4>2, <4>3
    <3>4. LastWord(entries', j, t, challenges'[t].issued_at, Len(entries'))
      BY <3>1, <3>2, <3>3 DEF LastWord
    <3> QED BY <1>2, <1>3, <3>4
  <2> QED BY <2>1, <2>2
<1>8. ChallengesAreAnswered'
  BY <1>6 DEF ChallengesAreAnswered
<1>9. ASSUME NEW t \in Tokens, challenges'[t] # None
      PROVE  \E j \in Logged("challenge_issued")' :
               /\ entries'[j].event.token = t
               /\ entries'[j].ts = challenges'[t].issued_at
               /\ \A k \in (Logged("challenge_issued") \cup Logged("challenge_passed"))' :
                    k > j => entries'[k].event.token # t
  <2>1. PICK j \in 1..Len(entries') :
          LastWord(entries', j, t, challenges'[t].issued_at, Len(entries'))
    BY <1>7, <1>9
  <2>2. \A k \in 1..Len(entries') : k > j => k \in (j + 1)..Len(entries')
    BY <1>2
  <2> QED BY <2>1, <2>2 DEF LastWord, Logged
<1> QED BY <1>8, <1>9 DEF ChallengeInvariant

LEMMA ChallengeStep ==
  ProxyInvariant /\ StoryInvariant /\ ChallengeInvariant
    /\ [ObservedNext]_<<vars, observerVars>> => ChallengeInvariant'
<1> SUFFICES ASSUME ProxyInvariant, StoryInvariant, ChallengeInvariant,
                    [ObservedNext]_<<vars, observerVars>>
             PROVE  ChallengeInvariant'
  OBVIOUS
<1>1. /\ entries \in Seq(Range(entries)) /\ now \in Nat
      /\ challenges \in [Tokens -> Optional(Challenge)]
  BY DEF StoryInvariant, ProxyInvariant, TypeOK, ChallengeStoreTypeOK
<1>2. CASE ObservedNext
  BY <1>1, <1>2, ObservedSteps, ChallengeRestart, ChallengeHook
<1>3. CASE UNCHANGED <<vars, observerVars>>
  BY <1>3 DEF vars, observerVars, auditVars, challengeVars,
              ChallengeInvariant, ChallengesAreAnswered, Logged
<1> QED BY <1>2, <1>3

(* A challenge that is passed was the last one issued for its token, and   *)
(* not too long ago: the log never shows an answer to a challenge that was *)
(* replaced, had expired, or was answered before.                          *)
THEOREM ChallengesAreAlwaysAnswered == ObservedSpec => []ChallengesAreAnswered
<1>1. ChallengeInvariant => ChallengesAreAnswered
  BY DEF ChallengeInvariant
<1> QED
  BY <1>1, ProxyInvariantHolds, StoryInvariantHolds, ChallengeInit, ChallengeStep,
     PTL DEF ObservedSpec

(***************************************************************************)
(* The dashboard and the log.                                              *)
(***************************************************************************)
Pushed(new, deque, row, l) ==
  /\ Len(new) = Smaller(MaxRows, l + 1)
  /\ new[Len(new)] = row
  /\ \A k \in Nat :
       k < l /\ k + 1 < MaxRows => new[Len(new) - (k + 1)] = deque[l - k]

LEMMA PushedRow ==
  ASSUME NEW deque, IsLog(deque), NEW row, NEW l \in Nat,
         l = Len(deque), l <= MaxRows,
         NEW new, new = PushedOn(deque, row)
  PROVE  IsLog(new) /\ Pushed(new, deque, row, l)
<1> USE DEF IsLog, Pushed
<1>1. PICK all : all = Append(deque, row)
  OBVIOUS
<1>2. /\ all \in Seq(Range(all))
      /\ Len(all) = l + 1
      /\ \A i \in 1..l : all[i] = deque[i]
      /\ all[l + 1] = row
  BY <1>1, AppendedLog
<1>3. MaxRows \in Nat \ {0}
  BY MaxRowsAssumption
<1>4. CASE l + 1 > MaxRows
  <2>1. new = Tail(all) /\ l = MaxRows /\ l >= 1
    BY <1>1, <1>2, <1>3, <1>4 DEF PushedOn
  <2>2. /\ new \in Seq(Range(all)) /\ Len(new) = l
        /\ \A i \in 1..l : new[i] = all[i + 1]
    <3>1. all # <<>>
      BY <1>2, EmptySeq
    <3> QED BY <1>2, <2>1, <3>1, HeadTailProperties
  <2>3. new \in Seq(Range(new))
    BY <2>2, SeqOfRange
  <2>4. Len(new) = Smaller(MaxRows, l + 1)
    BY <1>3, <2>1, <2>2 DEF Smaller
  <2>5. new[l] = row
    BY <1>2, <2>1, <2>2
  <2>6. ASSUME NEW k \in Nat, k < l, k + 1 < MaxRows
        PROVE  new[l - (k + 1)] = deque[l - k]
    <3>1. PICK i \in 1..l : i = l - (k + 1)
      BY <2>1, <2>6
    <3>2. i + 1 = l - k /\ i + 1 \in 1..l
      BY <2>6, <3>1
    <3> QED BY <1>2, <2>2, <3>1, <3>2
  <2> QED BY <2>2, <2>3, <2>4, <2>5, <2>6
<1>5. CASE ~(l + 1 > MaxRows)
  <2>1. new = all
    BY <1>1, <1>2, <1>5 DEF PushedOn
  <2>2. Len(new) = Smaller(MaxRows, l + 1)
    BY <1>2, <1>3, <1>5, <2>1 DEF Smaller
  <2>3. ASSUME NEW k \in Nat, k < l, k + 1 < MaxRows
        PROVE  new[(l + 1) - (k + 1)] = deque[l - k]
    <3>1. (l + 1) - (k + 1) = l - k /\ l - k \in 1..l
      BY <2>3
    <3> QED BY <1>2, <2>1, <3>1
  <2> QED BY <1>2, <2>1, <2>2, <2>3
<1> QED BY <1>4, <1>5

(* Whether a hook's report reaches the table: the entry it makes of the    *)
(* decision is the last one.                                               *)
Decides(rep) ==
  \/ rep.kind \in {"block", "decision"}
  \/ rep.kind = "challenge_passed" /\ rep.written >= 1

NewOf(rep, type, n) ==
  IF rep.kind # "none" /\ rep.kind = type THEN {n + 1}
  ELSE IF rep.kind = "challenge_passed" /\ rep.written >= 1 /\ type = "decision"
    THEN {n + 2}
    ELSE {}

LEMMA LoggedAfter ==
  ASSUME entries \in Seq(Range(entries)), NEW rep \in Report, Adds(rep),
         NEW n \in Nat, n = Len(entries), NEW type
  PROVE  /\ Logged(type) \subseteq 1..n
         /\ IsFiniteSet(Logged(type))
         /\ Logged(type)' = Logged(type) \cup NewOf(rep, type, n)
         /\ \A i \in NewOf(rep, type, n) : i > n /\ IsNew(rep, i)
<1>1. Logged(type) \subseteq 1..n
  BY DEF Logged
<1>2. IsFiniteSet(Logged(type))
  <2>1. IsFiniteSet(1..n)
    BY FS_Interval
  <2> QED BY <1>1, <2>1, FS_Subset
<1>3. /\ \A i \in 1..n : i \in 1..Len(entries') /\ entries'[i] = entries[i]
      /\ \A i \in 1..Len(entries') : i \in 1..n \/ IsNew(rep, i)
  BY LogGrows
<1>4. PICK m \in {0, 1, 2} : m = Reached(rep)
  BY DEF Reached
<1>5. Len(entries') = n + m
  BY <1>4 DEF Adds
<1>6. NewOf(rep, type, n) \subseteq (n + 1)..(n + m)
  BY <1>4 DEF NewOf, Reached
<1>7. ASSUME NEW i \in (n + 1)..(n + m)
      PROVE  IsNew(rep, i) /\ (entries'[i].event.type = type <=> i \in NewOf(rep, type, n))
  <2>1. IsNew(rep, i)
    BY <1>3, <1>5, <1>7
  <2>2. i = n + 1 \/ (i = n + 2 /\ rep.kind = "challenge_passed" /\ rep.written >= 1)
    BY <1>4, <1>7 DEF Reached
  <2> QED BY <2>1, <2>2 DEF IsNew, NewOf
<1>8. \A i \in 1..Len(entries') : i \in 1..n \/ i \in (n + 1)..(n + m)
  BY <1>5
<1>9. NewOf(rep, type, n) \subseteq 1..Len(entries')
  BY <1>5, <1>6
<1>10. Logged(type)' = Logged(type) \cup NewOf(rep, type, n)
  BY <1>3, <1>6, <1>7, <1>8, <1>9 DEF Logged
<1> QED BY <1>1, <1>2, <1>6, <1>7, <1>10

LEMMA DecidedByHook ==
  ASSUME entries \in Seq(Range(entries)), NEW rep \in Report, Adds(rep),
         NEW n \in Nat, n = Len(entries)
  PROVE  /\ Decided \subseteq 1..n /\ IsFiniteSet(Decided)
         /\ ~Decides(rep) => Decided' = Decided
         /\ Decides(rep) =>
              \E d \in Nat :
                /\ d > n /\ IsNew(rep, d)
                /\ Decided' = Decided \cup {d}
                /\ entries'[d].event.type =
                     IF rep.kind = "block" THEN "block" ELSE "decision"
<1>1. Decided \subseteq 1..n /\ IsFiniteSet(Decided)
  BY LoggedAfter, FS_Union DEF Decided
<1>2. Decided' = Decided \cup NewOf(rep, "block", n) \cup NewOf(rep, "decision", n)
  BY LoggedAfter DEF Decided
<1>3. ASSUME ~Decides(rep)  PROVE Decided' = Decided
  BY <1>2, <1>3 DEF NewOf, Decides
<1>4. CASE rep.kind \in {"block", "decision"}
  <2>1. /\ NewOf(rep, rep.kind, n) = {n + 1}
        /\ Decided' = Decided \cup {n + 1}
    BY <1>2, <1>4 DEF NewOf
  <2>2. n + 1 > n /\ n + 1 \in Nat /\ IsNew(rep, n + 1)
    BY <2>1, LoggedAfter
  <2>3. entries'[n + 1].event.type = rep.kind
    BY <2>2 DEF IsNew
  <2> QED BY <1>1, <1>4, <2>1, <2>2, <2>3 DEF Decides
<1>5. CASE rep.kind = "challenge_passed" /\ rep.written >= 1
  <2>1. /\ NewOf(rep, "decision", n) = {n + 2}
        /\ Decided' = Decided \cup {n + 2}
    BY <1>2, <1>5 DEF NewOf
  <2>2. n + 2 > n /\ n + 2 \in Nat /\ IsNew(rep, n + 2)
    BY <2>1, LoggedAfter
  <2>3. entries'[n + 2].event.type = "decision"
    BY <2>2 DEF IsNew
  <2> QED BY <1>1, <1>5, <2>1, <2>2, <2>3 DEF Decides
<1> QED BY <1>1, <1>3, <1>4, <1>5 DEF Decides

(* The row and the counters of a decision that is shown.                   *)
LEMMA ShownDecision ==
  ASSUME NEW rep \in Report, Decides(rep), Told(rep), ShowReport(rep),
         NEW d, IsNew(rep, d),
         entries'[d].event.type = IF rep.kind = "block" THEN "block" ELSE "decision"
  PROVE  /\ rows' = PushedOn(rows, RowOf(d)')
         /\ counts' = Counted(OutcomeOf(rep))
         /\ entries'[d].event.reason = rep.reason
<1>1. PICK e : e = entries'[d].event
  OBVIOUS
<1>2. /\ e.token = rep.token /\ e.reason = rep.reason /\ e.risk = rep.risk
      /\ e.type = IF rep.kind = "block" THEN "block" ELSE "decision"
  BY <1>1 DEF IsNew
<1>3. PICK row : row = Row(OutcomeOf(rep), rep.reason,
                           IF rep.kind = "block" THEN None ELSE rep.risk, rep.token)
  OBVIOUS
<1>4. RowOf(d)' = row
  BY <1>1, <1>2, <1>3 DEF RowOf, OutcomeOf
<1>5. row.outcome = OutcomeOf(rep)
  BY <1>3 DEF Row
<1>6. RecordRow(row)
  <2>1. CASE rep.kind = "block"
    <3>1. OutcomeOf(rep) = "BLOCK"
      BY <2>1 DEF Told, DecisionTold, OutcomeOf
    <3> QED BY <1>3, <2>1, <3>1 DEF ShowReport, RecordRawBlock
  <2>2. CASE rep.kind # "block"
    BY <1>3, <2>2 DEF ShowReport, RecordDecision, Decides
  <2> QED BY <2>1, <2>2
<1> QED BY <1>1, <1>2, <1>4, <1>5, <1>6 DEF RecordRow

(* Other reports leave the table alone, and count what they are of.        *)
LEMMA ShownOtherwise ==
  ASSUME NEW rep \in Report, ~Decides(rep), ShowReport(rep), counts \in Counters
  PROVE  /\ rows' = rows
         /\ counts' = [counts EXCEPT
              !.rate_limited = IF rep.kind = "rate_limited" THEN @ + 1 ELSE @,
              !.challenges_issued = IF rep.kind = "challenge_issued" THEN @ + 1 ELSE @]
<1>1. CASE rep.kind = "rate_limited"
  BY <1>1 DEF ShowReport, RecordRateLimited, Counters
<1>2. CASE rep.kind = "challenge_issued"
  BY <1>2 DEF ShowReport, RecordChallengeIssued, Counters
<1>3. CASE rep.kind \notin {"rate_limited", "challenge_issued"}
  <2>1. UNCHANGED <<rows, counts>>
    BY <1>3 DEF ShowReport, RecordIssuance, Decides, dashboardVars
  <2> QED BY <1>3, <2>1 DEF Counters
<1> QED BY <1>1, <1>2, <1>3

(* One more element, a new one.                                            *)
LEMMA OneMore ==
  ASSUME NEW S, IsFiniteSet(S), NEW x, x \notin S
  PROVE  /\ Cardinality(S) \in Nat
         /\ IsFiniteSet(S \cup {x})
         /\ Cardinality(S \cup {x}) = Cardinality(S) + 1
BY FS_AddElement, FS_CardinalityType

(* The i-th decision of the log has fewer after it than there are.         *)
LEMMA FewerAfter ==
  ASSUME IsFiniteSet(Decided), NEW i \in Decided
  PROVE  /\ IsFiniteSet(DecidedAfter(i))
         /\ Cardinality(DecidedAfter(i)) \in Nat
         /\ Cardinality(DecidedAfter(i)) < Cardinality(Decided)
<1>1. DecidedAfter(i) \subseteq Decided /\ i \notin DecidedAfter(i)
  <2>1. i \in Int
    BY DEF Decided, Logged
  <2> QED BY <2>1 DEF DecidedAfter
<1>2. /\ IsFiniteSet(DecidedAfter(i))
      /\ Cardinality(DecidedAfter(i)) <= Cardinality(Decided)
      /\ Cardinality(DecidedAfter(i)) = Cardinality(Decided) => DecidedAfter(i) = Decided
  BY <1>1, FS_Subset
<1>3. DecidedAfter(i) # Decided
  BY <1>1
<1>4. Cardinality(DecidedAfter(i)) \in Nat /\ Cardinality(Decided) \in Nat
  BY <1>2, FS_CardinalityType
<1> QED BY <1>2, <1>3, <1>4

LEMMA TotalIsCounted ==
  ASSUME counts \in Counters, NEW rep, counts' = Counted(OutcomeOf(rep))
  PROVE  /\ counts' \in Counters
         /\ counts'.total = counts.total + 1
         /\ rep.reason = "ok" =>
              counts'.passed = counts.passed + 1 /\ counts'.blocked = counts.blocked
         /\ rep.reason # "ok" =>
              counts'.passed = counts.passed /\ counts'.blocked = counts.blocked + 1
         /\ counts'.rate_limited = counts.rate_limited
         /\ counts'.challenges_issued = counts.challenges_issued
<1>1. CASE rep.reason = "ok"
  <2>1. counts' = [total |-> counts.total + 1, passed |-> counts.passed + 1,
                   blocked |-> counts.blocked,
                   rate_limited |-> counts.rate_limited,
                   challenges_issued |-> counts.challenges_issued]
    BY <1>1 DEF Counted, OutcomeOf, Counters
  <2>2. /\ counts' \in Counters
        /\ counts'.total = counts.total + 1
        /\ counts'.passed = counts.passed + 1
        /\ counts'.blocked = counts.blocked
        /\ counts'.rate_limited = counts.rate_limited
        /\ counts'.challenges_issued = counts.challenges_issued
    BY <2>1 DEF Counters
  <2> QED BY <1>1, <2>2
<1>2. CASE rep.reason # "ok"
  <2>1. counts' = [total |-> counts.total + 1, passed |-> counts.passed,
                   blocked |-> counts.blocked + 1,
                   rate_limited |-> counts.rate_limited,
                   challenges_issued |-> counts.challenges_issued]
    BY <1>2 DEF Counted, OutcomeOf, Counters
  <2>2. /\ counts' \in Counters
        /\ counts'.total = counts.total + 1
        /\ counts'.passed = counts.passed
        /\ counts'.blocked = counts.blocked + 1
        /\ counts'.rate_limited = counts.rate_limited
        /\ counts'.challenges_issued = counts.challenges_issued
    BY <2>1 DEF Counters
  <2> QED BY <1>2, <2>2
<1> QED BY <1>1, <1>2

LEMMA DashboardDecides ==
  ASSUME entries \in Seq(Range(entries)), LogInvariant, DashboardAgreesWithLog,
         NEW rep, HookStep(rep), Adds(rep), Decides(rep)
  PROVE  DashboardAgreesWithLog' /\ (counts \in Counters)' /\ (rows \in Seq(Range(rows)))'
<1>1. PICK n \in Nat : n = Len(entries)
  BY LogProperties
<1>2. rep \in Report /\ Told(rep) /\ ShowReport(rep)
  BY DEF HookStep
<1>3. Decided \subseteq 1..n /\ IsFiniteSet(Decided)
  BY <1>1, <1>2, DecidedByHook
<1>4. PICK d \in Nat :
        /\ d > n /\ IsNew(rep, d)
        /\ Decided' = Decided \cup {d}
        /\ entries'[d].event.type =
             IF rep.kind = "block" THEN "block" ELSE "decision"
  BY <1>1, <1>2, DecidedByHook
<1>5. /\ rows' = PushedOn(rows, RowOf(d)')
      /\ counts' = Counted(OutcomeOf(rep))
      /\ entries'[d].event.reason = rep.reason
  BY <1>2, <1>4, ShownDecision
<1>6. \A i \in 1..n : entries'[i] = entries[i]
  BY <1>1 DEF Adds
<1>7. d \notin Decided /\ \A i \in Decided : i \in Nat /\ i < d
  BY <1>3, <1>4
<1>9. /\ counts' \in Counters
      /\ counts'.total = counts.total + 1
      /\ rep.reason = "ok" =>
           counts'.passed = counts.passed + 1 /\ counts'.blocked = counts.blocked
      /\ rep.reason # "ok" =>
           counts'.passed = counts.passed /\ counts'.blocked = counts.blocked + 1
      /\ counts'.rate_limited = counts.rate_limited
      /\ counts'.challenges_issued = counts.challenges_issued
  <2>1. counts \in Counters
    BY DEF LogInvariant
  <2> QED BY <1>5, <2>1, TotalIsCounted
<1>10. /\ counts.total = Cardinality(Decided)
       /\ counts.passed = Cardinality(Passed)
       /\ counts.blocked = counts.total - counts.passed
       /\ counts.total \in Nat /\ counts.passed \in Nat /\ counts.blocked \in Nat
  BY DEF DashboardAgreesWithLog, LogInvariant, Counters
<1>11. counts'.total = Cardinality(Decided')
  BY <1>3, <1>4, <1>7, <1>9, <1>10, OneMore
<1>12. counts'.passed = Cardinality(Passed')
  <2>1. Passed' = Passed \cup (IF rep.reason = "ok" THEN {d} ELSE {})
    BY <1>3, <1>4, <1>5, <1>6 DEF Passed
  <2>2. IsFiniteSet(Passed) /\ d \notin Passed
    BY <1>3, <1>7, FS_Subset DEF Passed
  <2>3. CASE rep.reason = "ok"
    BY <1>9, <1>10, <2>1, <2>2, <2>3, OneMore
  <2>4. CASE rep.reason # "ok"
    BY <1>9, <1>10, <2>1, <2>4
  <2> QED BY <2>3, <2>4
<1>13. counts'.blocked = counts'.total - counts'.passed
  BY <1>9, <1>10
<1>14. /\ counts'.rate_limited = Cardinality(Logged("rate_limited")')
       /\ counts'.challenges_issued = Cardinality(Logged("challenge_issued")')
  <2>1. /\ NewOf(rep, "rate_limited", n) = {}
        /\ NewOf(rep, "challenge_issued", n) = {}
    BY DEF NewOf, Decides
  <2>2. ASSUME NEW type, NewOf(rep, type, n) = {}
        PROVE  Logged(type)' = Logged(type)
    <3>1. Logged(type)' = Logged(type) \cup NewOf(rep, type, n)
      BY <1>1, <1>2, LoggedAfter
    <3> QED BY <2>2, <3>1
  <2>3. /\ Logged("rate_limited")' = Logged("rate_limited")
        /\ Logged("challenge_issued")' = Logged("challenge_issued")
    BY <2>1, <2>2
  <2> QED BY <1>9, <2>3 DEF DashboardAgreesWithLog
<1>15. PICK l \in Nat : l = Len(rows)
  BY LogProperties DEF LogInvariant
<1>16. PICK new : new = rows'
  OBVIOUS
<1>17. MaxRows \in Nat \ {0}
  BY MaxRowsAssumption
<1>18. l = Smaller(MaxRows, counts.total)
  BY <1>15 DEF DashboardAgreesWithLog
<1>19. /\ new \in Seq(Range(new))
       /\ Len(new) = Smaller(MaxRows, l + 1)
       /\ new[Len(new)] = RowOf(d)'
       /\ \A k \in Nat :
            k < l /\ k + 1 < MaxRows => new[Len(new) - (k + 1)] = rows[l - k]
  <2>1. IsLog(rows) /\ l <= MaxRows
    BY <1>10, <1>17, <1>18 DEF LogInvariant, Smaller, IsLog
  <2>2. PICK row : row = RowOf(d)'
    OBVIOUS
  <2>3. new = PushedOn(rows, row)
    BY <1>5, <1>16, <2>2
  <2>4. IsLog(new) /\ Pushed(new, rows, row, l)
    BY <1>15, <2>1, <2>3, PushedRow
  <2> QED BY <2>2, <2>4 DEF IsLog, Pushed
<1>20. Len(rows') = Smaller(MaxRows, counts'.total)
  BY <1>9, <1>10, <1>16, <1>17, <1>18, <1>19 DEF Smaller
<1>21. ASSUME NEW i \in Decided', Cardinality(DecidedAfter(i)') < MaxRows
       PROVE  rows'[Len(rows') - Cardinality(DecidedAfter(i)')] = RowOf(i)'
  <2>1. CASE i = d
    <3>1. DecidedAfter(i)' = {}
      <4> SUFFICES ASSUME NEW j \in Decided', j > d  PROVE FALSE
        BY <2>1 DEF DecidedAfter
      <4> QED BY <1>4, <1>7
    <3>2. Cardinality(DecidedAfter(i)') = 0
      BY <3>1, FS_EmptySet
    <3>3. Len(rows') \in Nat
      BY <1>9, <1>10, <1>17, <1>20 DEF Smaller
    <3> QED BY <1>16, <1>19, <2>1, <3>2, <3>3
  <2>2. CASE i \in Decided
    <3>1. DecidedAfter(i)' = DecidedAfter(i) \cup {d}
      BY <1>4, <1>7, <2>2 DEF DecidedAfter
    <3>2. PICK k \in Nat : k = Cardinality(DecidedAfter(i))
      BY <1>3, <2>2, FewerAfter
    <3>3. k < counts.total
      BY <1>3, <1>10, <2>2, <3>2, FewerAfter
    <3>4. Cardinality(DecidedAfter(i)') = k + 1
      <4>1. IsFiniteSet(DecidedAfter(i)) /\ d \notin DecidedAfter(i)
        BY <1>3, <1>7, <2>2, FewerAfter DEF DecidedAfter
      <4> QED BY <3>1, <3>2, <4>1, OneMore
    <3>5. k + 1 < MaxRows /\ k < MaxRows /\ k < l
      BY <1>10, <1>17, <1>18, <1>21, <3>3, <3>4 DEF Smaller
    <3>6. rows[l - k] = RowOf(i)
      BY <1>15, <2>2, <3>2, <3>5 DEF DashboardAgreesWithLog
    <3>7. RowOf(i)' = RowOf(i)
      BY <1>3, <1>6, <2>2 DEF RowOf, OutcomeOf
    <3> QED BY <1>16, <1>19, <3>4, <3>5, <3>6, <3>7
  <2> QED BY <1>4, <2>1, <2>2
<1>22. DashboardAgreesWithLog'
  BY <1>11, <1>12, <1>13, <1>14, <1>20, <1>21 DEF DashboardAgreesWithLog
<1> QED BY <1>9, <1>16, <1>19, <1>22

LEMMA DashboardOtherwise ==
  ASSUME entries \in Seq(Range(entries)), LogInvariant, DashboardAgreesWithLog,
         NEW rep, HookStep(rep), Adds(rep), ~Decides(rep)
  PROVE  DashboardAgreesWithLog' /\ (counts \in Counters)' /\ (rows \in Seq(Range(rows)))'
<1>1. PICK n \in Nat : n = Len(entries)
  BY LogProperties
<1>2. rep \in Report /\ ShowReport(rep) /\ counts \in Counters
  BY DEF HookStep, LogInvariant
<1>3. Decided \subseteq 1..n /\ Decided' = Decided
  BY <1>1, <1>2, DecidedByHook
<1>4. \A i \in 1..n : entries'[i] = entries[i]
  BY <1>1 DEF Adds
<1>5. PICK limited \in {0, 1} : limited = IF rep.kind = "rate_limited" THEN 1 ELSE 0
  OBVIOUS
<1>6. PICK issued \in {0, 1} : issued = IF rep.kind = "challenge_issued" THEN 1 ELSE 0
  OBVIOUS
<1>7. /\ rows' = rows
      /\ counts' = [total |-> counts.total, passed |-> counts.passed,
                    blocked |-> counts.blocked,
                    rate_limited |-> counts.rate_limited + limited,
                    challenges_issued |-> counts.challenges_issued + issued]
  <2>1. /\ rows' = rows
        /\ counts' = [counts EXCEPT
             !.rate_limited = IF rep.kind = "rate_limited" THEN @ + 1 ELSE @,
             !.challenges_issued = IF rep.kind = "challenge_issued" THEN @ + 1 ELSE @]
    BY <1>2, ShownOtherwise
  <2>2. /\ counts.rate_limited + limited
             = IF rep.kind = "rate_limited" THEN counts.rate_limited + 1
                                            ELSE counts.rate_limited
        /\ counts.challenges_issued + issued
             = IF rep.kind = "challenge_issued" THEN counts.challenges_issued + 1
                                                ELSE counts.challenges_issued
    BY <1>2, <1>5, <1>6 DEF Counters
  <2> QED BY <1>2, <2>1, <2>2 DEF Counters
<1>8. /\ counts' \in Counters
      /\ counts'.total = counts.total
      /\ counts'.passed = counts.passed
      /\ counts'.blocked = counts.blocked
      /\ counts'.rate_limited = counts.rate_limited + limited
      /\ counts'.challenges_issued = counts.challenges_issued + issued
  BY <1>2, <1>7 DEF Counters
<1>9. ASSUME NEW type, NEW more \in {0, 1},
             more = IF rep.kind = type THEN 1 ELSE 0, type \notin {"none", "decision"}
      PROVE  Cardinality(Logged(type)') = Cardinality(Logged(type)) + more
  <2>1. /\ Logged(type)' = Logged(type) \cup NewOf(rep, type, n)
        /\ Logged(type) \subseteq 1..n /\ IsFiniteSet(Logged(type))
    BY <1>1, <1>2, LoggedAfter
  <2>2. NewOf(rep, type, n) = IF more = 1 THEN {n + 1} ELSE {}
    BY <1>9 DEF NewOf
  <2>3. n + 1 \notin Logged(type)
    BY <2>1
  <2>4. Cardinality(Logged(type)) \in Nat
    BY <2>1, FS_CardinalityType
  <2>5. CASE more = 1
    BY <2>1, <2>2, <2>3, <2>5, OneMore
  <2>6. CASE more = 0
    <3>1. Logged(type)' = Logged(type)
      BY <2>1, <2>2, <2>6
    <3> QED BY <2>4, <2>6, <3>1
  <2> QED BY <2>5, <2>6
<1>10. /\ counts'.rate_limited = Cardinality(Logged("rate_limited")')
       /\ counts'.challenges_issued = Cardinality(Logged("challenge_issued")')
  <2>1. Cardinality(Logged("rate_limited")') = Cardinality(Logged("rate_limited")) + limited
    BY <1>5, <1>9
  <2>2. Cardinality(Logged("challenge_issued")')
          = Cardinality(Logged("challenge_issued")) + issued
    BY <1>6, <1>9
  <2> QED BY <1>8, <2>1, <2>2 DEF DashboardAgreesWithLog
<1>11. Passed' = Passed
  BY <1>3, <1>4 DEF Passed
<1>12. \A i \in Decided : RowOf(i)' = RowOf(i) /\ DecidedAfter(i)' = DecidedAfter(i)
  BY <1>3, <1>4 DEF RowOf, OutcomeOf, DecidedAfter
<1>13. DashboardAgreesWithLog'
  BY <1>3, <1>7, <1>8, <1>10, <1>11, <1>12 DEF DashboardAgreesWithLog
<1>14. (rows \in Seq(Range(rows)))'
  BY <1>7 DEF LogInvariant
<1> QED BY <1>8, <1>13, <1>14

(***************************************************************************)
(* Every PASS and its entries.                                             *)
(***************************************************************************)
LEMMA UnwrittenAfter ==
  ASSUME entries \in Seq(Range(entries)), LogInvariant,
         NEW rep \in Report, Adds(rep), Mirrors(rep), NEW n \in Nat, n = Len(entries)
  PROVE  /\ UnwrittenPasses \subseteq 1..n
         /\ UnwrittenPasses' =
              UnwrittenPasses \cup
                (IF rep.kind = "challenge_passed" /\ rep.written = 0
                   THEN {n + 1} ELSE {})
<1>1. PICK m \in Nat : m = Len(disk)
  BY LogProperties DEF LogInvariant
<1>2. PICK w \in Nat : w = Written(rep) /\ w \in 0..2 /\ w <= Reached(rep)
  BY DEF Written, Smaller, Report, Reached
<1>3. /\ Len(disk') = m + w
      /\ \A j \in 1..m : disk'[j] = disk[j]
      /\ \A j \in 1..w : disk'[m + j] = entries'[n + j]
  BY <1>1, <1>2 DEF Mirrors
<1>4. /\ \A i \in 1..n : entries'[i] = entries[i] /\ entries[i].seq = i - 1
      /\ \A j \in 1..m : \E i \in 1..n : disk[j] = entries[i]
  BY <1>1 DEF Adds, LogInvariant
<1>5. \A i \in 1..Reached(rep) : entries'[n + i].seq = n + i - 1
  BY DEF Adds
<1>6. UnwrittenPasses \subseteq 1..n
  BY DEF UnwrittenPasses, Logged
<1>7. ASSUME NEW i \in 1..n
      PROVE  (\A j \in 1..Len(disk') : disk'[j] # entries'[i])
               <=> \A j \in 1..Len(disk) : disk[j] # entries[i]
  <2>1. ASSUME NEW k \in 1..w  PROVE disk'[m + k] # entries'[i]
    <3>1. k \in 1..Reached(rep)
      BY <1>2 DEF Reached
    <3>2. disk'[m + k].seq = n + k - 1 /\ entries'[i].seq = i - 1
      BY <1>3, <1>4, <1>5, <3>1
    <3>3. n + k - 1 # i - 1
      BY <1>2
    <3> QED BY <3>2, <3>3
  <2>2. \A j \in 1..(m + w) : j \in 1..m \/ (j - m \in 1..w /\ m + (j - m) = j)
    BY <1>2
  <2>3. \A j \in 1..m : j \in 1..(m + w)
    BY <1>2
  <2>4. /\ \A j \in 1..m : disk'[j] = disk[j]
        /\ entries'[i] = entries[i]
        /\ Len(disk) = m /\ Len(disk') = m + w
    BY <1>1, <1>3, <1>4
  <2>5. \A j \in 1..(m + w) : j \in 1..m \/ disk'[j] # entries'[i]
    BY <2>1, <2>2
  <2> QED BY <2>3, <2>4, <2>5
<1>8. Logged("challenge_passed")' =
        Logged("challenge_passed") \cup NewOf(rep, "challenge_passed", n)
      /\ Logged("challenge_passed") \subseteq 1..n
  BY LoggedAfter
<1>9. NewOf(rep, "challenge_passed", n) =
        IF rep.kind = "challenge_passed" THEN {n + 1} ELSE {}
  BY DEF NewOf
<1>10. ASSUME rep.kind = "challenge_passed"
       PROVE  (\A j \in 1..Len(disk') : disk'[j] # entries'[n + 1]) <=> rep.written = 0
  <2>1. rep.written \in 0..2 /\ (w = 0 <=> rep.written = 0)
    BY <1>2, <1>10 DEF Written, Smaller, Report, Reached
  <2>2. CASE w = 0
    <3>1. ASSUME NEW j \in 1..m  PROVE disk'[j] # entries'[n + 1]
      <4>1. PICK i \in 1..n : disk[j] = entries[i]
        BY <1>4
      <4>2. disk'[j].seq = i - 1
        BY <1>3, <1>4, <4>1
      <4>3. entries'[n + 1].seq = n
        BY <1>5, <1>10 DEF Reached
      <4> QED BY <4>2, <4>3
    <3> QED BY <1>3, <2>1, <2>2, <3>1
  <2>3. CASE w # 0
    <3>1. disk'[m + 1] = entries'[n + 1] /\ m + 1 \in 1..Len(disk')
      BY <1>2, <1>3, <2>3
    <3> QED BY <2>1, <2>3, <3>1
  <2> QED BY <2>2, <2>3
<1>11. \A i \in Logged("challenge_passed")' :
         i \in 1..n \/ (rep.kind = "challenge_passed" /\ i = n + 1)
  BY <1>8, <1>9
<1>12. UnwrittenPasses' =
         UnwrittenPasses \cup
           (IF rep.kind = "challenge_passed" /\ rep.written = 0
              THEN {n + 1} ELSE {})
  BY <1>7, <1>8, <1>9, <1>10, <1>11 DEF UnwrittenPasses
<1> QED BY <1>6, <1>12

(* The requests let pass, as the log counts them.                          *)
PassesCounted ==
  Cardinality(admitted) = Cardinality(Passed) + Cardinality(UnwrittenPasses)

LEMMA AdmittedStaysFinite ==
  ASSUME IsFiniteSet(admitted), NEW rep, DecisionTold(rep)
  PROVE  IsFiniteSet(admitted')
BY OneMore DEF DecisionTold, Admits

LEMMA PassesHook ==
  ASSUME entries \in Seq(Range(entries)), LogInvariant, PassesCounted,
         NEW rep, HookStep(rep), Adds(rep), Mirrors(rep)
  PROVE  PassesCounted' /\ IsFiniteSet(admitted)'
<1>1. PICK n \in Nat : n = Len(entries)
  BY LogProperties
<1>2. rep \in Report /\ DecisionTold(rep) /\ IsFiniteSet(admitted)
  BY DEF HookStep, Told, LogInvariant
<1>3. /\ UnwrittenPasses \subseteq 1..n
      /\ UnwrittenPasses' =
           UnwrittenPasses \cup
             (IF rep.kind = "challenge_passed" /\ rep.written = 0
                THEN {n + 1} ELSE {})
  BY <1>1, <1>2, UnwrittenAfter
<1>4. \A i \in 1..n : entries'[i] = entries[i]
  BY <1>1 DEF Adds
<1>5. Decided \subseteq 1..n /\ IsFiniteSet(Decided)
  BY <1>1, <1>2, DecidedByHook
<1>6. IsFiniteSet(Passed) /\ Passed \subseteq 1..n
  BY <1>5, FS_Subset DEF Passed
<1>7. IsFiniteSet(UnwrittenPasses)
  <2>1. IsFiniteSet(1..n)
    BY FS_Interval
  <2> QED BY <1>3, <2>1, FS_Subset
<1>8. /\ Cardinality(admitted) \in Nat
      /\ Cardinality(Passed) \in Nat /\ Cardinality(UnwrittenPasses) \in Nat
  BY <1>2, <1>6, <1>7, FS_CardinalityType
<1>9. n + 1 \notin UnwrittenPasses
  BY <1>3
<1>10. CASE rep.kind = "challenge_passed" /\ rep.written = 0
  <2>1. Decided' = Decided
    BY <1>1, <1>2, <1>10, DecidedByHook DEF Decides
  <2>2. Passed' = Passed
    BY <1>4, <1>5, <2>1 DEF Passed
  <2>3. Admits
    BY <1>2, <1>10 DEF DecisionTold
  <2>4. Cardinality(admitted') = Cardinality(admitted) + 1 /\ IsFiniteSet(admitted')
    BY <1>2, <2>3, OneMore DEF Admits
  <2>5. Cardinality(UnwrittenPasses') = Cardinality(UnwrittenPasses) + 1
    BY <1>3, <1>7, <1>9, <1>10, OneMore
  <2> QED BY <1>8, <2>2, <2>4, <2>5 DEF PassesCounted
<1>11. CASE ~(rep.kind = "challenge_passed" /\ rep.written = 0)
  <2>1. UnwrittenPasses' = UnwrittenPasses
    BY <1>3, <1>11
  <2>2. CASE Decides(rep)
    <3>1. PICK d \in Nat : /\ d > n /\ IsNew(rep, d)
                           /\ Decided' = Decided \cup {d}
      BY <1>1, <1>2, <2>2, DecidedByHook
    <3>2. entries'[d].event.reason = rep.reason /\ d \notin Decided /\ d \notin Passed
      BY <1>5, <1>6, <3>1 DEF IsNew
    <3>3. CASE rep.reason = "ok"
      <4>1. Passed' = Passed \cup {d}
        BY <1>4, <1>5, <3>1, <3>2, <3>3 DEF Passed
      <4>2. Admits
        BY <1>2, <3>3 DEF DecisionTold
      <4>3. Cardinality(admitted') = Cardinality(admitted) + 1 /\ IsFiniteSet(admitted')
        BY <1>2, <4>2, OneMore DEF Admits
      <4>4. Cardinality(Passed') = Cardinality(Passed) + 1
        BY <1>6, <3>2, <4>1, OneMore
      <4> QED BY <1>8, <2>1, <4>3, <4>4 DEF PassesCounted
    <3>4. CASE rep.reason # "ok"
      <4>1. Passed' = Passed
        BY <1>4, <1>5, <3>1, <3>2, <3>4 DEF Passed
      <4>2. UNCHANGED admitted
        BY <1>2, <3>4 DEF DecisionTold
      <4> QED BY <1>2, <2>1, <4>1, <4>2 DEF PassesCounted
    <3> QED BY <3>3, <3>4
  <2>3. CASE ~Decides(rep)
    <3>1. Decided' = Decided
      BY <1>1, <1>2, <2>3, DecidedByHook
    <3>2. Passed' = Passed
      BY <1>4, <1>5, <3>1 DEF Passed
    <3>3. rep.kind \notin {"decision", "challenge_passed"}
      <4>1. rep.written \in 0..2
        BY <1>2 DEF Report
      <4> QED BY <1>11, <2>3, <4>1 DEF Decides
    <3>4. UNCHANGED admitted
      BY <1>2, <3>3 DEF DecisionTold
    <3> QED BY <1>2, <2>1, <3>2, <3>4 DEF PassesCounted
  <2> QED BY <2>2, <2>3
<1> QED BY <1>10, <1>11

(***************************************************************************)
(* The two theorems.                                                       *)
(***************************************************************************)
BookInvariant == LogInvariant /\ DashboardAgreesWithLog /\ PassesAreLogged

ZeroCounts ==
  [total |-> 0, passed |-> 0, blocked |-> 0, rate_limited |-> 0,
   challenges_issued |-> 0]

LEMMA BookInit == ObservedInit => BookInvariant
<1> SUFFICES ASSUME ObservedInit  PROVE BookInvariant
  OBVIOUS
<1>1. /\ entries = <<>> /\ disk = <<>> /\ rows = <<>> /\ admitted = {}
      /\ counts = ZeroCounts
  BY DEF ObservedInit, AuditInit, DashboardInit, Init, ZeroCounts
<1>2. /\ Len(entries) = 0 /\ Len(rows) = 0 /\ Len(disk) = 0
      /\ disk \in Seq(Range(disk)) /\ rows \in Seq(Range(rows))
  BY <1>1, EmptySeq
<1>3. /\ Logged("block") = {} /\ Logged("decision") = {}
      /\ Logged("rate_limited") = {} /\ Logged("challenge_issued") = {}
      /\ Logged("challenge_passed") = {}
  BY <1>2 DEF Logged
<1>4. Decided = {} /\ Passed = {} /\ UnwrittenPasses = {}
  BY <1>3 DEF Decided, Passed, UnwrittenPasses
<1>5. /\ counts \in Counters /\ counts.total = 0 /\ counts.passed = 0
      /\ counts.blocked = 0 /\ counts.rate_limited = 0 /\ counts.challenges_issued = 0
  BY <1>1 DEF Counters, ZeroCounts
<1>6. Smaller(MaxRows, 0) = 0
  BY MaxRowsAssumption DEF Smaller
<1>7. Cardinality({}) = 0 /\ IsFiniteSet(admitted)
  BY <1>1, FS_EmptySet
<1>8. DashboardAgreesWithLog
  <2>1. /\ counts.total = Cardinality(Decided)
        /\ counts.passed = Cardinality(Passed)
        /\ counts.blocked = counts.total - counts.passed
        /\ Len(rows) = Smaller(MaxRows, counts.total)
    BY <1>2, <1>4, <1>5, <1>6, <1>7
  <2>2. /\ counts.rate_limited = Cardinality(Logged("rate_limited"))
        /\ counts.challenges_issued = Cardinality(Logged("challenge_issued"))
    BY <1>3, <1>5, <1>7
  <2> QED BY <1>4, <2>1, <2>2 DEF DashboardAgreesWithLog
<1>9. PassesAreLogged
  BY <1>1, <1>4, <1>7 DEF PassesAreLogged
<1>10. LogInvariant
  BY <1>2, <1>5, <1>7 DEF LogInvariant
<1> QED BY <1>8, <1>9, <1>10 DEF BookInvariant

LEMMA BookRestart ==
  ASSUME BookInvariant, restarts \in Nat, RestartStep
  PROVE  BookInvariant'
<1>1. /\ entries' = <<>> /\ disk' = <<>> /\ rows' = <<>> /\ admitted' = admitted
      /\ counts' = [c \in DOMAIN counts |-> 0] /\ restarts' = restarts + 1
  BY DEF RestartStep
<1>2. /\ Len(entries') = 0 /\ Len(rows') = 0 /\ Len(disk') = 0
      /\ disk' \in Seq(Range(disk')) /\ rows' \in Seq(Range(rows'))
  BY <1>1, EmptySeq
<1>3. /\ Logged("block")' = {} /\ Logged("decision")' = {}
      /\ Logged("rate_limited")' = {} /\ Logged("challenge_issued")' = {}
  BY <1>2 DEF Logged
<1>4. Decided' = {} /\ Passed' = {}
  BY <1>3 DEF Decided, Passed
<1>5. /\ counts' \in Counters /\ counts'.total = 0 /\ counts'.passed = 0
      /\ counts'.blocked = 0 /\ counts'.rate_limited = 0 /\ counts'.challenges_issued = 0
  BY <1>1 DEF BookInvariant, LogInvariant, Counters
<1>6. Smaller(MaxRows, 0) = 0
  BY MaxRowsAssumption DEF Smaller
<1>7. Cardinality({}) = 0
  BY FS_EmptySet
<1>8. DashboardAgreesWithLog'
  <2>1. /\ counts'.total = Cardinality(Decided')
        /\ counts'.passed = Cardinality(Passed')
        /\ counts'.blocked = counts'.total - counts'.passed
        /\ Len(rows') = Smaller(MaxRows, counts'.total)
    BY <1>2, <1>4, <1>5, <1>6, <1>7
  <2>2. /\ counts'.rate_limited = Cardinality(Logged("rate_limited")')
        /\ counts'.challenges_issued = Cardinality(Logged("challenge_issued")')
    BY <1>3, <1>5, <1>7
  <2> QED BY <1>4, <2>1, <2>2 DEF DashboardAgreesWithLog
<1>9. PassesAreLogged'
  BY <1>1 DEF PassesAreLogged
<1>10. LogInvariant'
  BY <1>1, <1>2, <1>5 DEF BookInvariant, LogInvariant
<1> QED BY <1>8, <1>9, <1>10 DEF BookInvariant

LEMMA LogHook ==
  ASSUME entries \in Seq(Range(entries)), LogInvariant,
         NEW rep \in Report, Adds(rep), Mirrors(rep)
  PROVE  /\ (\A i \in 1..Len(entries) : entries[i].seq = i - 1)'
         /\ (\A j \in 1..Len(disk) : \E i \in 1..Len(entries) : disk[j] = entries[i])'
<1>1. PICK n \in Nat, m \in Nat : n = Len(entries) /\ m = Len(disk)
  BY LogProperties DEF LogInvariant
<1>2. PICK k \in {0, 1, 2} : k = Reached(rep)
  BY DEF Reached
<1>3. PICK w \in 0..2 : w = Written(rep) /\ w <= k
  BY <1>2 DEF Written, Smaller, Report, Reached
<1>4. /\ Len(entries') = n + k
      /\ \A i \in 1..n : entries'[i] = entries[i]
      /\ \A i \in 1..k : entries'[n + i].seq = n + i - 1
  BY <1>1, <1>2 DEF Adds
<1>5. /\ Len(disk') = m + w
      /\ \A j \in 1..m : disk'[j] = disk[j]
      /\ \A j \in 1..w : disk'[m + j] = entries'[n + j]
  BY <1>1, <1>3 DEF Mirrors
<1>6. /\ \A i \in 1..n : entries[i].seq = i - 1
      /\ \A j \in 1..m : \E i \in 1..n : disk[j] = entries[i]
  BY <1>1 DEF LogInvariant
<1>7. ASSUME NEW i \in 1..(n + k)  PROVE entries'[i].seq = i - 1
  <2>1. i \in 1..n \/ (i - n \in 1..k /\ n + (i - n) = i)
    OBVIOUS
  <2>2. CASE i \in 1..n
    BY <1>4, <1>6, <2>2
  <2>3. CASE i - n \in 1..k /\ n + (i - n) = i
    <3>1. PICK l \in 1..k : l = i - n /\ i = n + l
      BY <2>3
    <3> QED BY <1>4, <3>1
  <2> QED BY <2>1, <2>2, <2>3
<1>8. ASSUME NEW j \in 1..(m + w)
      PROVE  \E i \in 1..(n + k) : disk'[j] = entries'[i]
  <2>1. j \in 1..m \/ \E l \in 1..w : j = m + l
    <3>1. j \notin 1..m => j - m \in 1..w /\ j = m + (j - m)
      OBVIOUS
    <3> QED BY <3>1
  <2>2. CASE j \in 1..m
    <3>1. PICK i \in 1..n : disk[j] = entries[i]
      BY <1>6, <2>2
    <3>2. i \in 1..(n + k)
      OBVIOUS
    <3> QED BY <1>4, <1>5, <2>2, <3>1, <3>2
  <2>3. CASE \E l \in 1..w : j = m + l
    <3>1. PICK l \in 1..w : j = m + l
      BY <2>3
    <3>2. n + l \in 1..(n + k)
      BY <1>3
    <3> QED BY <1>5, <3>1, <3>2
  <2> QED BY <2>1, <2>2, <2>3
<1> QED BY <1>4, <1>5, <1>7, <1>8

LEMMA BookHook ==
  ASSUME entries \in Seq(Range(entries)), BookInvariant, NEW rep, HookStep(rep)
  PROVE  BookInvariant'
<1>1. /\ rep \in Report /\ AuditReport(rep)
      /\ LogInvariant /\ DashboardAgreesWithLog /\ restarts' = restarts
      /\ disk \in Seq(Range(disk))
  BY DEF HookStep, BookInvariant, LogInvariant
<1>2. Adds(rep) /\ Mirrors(rep)
  BY <1>1, HookAdds, HookMirrors
<1>3. DashboardAgreesWithLog' /\ (counts \in Counters)' /\ (rows \in Seq(Range(rows)))'
  BY <1>1, <1>2, DashboardDecides, DashboardOtherwise
<1>4. PassesAreLogged'
  <2>1. CASE restarts = 0
    <3>1. PassesCounted
      BY <2>1 DEF BookInvariant, PassesAreLogged, PassesCounted
    <3>2. PassesCounted'
      BY <1>1, <1>2, <3>1, PassesHook
    <3> QED BY <3>2 DEF PassesAreLogged, PassesCounted
  <2>2. CASE restarts # 0
    BY <1>1, <2>2 DEF PassesAreLogged
  <2> QED BY <2>1, <2>2
<1>5. IsFiniteSet(admitted)'
  BY <1>1, AdmittedStaysFinite DEF HookStep, Told, LogInvariant
<1>6. LogInvariant'
  <2>1. (disk \in Seq(Range(disk)))'
    BY <1>2 DEF Mirrors
  <2> QED BY <1>1, <1>2, <1>3, <1>5, <2>1, LogHook DEF LogInvariant
<1> QED BY <1>3, <1>4, <1>6 DEF BookInvariant

LEMMA BookStep ==
  ProxyInvariant /\ StoryInvariant /\ BookInvariant
    /\ [ObservedNext]_<<vars, observerVars>> => BookInvariant'
<1> SUFFICES ASSUME ProxyInvariant, StoryInvariant, BookInvariant,
                    [ObservedNext]_<<vars, observerVars>>
             PROVE  BookInvariant'
  OBVIOUS
<1>1. entries \in Seq(Range(entries)) /\ restarts \in Nat
  BY DEF StoryInvariant, ProxyInvariant, TypeOK
<1>2. CASE ObservedNext
  BY <1>1, <1>2, ObservedSteps, BookRestart, BookHook
<1>3. CASE UNCHANGED <<vars, observerVars>>
  <2>1. UNCHANGED <<entries, disk, rows, counts, admitted, restarts>>
    BY <1>3 DEF vars, observerVars, auditVars, dashboardVars, restartVars, historyVars
  <2>2. LogInvariant'
    BY <2>1 DEF BookInvariant, LogInvariant
  <2>3. \A type : Logged(type)' = Logged(type)
    BY <2>1 DEF Logged
  <2>4. Decided' = Decided /\ Passed' = Passed /\ UnwrittenPasses' = UnwrittenPasses
    BY <2>1, <2>3 DEF Decided, Passed, UnwrittenPasses
  <2>5. \A i \in Decided : RowOf(i)' = RowOf(i) /\ DecidedAfter(i)' = DecidedAfter(i)
    BY <2>1, <2>4 DEF RowOf, DecidedAfter, OutcomeOf
  <2>6. DashboardAgreesWithLog'
    BY <2>1, <2>3, <2>4, <2>5 DEF BookInvariant, DashboardAgreesWithLog
  <2>7. PassesAreLogged'
    BY <2>1, <2>4 DEF BookInvariant, PassesAreLogged
  <2> QED BY <2>2, <2>6, <2>7 DEF BookInvariant
<1> QED BY <1>2, <1>3

LEMMA BookInvariantHolds == ObservedSpec => []BookInvariant
BY ProxyInvariantHolds, StoryInvariantHolds, BookInit, BookStep, PTL
DEF ObservedSpec

(* The dashboard tells the same as the audit log, in its counters and in   *)
(* the rows it still shows, although the two are written one after the     *)
(* other and the audit file may fail between them.                         *)
THEOREM DashboardAlwaysAgrees == ObservedSpec => []DashboardAgreesWithLog
<1>1. BookInvariant => DashboardAgreesWithLog
  BY DEF BookInvariant
<1> QED BY <1>1, BookInvariantHolds, PTL

(* No request is let pass without its PASS entry and no PASS entry is made *)
(* without a request that passes, but for the challenges whose own entry   *)
(* could not be written.                                                   *)
THEOREM PassesAreAlwaysLogged == ObservedSpec => []PassesAreLogged
<1>1. BookInvariant => PassesAreLogged
  BY DEF BookInvariant
<1> QED BY <1>1, BookInvariantHolds, PTL
=============================================================================
