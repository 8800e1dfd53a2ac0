----------------------------- MODULE WebProofs ------------------------------
(***************************************************************************)
(* Theorems about the web dashboard, for any number of pages, rows, lines  *)
(* and events, and connections that break as often as they like.           *)
(***************************************************************************)
EXTENDS WebDash, SequenceTheorems, FiniteSetTheorems, NaturalsInduction,
        WellFoundedInduction, TLAPS

(***************************************************************************)
(* Folds.  What a page does with a list of things, one after the other, is *)
(* a run of states, from the first page to the one the fold returns.       *)
(***************************************************************************)
LEMMA SmallestNumber ==
  ASSUME NEW B, B \subseteq Nat, B # {}
  PROVE  \E n \in B : \A m \in B : ~(m < n)
<1>1. PICK n \in B : \A m \in B : <<m, n>> \notin OpToRel(<, Nat)
  BY NatLessThanWellFounded, WFMin
<1> QED BY <1>1 DEF OpToRel

(* Induction over the places of a list, as a fact about a set of numbers.  *)
LEMMA UpTo ==
  ASSUME NEW n \in Nat, NEW G, 0 \in G,
         \A k \in Nat : k < n /\ k \in G => k + 1 \in G
  PROVE  \A k \in 0..n : k \in G
<1> DEFINE B == {k \in 0..n : k \notin G}
<1> SUFFICES ASSUME B # {} PROVE FALSE
  OBVIOUS
<1>1. B \subseteq Nat
  OBVIOUS
<1>2. PICK k \in B : \A m \in B : ~(m < k)
  <2> HIDE DEF B
  <2> QED BY <1>1, SmallestNumber
<1>3. k \in Nat /\ k # 0 /\ k <= n
  BY <1>2
<1>4. k - 1 \in Nat /\ k - 1 < n /\ k - 1 \in 0..n /\ k - 1 < k
  BY <1>3
<1>5. k - 1 \in G
  BY <1>2, <1>4
<1>6. (k - 1) + 1 \in G
  BY <1>4, <1>5
<1> QED BY <1>2, <1>3, <1>6

(* What the page folds over a list.                                        *)
Does(kind, pg, x) ==
  CASE kind = "message" -> OnMessage(pg, x)
    [] kind = "row" -> AddRow(pg, x)
    [] kind = "line" -> AddLog(pg, x)
    [] kind = "issuance" -> AddIssuance(pg, x)
    [] OTHER -> AddRowToStory(pg, x)

IsRun(kind, run, seq) ==
  \A k \in 1..Len(seq) : run[k] = Does(kind, run[k - 1], seq[k])

IsFold(kind, iter, base, seq, n) ==
  iter = [s \in SUBSET (1..n) |->
            IF s = {} THEN base ELSE Does(kind, iter[s \ {Max(s)}], seq[Max(s)])]

(* What the fold of the library needs of Max.                              *)
LEMMA LargestOf ==
  ASSUME NEW n \in Nat, NEW s, s \subseteq 1..n
  PROVE  /\ n + 1 \in s \cup {n + 1} /\ Max(s \cup {n + 1}) = n + 1
         /\ s # {} => Max(s) \in s
<1>1. \A i \in s : i \in Nat /\ i < n + 1 /\ i # n + 1
  OBVIOUS
<1>2. Max(s \cup {n + 1}) = n + 1
  <2>1. \A y \in s \cup {n + 1} : n + 1 >= y
    BY <1>1
  <2>2. \A m \in s \cup {n + 1} : (\A y \in s \cup {n + 1} : m >= y) => m = n + 1
    BY <1>1
  <2> QED BY <2>1, <2>2 DEF Max
<1>3. ASSUME s # {}
      PROVE  Max(s) \in s
  <2> DEFINE d == {n - i : i \in s}
  <2>1. d \subseteq Nat /\ d # {}
    <3>1. \A i \in s : n - i \in Nat
      BY <1>1
    <3> QED BY <1>3, <3>1
  <2>2. PICK least \in d : \A m \in d : ~(m < least)
    <3> HIDE DEF d
    <3> QED BY <2>1, SmallestNumber
  <2>3. PICK i \in s : least = n - i
    BY <2>2
  <2>4. \A j \in s : ~(n - j < n - i)
    BY <2>2, <2>3
  <2>5. \A j \in s : i >= j
    BY <1>1, <2>3, <2>4
  <2> QED BY <2>3, <2>5 DEF Max
<1> QED BY <1>2, <1>3

(* The recursive function of a fold exists: induction over the length,     *)
(* through the smallest one for which it would not.                        *)
LEMMA FoldExists ==
  ASSUME NEW kind, NEW base, NEW seq, NEW n \in Nat
  PROVE  \E iter : IsFold(kind, iter, base, seq, n)
<1> DEFINE G == {m \in Nat : \E iter : IsFold(kind, iter, base, seq, m)}
<1>1. 0 \in G
  <2> DEFINE iter == [s \in SUBSET (1..0) |-> base]
  <2>1. \A s \in SUBSET (1..0) : s = {}
    OBVIOUS
  <2>2. IsFold(kind, iter, base, seq, 0)
    BY <2>1 DEF IsFold
  <2> QED BY <2>2
<1>2. ASSUME NEW m \in Nat, m < n, m \in G
      PROVE  m + 1 \in G
  <2>1. PICK g : IsFold(kind, g, base, seq, m)
    BY <1>2
  <2> DEFINE h == [s \in SUBSET (1..(m + 1)) |->
                     IF m + 1 \in s
                       THEN Does(kind, g[s \ {m + 1}], seq[m + 1]) ELSE g[s]]
  <2>2. \A s \in SUBSET (1..(m + 1)) : s \ {m + 1} \in SUBSET (1..m)
    <3>1. \A i \in 1..(m + 1) : i # m + 1 => i \in 1..m
      OBVIOUS
    <3> QED BY <3>1
  <2>3. \A s \in SUBSET (1..m) :
          s \in SUBSET (1..(m + 1)) /\ m + 1 \notin s /\ h[s] = g[s]
    <3>1. \A i \in 1..m : i \in 1..(m + 1) /\ i # m + 1
      OBVIOUS
    <3> QED BY <3>1
  <2>4. ASSUME NEW s \in SUBSET (1..(m + 1))
        PROVE  h[s] = IF s = {} THEN base
                      ELSE Does(kind, h[s \ {Max(s)}], seq[Max(s)])
    <3>1. CASE m + 1 \in s
      <4>1. h[s] = Does(kind, g[s \ {m + 1}], seq[m + 1])
        BY <3>1
      <4>2. h[s \ {m + 1}] = g[s \ {m + 1}]
        BY <2>2, <2>3
      <4>3. s = (s \ {m + 1}) \cup {m + 1} /\ s \ {m + 1} \subseteq 1..m
        BY <2>2, <3>1
      <4>4. Max(s) = m + 1
        BY <4>3, LargestOf
      <4> HIDE DEF h
      <4> QED BY <3>1, <4>1, <4>2, <4>4
    <3>2. CASE m + 1 \notin s
      <4>1. s \in SUBSET (1..m)
        BY <2>2, <3>2
      <4>2. h[s] = g[s]
        BY <2>3, <4>1
      <4>3. g[s] = IF s = {} THEN base ELSE Does(kind, g[s \ {Max(s)}], seq[Max(s)])
        BY <2>1, <4>1 DEF IsFold
      <4>4. s \ {Max(s)} \in SUBSET (1..m)
        BY <4>1
      <4>5. h[s \ {Max(s)}] = g[s \ {Max(s)}]
        BY <2>3, <4>4
      <4> HIDE DEF h
      <4> QED BY <4>2, <4>3, <4>5
    <3> QED BY <3>1, <3>2
  <2>5. IsFold(kind, h, base, seq, m + 1)
    <3>1. h = [s \in SUBSET (1..(m + 1)) |-> h[s]]
      OBVIOUS
    <3> HIDE DEF h
    <3> QED BY <2>4, <3>1 DEF IsFold
  <2> QED BY <2>5
<1>3. \A k \in 0..n : k \in G
  <2> HIDE DEF G
  <2> QED BY <1>1, <1>2, UpTo
<1> QED BY <1>3

(* A fold over a list is a run: one step for each place.                   *)
LEMMA FoldRuns ==
  ASSUME NEW kind, NEW base, NEW seq, Len(seq) \in Nat, NEW iter,
         IsFold(kind, iter, base, seq, Len(seq))
  PROVE  \E run : /\ run[0] = base /\ IsRun(kind, run, seq)
                  /\ iter[1..Len(seq)] = run[Len(seq)]
<1>1. PICK n \in Nat : n = Len(seq)
  OBVIOUS
<1> DEFINE run == [k \in 0..n |-> iter[1..k]]
<1>2. run[0] = base
  <2>1. 1..0 = {} /\ {} \in SUBSET (1..n)
    OBVIOUS
  <2>2. iter[{}] = base
    BY <1>1, <2>1 DEF IsFold
  <2>3. run[0] = iter[1..0]
    OBVIOUS
  <2> QED BY <2>1, <2>2, <2>3
<1>3. ASSUME NEW k \in 1..n
      PROVE  run[k] = Does(kind, run[k - 1], seq[k])
  <2>1. PICK m \in Nat : k = m + 1 /\ m < n
    <3>1. k - 1 \in Nat /\ k = (k - 1) + 1 /\ k - 1 < n
      OBVIOUS
    <3> QED BY <3>1
  <2>2. 1..k = (1..m) \cup {m + 1} /\ (1..k) \ {m + 1} = 1..m
    BY <2>1
  <2>3. Max(1..k) = m + 1
    BY <2>2, LargestOf
  <2>4. 1..k \in SUBSET (1..n) /\ 1..k # {}
    BY <2>1
  <2>5. iter[1..k] = Does(kind, iter[(1..k) \ {Max(1..k)}], seq[Max(1..k)])
    BY <1>1, <2>4 DEF IsFold
  <2>6. run[k] = iter[1..k] /\ run[m] = iter[1..m]
    BY <2>1
  <2>7. k - 1 = m
    BY <2>1
  <2> HIDE DEF run
  <2> QED BY <2>1, <2>2, <2>3, <2>5, <2>6, <2>7
<1>4. run[n] = iter[1..n]
  OBVIOUS
<1> HIDE DEF run
<1> QED BY <1>1, <1>2, <1>3, <1>4 DEF IsRun

(* The five things that pages fold.                                        *)
LEMMA DoesEach ==
  \A pg, x : /\ Does("message", pg, x) = OnMessage(pg, x)
             /\ Does("row", pg, x) = AddRow(pg, x)
             /\ Does("line", pg, x) = AddLog(pg, x)
             /\ Does("issuance", pg, x) = AddIssuance(pg, x)
             /\ Does("event", pg, x) = AddRowToStory(pg, x)
BY DEF Does

(* The five folds of a page.                                               *)
IsFoldOf(value, kind, base, seq) ==
  \E run : /\ run[0] = base /\ IsRun(kind, run, seq) /\ value = run[Len(seq)]

IsList(seq) == Len(seq) \in Nat /\ DOMAIN seq = 1..Len(seq)

(* A page over its messages.                                               *)
LEMMA MessagesFold ==
  ASSUME NEW base, NEW seq, IsList(seq)
  PROVE  IsFoldOf(FoldLeft(OnMessage, base, seq), "message", base, seq)
<1> DEFINE Is(g) == g = [s \in SUBSET DOMAIN seq |->
                IF s = {} THEN base ELSE OnMessage(g[s \ {Max(s)}], seq[Max(s)])]
           iter == CHOOSE g : Is(g)
<1>1. FoldLeft(OnMessage, base, seq) = iter[DOMAIN seq]
  BY DEF FoldLeft, MapThenFoldSet
<1>2. \A g : IsFold("message", g, base, seq, Len(seq)) <=> Is(g)
  BY DoesEach DEF IsFold, IsList
<1>3. PICK g : IsFold("message", g, base, seq, Len(seq))
  BY FoldExists DEF IsList
<1> HIDE DEF Is
<1>4. IsFold("message", iter, base, seq, Len(seq))
  BY <1>2, <1>3
<1> HIDE DEF iter
<1> QED BY <1>1, <1>4, FoldRuns DEF IsList, IsFoldOf

(* A table over the rows of a snapshot.                                    *)
LEMMA RowsFold ==
  ASSUME NEW base, NEW seq, IsList(seq)
  PROVE  IsFoldOf(FoldLeft(AddRow, base, seq), "row", base, seq)
<1> DEFINE Is(g) == g = [s \in SUBSET DOMAIN seq |->
                IF s = {} THEN base ELSE AddRow(g[s \ {Max(s)}], seq[Max(s)])]
           iter == CHOOSE g : Is(g)
<1>1. FoldLeft(AddRow, base, seq) = iter[DOMAIN seq]
  BY DEF FoldLeft, MapThenFoldSet
<1>2. \A g : IsFold("row", g, base, seq, Len(seq)) <=> Is(g)
  BY DoesEach DEF IsFold, IsList
<1>3. PICK g : IsFold("row", g, base, seq, Len(seq))
  BY FoldExists DEF IsList
<1> HIDE DEF Is
<1>4. IsFold("row", iter, base, seq, Len(seq))
  BY <1>2, <1>3
<1> HIDE DEF iter
<1> QED BY <1>1, <1>4, FoldRuns DEF IsList, IsFoldOf

(* A log over the lines of a snapshot.                                     *)
LEMMA LinesFold ==
  ASSUME NEW base, NEW seq, IsList(seq)
  PROVE  IsFoldOf(FoldLeft(AddLog, base, seq), "line", base, seq)
<1> DEFINE Is(g) == g = [s \in SUBSET DOMAIN seq |->
                IF s = {} THEN base ELSE AddLog(g[s \ {Max(s)}], seq[Max(s)])]
           iter == CHOOSE g : Is(g)
<1>1. FoldLeft(AddLog, base, seq) = iter[DOMAIN seq]
  BY DEF FoldLeft, MapThenFoldSet
<1>2. \A g : IsFold("line", g, base, seq, Len(seq)) <=> Is(g)
  BY DoesEach DEF IsFold, IsList
<1>3. PICK g : IsFold("line", g, base, seq, Len(seq))
  BY FoldExists DEF IsList
<1> HIDE DEF Is
<1>4. IsFold("line", iter, base, seq, Len(seq))
  BY <1>2, <1>3
<1> HIDE DEF iter
<1> QED BY <1>1, <1>4, FoldRuns DEF IsList, IsFoldOf

(* Timelines over the issuances of a snapshot.                             *)
LEMMA IssuancesFold ==
  ASSUME NEW base, NEW seq, IsList(seq)
  PROVE  IsFoldOf(FoldLeft(AddIssuance, base, seq), "issuance", base, seq)
<1> DEFINE Is(g) == g = [s \in SUBSET DOMAIN seq |->
                IF s = {} THEN base ELSE AddIssuance(g[s \ {Max(s)}], seq[Max(s)])]
           iter == CHOOSE g : Is(g)
<1>1. FoldLeft(AddIssuance, base, seq) = iter[DOMAIN seq]
  BY DEF FoldLeft, MapThenFoldSet
<1>2. \A g : IsFold("issuance", g, base, seq, Len(seq)) <=> Is(g)
  BY DoesEach DEF IsFold, IsList
<1>3. PICK g : IsFold("issuance", g, base, seq, Len(seq))
  BY FoldExists DEF IsList
<1> HIDE DEF Is
<1>4. IsFold("issuance", iter, base, seq, Len(seq))
  BY <1>2, <1>3
<1> HIDE DEF iter
<1> QED BY <1>1, <1>4, FoldRuns DEF IsList, IsFoldOf

(* Timelines over the rows of a snapshot.                                  *)
LEMMA StoriesFold ==
  ASSUME NEW base, NEW seq, IsList(seq)
  PROVE  IsFoldOf(FoldLeft(AddRowToStory, base, seq), "event", base, seq)
<1> DEFINE Is(g) == g = [s \in SUBSET DOMAIN seq |->
                IF s = {} THEN base ELSE AddRowToStory(g[s \ {Max(s)}], seq[Max(s)])]
           iter == CHOOSE g : Is(g)
<1>1. FoldLeft(AddRowToStory, base, seq) = iter[DOMAIN seq]
  BY DEF FoldLeft, MapThenFoldSet
<1>2. \A g : IsFold("event", g, base, seq, Len(seq)) <=> Is(g)
  BY DoesEach DEF IsFold, IsList
<1>3. PICK g : IsFold("event", g, base, seq, Len(seq))
  BY FoldExists DEF IsList
<1> HIDE DEF Is
<1>4. IsFold("event", iter, base, seq, Len(seq))
  BY <1>2, <1>3
<1> HIDE DEF iter
<1> QED BY <1>1, <1>4, FoldRuns DEF IsList, IsFoldOf

(* Two runs over one list that begin alike end alike.                      *)
LEMMA SameRun ==
  ASSUME NEW kind, NEW seq, IsList(seq), NEW r, NEW q, r[0] = q[0],
         IsRun(kind, r, seq), IsRun(kind, q, seq)
  PROVE  r[Len(seq)] = q[Len(seq)]
<1>4. PICK n \in Nat : n = Len(seq)
  BY DEF IsList
<1> DEFINE G == {k \in Nat : r[k] = q[k]}
<1>1. 0 \in G
  OBVIOUS
<1>2. ASSUME NEW k \in Nat, k < n, k \in G
      PROVE  k + 1 \in G
  <2>1. k + 1 \in 1..n /\ (k + 1) - 1 = k
    BY <1>2
  <2>2. r[k] = q[k]
    BY <1>2
  <2>3. /\ r[k + 1] = Does(kind, r[k], seq[k + 1])
        /\ q[k + 1] = Does(kind, q[k], seq[k + 1])
    BY <1>4, <2>1 DEF IsRun
  <2> QED BY <2>2, <2>3
<1>3. \A k \in 0..n : k \in G
  <2> HIDE DEF G
  <2> QED BY <1>1, <1>2, <1>4, UpTo
<1>5. n \in 0..n
  BY <1>4
<1> QED BY <1>3, <1>4, <1>5

(***************************************************************************)
(* A page that reads what was sent to it.                                  *)
(***************************************************************************)
After(pg, msgs) == FoldLeft(OnMessage, pg, msgs)

(* Reading a list of messages is a run of pages.                           *)
LEMMA AfterRun ==
  ASSUME NEW pg, NEW msgs, IsList(msgs)
  PROVE  \E run : /\ run[0] = pg /\ After(pg, msgs) = run[Len(msgs)]
                  /\ \A k \in 1..Len(msgs) : run[k] = OnMessage(run[k - 1], msgs[k])
<1>1. IsFoldOf(FoldLeft(OnMessage, pg, msgs), "message", pg, msgs)
  BY MessagesFold
<1>2. IsFoldOf(After(pg, msgs), "message", pg, msgs)
  BY <1>1 DEF After
<1>3. PICK run : /\ run[0] = pg /\ IsRun("message", run, msgs)
                 /\ After(pg, msgs) = run[Len(msgs)]
  BY <1>2 DEF IsFoldOf
<1>4. \A k \in 1..Len(msgs) : run[k] = OnMessage(run[k - 1], msgs[k])
  BY <1>3, DoesEach DEF IsRun
<1> QED BY <1>3, <1>4

(* Any such run ends with the page that has read the list.                 *)
LEMMA AfterIs ==
  ASSUME NEW pg, NEW msgs, IsList(msgs), NEW run, run[0] = pg,
         \A k \in 1..Len(msgs) : run[k] = OnMessage(run[k - 1], msgs[k])
  PROVE  After(pg, msgs) = run[Len(msgs)]
<1>1. PICK r : /\ r[0] = pg /\ After(pg, msgs) = r[Len(msgs)]
               /\ \A k \in 1..Len(msgs) : r[k] = OnMessage(r[k - 1], msgs[k])
  BY AfterRun
<1>2. IsRun("message", r, msgs) /\ IsRun("message", run, msgs)
  BY <1>1, DoesEach DEF IsRun
<1>3. r[Len(msgs)] = run[Len(msgs)]
  BY <1>1, <1>2, SameRun
<1> QED BY <1>1, <1>3

(* Reading what was sent and then what is sent now is reading both.        *)
LEMMA AfterConcat ==
  ASSUME NEW pg, NEW S, NEW first, first \in Seq(S), NEW more, more \in Seq(S)
  PROVE  After(pg, first \o more) = After(After(pg, first), more)
<1>1. PICK n \in Nat, m \in Nat : n = Len(first) /\ m = Len(more)
  BY LenProperties
<1>2. IsList(first) /\ IsList(more) /\ IsList(first \o more)
  BY LenProperties, ConcatProperties DEF IsList
<1>3. /\ Len(first \o more) = n + m
      /\ \A k \in 1..n : (first \o more)[k] = first[k]
      /\ \A k \in 1..m : (first \o more)[n + k] = more[k]
  <2>1. /\ Len(first \o more) = Len(first) + Len(more)
        /\ \A i \in 1..(Len(first) + Len(more)) :
             (first \o more)[i] = IF i <= Len(first) THEN first[i]
                                  ELSE more[i - Len(first)]
    BY ConcatProperties
  <2>2. \A k \in 1..n : k \in 1..(n + m) /\ k <= n
    BY <1>1
  <2>3. \A k \in 1..m : n + k \in 1..(n + m) /\ ~(n + k <= n) /\ (n + k) - n = k
    BY <1>1
  <2> QED BY <1>1, <2>1, <2>2, <2>3
<1>4. PICK a : /\ a[0] = pg /\ After(pg, first) = a[n]
               /\ \A k \in 1..n : a[k] = OnMessage(a[k - 1], first[k])
  <2>1. PICK a : /\ a[0] = pg /\ After(pg, first) = a[Len(first)]
                 /\ \A k \in 1..Len(first) : a[k] = OnMessage(a[k - 1], first[k])
    BY <1>2, AfterRun
  <2> QED BY <1>1, <2>1
<1>5. PICK c : /\ c[0] = a[n] /\ After(After(pg, first), more) = c[m]
               /\ \A k \in 1..m : c[k] = OnMessage(c[k - 1], more[k])
  <2>1. PICK c : /\ c[0] = a[n] /\ After(a[n], more) = c[Len(more)]
                 /\ \A k \in 1..Len(more) : c[k] = OnMessage(c[k - 1], more[k])
    BY <1>2, AfterRun
  <2> QED BY <1>1, <1>4, <2>1
<1> DEFINE run == [k \in 0..(n + m) |-> IF k <= n THEN a[k] ELSE c[k - n]]
<1>6. run[0] = pg /\ run[n + m] = c[m]
  <2>1. 0 \in 0..(n + m) /\ 0 <= n /\ n + m \in 0..(n + m) /\ (n + m) - n = m
    BY <1>1
  <2>2. n + m <= n => m = 0 /\ n + m = n
    BY <1>1
  <2> QED BY <1>4, <1>5, <2>1, <2>2
<1>7. ASSUME NEW k \in 1..(n + m)
      PROVE  run[k] = OnMessage(run[k - 1], (first \o more)[k])
  <2>1. k \in 0..(n + m) /\ k - 1 \in 0..(n + m) /\ k \in Nat
    OBVIOUS
  <2>2. CASE k <= n
    <3>1. k \in 1..n /\ k - 1 <= n
      BY <2>1, <2>2
    <3>2. run[k] = a[k] /\ run[k - 1] = a[k - 1]
      BY <2>1, <2>2, <3>1
    <3> HIDE DEF run
    <3> QED BY <1>3, <1>4, <3>1, <3>2
  <2>3. CASE ~(k <= n)
    <3>1. PICK i \in 1..m : k = n + i
      <4>1. k - n \in 1..m /\ k = n + (k - n)
        BY <2>1, <2>3
      <4> QED BY <4>1
    <3>2. k - n = i /\ (k - 1) - n = i - 1
      BY <3>1
    <3>3. run[k] = c[i]
      BY <2>1, <2>3, <3>2
    <3>4. run[k - 1] = c[i - 1]
      <4>1. CASE i = 1
        <5>1. k - 1 = n /\ i - 1 = 0
          BY <3>1, <4>1
        <5> QED BY <1>5, <2>1, <5>1
      <4>2. CASE i # 1
        <5>1. ~(k - 1 <= n)
          BY <3>1, <4>2
        <5> QED BY <2>1, <3>2, <5>1
      <4> QED BY <4>1, <4>2
    <3>5. (first \o more)[k] = more[i]
      BY <1>3, <3>1
    <3> HIDE DEF run
    <3> QED BY <1>5, <3>1, <3>3, <3>4, <3>5
  <2> QED BY <2>2, <2>3
<1> HIDE DEF run
<1>8. After(pg, first \o more) = run[n + m]
  <2>1. \A k \in 1..Len(first \o more) :
          run[k] = OnMessage(run[k - 1], (first \o more)[k])
    BY <1>3, <1>7
  <2>2. After(pg, first \o more) = run[Len(first \o more)]
    BY <1>2, <1>6, <2>1, AfterIs
  <2> QED BY <1>3, <2>2
<1> QED BY <1>5, <1>6, <1>8

(* Nothing to read.                                                        *)
LEMMA AfterNone ==
  ASSUME NEW pg
  PROVE  After(pg, <<>>) = pg
<1>1. IsList(<<>>) /\ Len(<<>>) = 0
  BY DEF IsList
<1> QED BY <1>1, AfterRun

(* One message to read.                                                    *)
LEMMA AfterOne ==
  ASSUME NEW pg, NEW msg
  PROVE  After(pg, <<msg>>) = OnMessage(pg, msg)
<1>1. IsList(<<msg>>) /\ Len(<<msg>>) = 1 /\ <<msg>>[1] = msg
  BY DEF IsList
<1>2. PICK run : /\ run[0] = pg /\ After(pg, <<msg>>) = run[1]
                 /\ \A k \in 1..1 : run[k] = OnMessage(run[k - 1], <<msg>>[k])
  BY <1>1, AfterRun
<1>3. 1 \in 1..1 /\ 1 - 1 = 0
  OBVIOUS
<1> QED BY <1>1, <1>2, <1>3

(* Reading one message brings the page no nearer to another end.           *)
LEMMA AfterHead ==
  ASSUME NEW pg, NEW S, NEW msgs, msgs \in Seq(S), msgs # <<>>
  PROVE  After(OnMessage(pg, Head(msgs)), Tail(msgs)) = After(pg, msgs)
<1>1. Head(msgs) \in S /\ Tail(msgs) \in Seq(S)
  BY HeadTailProperties
<1>2. <<Head(msgs)>> \in Seq(S)
  BY <1>1
<1>3. msgs = <<Head(msgs)>> \o Tail(msgs)
  <2>1. PICK one : one = <<Head(msgs)>> /\ Len(one) = 1 /\ one[1] = Head(msgs)
    <3>1. Len(<<Head(msgs)>>) = 1 /\ <<Head(msgs)>>[1] = Head(msgs)
      OBVIOUS
    <3> QED BY <3>1
  <2>2. PICK n \in Nat : n = Len(msgs) /\ n # 0
    BY LenProperties, EmptySeq
  <2>3. /\ Len(Tail(msgs)) = n - 1 /\ msgs[1] = Head(msgs)
        /\ \A i \in 1..(n - 1) : Tail(msgs)[i] = msgs[i + 1]
    BY <2>2, HeadTailProperties
  <2>4. /\ one \o Tail(msgs) \in Seq(S)
        /\ Len(one \o Tail(msgs)) = 1 + (n - 1)
        /\ \A i \in 1..(1 + (n - 1)) :
             (one \o Tail(msgs))[i] = IF i <= 1 THEN one[i] ELSE Tail(msgs)[i - 1]
    BY <1>1, <1>2, <2>1, <2>3, ConcatProperties
  <2>5. \A i \in 1..n : i # 1 => i - 1 \in 1..(n - 1) /\ (i - 1) + 1 = i /\ ~(i <= 1)
    BY <2>2
  <2>6. 1 + (n - 1) = n
    BY <2>2
  <2>7. \A i \in 1..n : (one \o Tail(msgs))[i] = msgs[i]
    BY <2>1, <2>3, <2>4, <2>5, <2>6
  <2>8. one \o Tail(msgs) = msgs
    BY <2>2, <2>4, <2>6, <2>7, SeqEqual
  <2> QED BY <2>1, <2>8
<1>4. After(pg, <<Head(msgs)>> \o Tail(msgs))
        = After(After(pg, <<Head(msgs)>>), Tail(msgs))
  <2>1. PICK first, more : first = <<Head(msgs)>> /\ more = Tail(msgs)
    OBVIOUS
  <2>2. first \in Seq(S) /\ more \in Seq(S)
    BY <1>1, <1>2, <2>1
  <2>3. After(pg, first \o more) = After(After(pg, first), more)
    BY <2>2, AfterConcat
  <2> QED BY <2>1, <2>3
<1> QED BY <1>3, <1>4, AfterOne

(***************************************************************************)
(* The newest of a list.                                                   *)
(***************************************************************************)

(* The list new holds what the first len of all have at their end.         *)
EndsOf(new, all, len, n) ==
  /\ IsList(new)
  /\ Len(new) = IF len > n THEN n ELSE len
  /\ \A i \in 1..Len(new) : new[i] = all[(len - Len(new)) + i]

(* The newest n of a list are its end.                                     *)
LEMMA NewestIs ==
  ASSUME NEW S, NEW seq, seq \in Seq(S), NEW n \in Nat \ {0}
  PROVE  Newest(seq, n) \in Seq(S) /\ EndsOf(Newest(seq, n), seq, Len(seq), n)
<1>1. PICK len \in Nat : len = Len(seq) /\ IsList(seq) /\ \A i \in 1..len : seq[i] \in S
  BY LenProperties, ElementOfSeq DEF IsList
<1>2. CASE len > n
  <2>1. PICK m : m = len - n
    OBVIOUS
  <2>2. m \in Nat /\ len = m + n /\ m + 1 <= len
    BY <1>1, <1>2, <2>1
  <2>3. Newest(seq, n) = SubSeq(seq, m + 1, len)
    BY <1>1, <1>2, <2>1 DEF Newest
  <2>4. \A i \in (m + 1)..len : seq[i] \in S
    BY <1>1, <2>2
  <2>5. /\ SubSeq(seq, m + 1, len) \in Seq(S)
        /\ Len(SubSeq(seq, m + 1, len)) = IF m + 1 <= len THEN len - (m + 1) + 1 ELSE 0
        /\ \A i \in 1..(len - (m + 1) + 1) :
             SubSeq(seq, m + 1, len)[i] = seq[(m + 1) + i - 1]
    BY <1>1, <2>2, <2>4, SubSeqProperties
  <2>6. PICK new : new = SubSeq(seq, m + 1, len)
    OBVIOUS
  <2>7. len - (m + 1) + 1 = n
    BY <2>2
  <2>8. new \in Seq(S) /\ Len(new) = n /\ \A i \in 1..n : new[i] = seq[(m + 1) + i - 1]
    BY <2>2, <2>5, <2>6, <2>7
  <2>9. \A i \in 1..n : (m + 1) + i - 1 = (len - n) + i
    BY <2>1, <2>2
  <2>10. IsList(new)
    BY <2>8, LenProperties DEF IsList
  <2>11. EndsOf(new, seq, len, n)
    BY <1>2, <2>8, <2>9, <2>10 DEF EndsOf
  <2> QED BY <1>1, <2>3, <2>6, <2>8, <2>11
<1>3. CASE ~(len > n)
  <2>1. Newest(seq, n) = seq
    BY <1>1, <1>3 DEF Newest
  <2>2. \A i \in 1..len : (len - len) + i = i
    BY <1>1
  <2> QED BY <1>1, <1>3, <2>1, <2>2 DEF EndsOf
<1> QED BY <1>2, <1>3

(* Two lists that are the same end are equal.                              *)
LEMMA EndsAreEqual ==
  ASSUME NEW S, NEW new, NEW old, new \in Seq(S), old \in Seq(S),
         NEW all, NEW len \in Nat, NEW n \in Nat,
         EndsOf(new, all, len, n), EndsOf(old, all, len, n)
  PROVE  new = old
<1>1. Len(new) = Len(old) /\ \A i \in 1..Len(new) : new[i] = old[i]
  BY DEF EndsOf
<1> QED BY <1>1, SeqEqual

(* Appending and cutting yields the end of the longer list.                *)
LEMMA PushedIs ==
  ASSUME NEW S, NEW new, new \in Seq(S), NEW x \in S, NEW n \in Nat \ {0}, NEW all,
         NEW len \in Nat, EndsOf(new, all, len, n), all[len + 1] = x
  PROVE  /\ Newest(Append(new, x), n) \in Seq(S)
         /\ EndsOf(Newest(Append(new, x), n), all, len + 1, n)
<1>1. PICK k \in Nat : /\ k = Len(new) /\ k = IF len > n THEN n ELSE len
                       /\ \A i \in 1..k : new[i] = all[(len - k) + i]
  BY DEF EndsOf, IsList
<1>2. PICK more : more = Append(new, x)
  OBVIOUS
<1>3. /\ more \in Seq(S) /\ Len(more) = k + 1
      /\ \A i \in 1..k : more[i] = new[i]
      /\ more[k + 1] = x
  <2>1. /\ Append(new, x) \in Seq(S)
        /\ Len(Append(new, x)) = Len(new) + 1
        /\ \A i \in 1..Len(new) : Append(new, x)[i] = new[i]
        /\ Append(new, x)[Len(new) + 1] = x
    BY AppendProperties
  <2> QED BY <1>1, <1>2, <2>1
<1>4. PICK end : end = Newest(more, n)
  OBVIOUS
<1>5. end \in Seq(S) /\ EndsOf(end, more, k + 1, n)
  BY <1>1, <1>3, <1>4, NewestIs
<1>6. PICK j \in Nat : /\ j = Len(end) /\ j = IF k + 1 > n THEN n ELSE k + 1
                       /\ \A i \in 1..j : end[i] = more[((k + 1) - j) + i]
  BY <1>5 DEF EndsOf, IsList
<1>7. j = IF len + 1 > n THEN n ELSE len + 1
  BY <1>1, <1>6
<1>8. ASSUME NEW i \in 1..j
      PROVE  end[i] = all[((len + 1) - j) + i]
  <2>1. PICK p : p = ((k + 1) - j) + i
    OBVIOUS
  <2>2. p \in 1..(k + 1) /\ (len - k) + p = ((len + 1) - j) + i
    BY <1>1, <1>6, <2>1
  <2>3. p = k + 1 => ((len + 1) - j) + i = len + 1
    BY <1>1, <1>6, <2>2
  <2>4. p # k + 1 => p \in 1..k
    BY <1>1, <2>2
  <2>5. end[i] = more[p]
    BY <1>6, <2>1
  <2>6. CASE p = k + 1
    BY <1>3, <2>3, <2>5, <2>6
  <2>7. CASE p # k + 1
    <3>1. more[p] = all[(len - k) + p]
      BY <1>1, <1>3, <2>4, <2>7
    <3> QED BY <2>2, <2>5, <3>1
  <2> QED BY <2>6, <2>7
<1>9. IsList(end)
  BY <1>5 DEF EndsOf
<1>10. EndsOf(end, all, len + 1, n)
  BY <1>6, <1>7, <1>8, <1>9 DEF EndsOf
<1> QED BY <1>2, <1>4, <1>5, <1>10

(* The dashboard's deques drop what the page drops.                        *)
LEMMA PushedOnIsNewest ==
  ASSUME NEW S, NEW deque, deque \in Seq(S), Len(deque) <= MaxRows, NEW x \in S
  PROVE  /\ PushedOn(deque, x) = Newest(Append(deque, x), MaxRows)
         /\ PushedOn(deque, x) \in Seq(S) /\ Len(PushedOn(deque, x)) <= MaxRows
<1>1. PICK n \in Nat \ {0} : n = MaxRows
  BY MaxRowsAssumption
<1>2. PICK more : more = Append(deque, x)
  OBVIOUS
<1>3. PICK k \in Nat : k = Len(deque) /\ k <= n
  BY <1>1, LenProperties
<1>4. more \in Seq(S) /\ Len(more) = k + 1 /\ more # <<>>
  <2>1. more \in Seq(S) /\ Len(more) = k + 1
    BY <1>2, <1>3, AppendProperties
  <2> QED BY <1>3, <2>1
<1>5. PICK end : end = Newest(more, n)
  OBVIOUS
<1>6. end \in Seq(S) /\ EndsOf(end, more, k + 1, n)
  BY <1>4, <1>5, NewestIs
<1>7. Len(end) <= n
  BY <1>3, <1>6 DEF EndsOf
<1>8. PushedOn(deque, x) = IF k + 1 > n THEN Tail(more) ELSE more
  BY <1>1, <1>2, <1>4 DEF PushedOn
<1>9. CASE k + 1 > n
  <2>1. k = n
    BY <1>3, <1>9
  <2>2. /\ Tail(more) \in Seq(S) /\ Len(Tail(more)) = Len(more) - 1
        /\ \A i \in 1..Len(Tail(more)) : Tail(more)[i] = more[i + 1]
    BY <1>4, HeadTailProperties
  <2>3. PICK tail : tail = Tail(more)
    OBVIOUS
  <2>4. tail \in Seq(S) /\ Len(tail) = n /\ \A i \in 1..n : tail[i] = more[i + 1]
    BY <1>4, <2>1, <2>2, <2>3
  <2>5. \A i \in 1..n : i + 1 = ((k + 1) - n) + i
    BY <2>1
  <2>6. EndsOf(tail, more, k + 1, n)
    BY <1>9, <2>4, <2>5, LenProperties DEF EndsOf, IsList
  <2>7. tail = end
    BY <1>3, <1>6, <2>4, <2>6, EndsAreEqual
  <2> QED BY <1>1, <1>2, <1>5, <1>6, <1>7, <1>8, <1>9, <2>3, <2>7
<1>10. CASE ~(k + 1 > n)
  <2>1. Newest(more, n) = more
    BY <1>4, <1>10 DEF Newest
  <2> QED BY <1>1, <1>2, <1>5, <1>6, <1>7, <1>8, <1>10, <2>1
<1> QED BY <1>9, <1>10

(***************************************************************************)
(* Types: what pages show and what is sent to them.                        *)
(***************************************************************************)
Outcomes == {"PASS", "BLOCK"}

Texts ==
  {"token revoked", "DPoP invalid", "JA4 mismatch", "DPoP jkt mismatch",
   "risk threshold exceeded", "ok", "missing DPoP proof", "JA4 diff",
   "RATE LIMITED", "CHALLENGE issued", "tls_clienthello"}

TableRows ==
  {row \in [outcome: Outcomes, reason: Texts, risk: Optional(Nat),
            story_id: Optional(Tokens)] : row.risk = None => row.outcome = "BLOCK"}

ShownNumbers == [total: Nat, passed: Nat, blocked: Nat]

Events == TableRows \cup [type: {"issuance"}, story_id: Tokens]

Pages ==
  [table: Seq([data: TableRows, decision: Outcomes]), log: Seq(Texts),
   counts: ShownNumbers, rate_limited: Nat, simulatedThreshold: Optional(Nat),
   storiesById: [Tokens -> Seq(Events)]]

Snapshots ==
  {msg \in [type: {"snapshot"}, rows: Seq(TableRows), log_lines: Seq(Texts),
            counts: ShownNumbers, risk_threshold: Nat, issuances: Seq(Tokens),
            rate_limited: Nat] :
     Len(msg.rows) <= MaxRows /\ Len(msg.log_lines) <= MaxLog}

Messages ==
  UNION {Snapshots,
         [type: {"row"}, row: TableRows],
         [type: {"issuance"}, story_id: Tokens],
         [type: {"rate_limited"}, total: Nat],
         [type: {"log"}, line: Texts],
         [type: {"counts"}, counts: ShownNumbers],
         [type: {"challenge_issued"}]}

SameTable(p, q) ==
  p.table = q.table /\ p.simulatedThreshold = q.simulatedThreshold

SameLog(p, q) == p.log = q.log

SameCounts(p, q) == p.counts = q.counts /\ p.rate_limited = q.rate_limited

SameStories(p, q) == p.storiesById = q.storiesById

(* A row changes the table of a page and nothing else.                     *)
LEMMA RowAdded ==
  ASSUME NEW pg \in Pages, NEW row \in TableRows, NEW new, new = AddRow(pg, row)
  PROVE  /\ new \in Pages
         /\ new.table = Newest(Append(pg.table,
                          ApplyThreshold(row, pg.simulatedThreshold)), MaxRows)
         /\ new.simulatedThreshold = pg.simulatedThreshold
         /\ SameLog(new, pg) /\ SameCounts(new, pg) /\ SameStories(new, pg)
<1> DEFINE cell == ApplyThreshold(row, pg.simulatedThreshold)
<1>1. cell \in [data: TableRows, decision: Outcomes]
  BY DEF ApplyThreshold, SimulateOutcome, TableRows, Outcomes
<1>2. pg.table \in Seq([data: TableRows, decision: Outcomes])
  BY DEF Pages
<1> HIDE DEF cell
<1>3. Append(pg.table, cell) \in Seq([data: TableRows, decision: Outcomes])
  BY <1>1, <1>2, AppendProperties
<1>4. PICK table : table = Newest(Append(pg.table, cell), MaxRows)
  OBVIOUS
<1>5. table \in Seq([data: TableRows, decision: Outcomes])
  BY <1>3, <1>4, NewestIs, MaxRowsAssumption
<1>6. new = [pg EXCEPT !.table = table]
  BY <1>4 DEF AddRow, cell
<1> QED BY <1>4, <1>5, <1>6 DEF Pages, SameLog, SameCounts, SameStories, cell

(* A line changes the log of a page and nothing else.                      *)
LEMMA LineAdded ==
  ASSUME NEW pg \in Pages, NEW line \in Texts, NEW new, new = AddLog(pg, line)
  PROVE  /\ new \in Pages
         /\ new.log = Newest(Append(pg.log, line), MaxLog)
         /\ SameTable(new, pg) /\ SameCounts(new, pg) /\ SameStories(new, pg)
<1>1. PICK log : log = Newest(Append(pg.log, line), MaxLog)
  OBVIOUS
<1>2. pg.log \in Seq(Texts)
  BY DEF Pages
<1>3. Append(pg.log, line) \in Seq(Texts)
  BY <1>2, AppendProperties
<1>4. log \in Seq(Texts)
  BY <1>1, <1>3, NewestIs, WebAssumption
<1>5. new = [pg EXCEPT !.log = log]
  BY <1>1 DEF AddLog
<1> QED BY <1>1, <1>4, <1>5 DEF Pages, SameTable, SameCounts, SameStories

(* An event changes the timeline it is about and nothing else.             *)
LEMMA EventAdded ==
  ASSUME NEW pg \in Pages, NEW story \in Optional(Tokens), NEW event \in Events,
         NEW new, new = AddStoryEvent(pg, story, event)
  PROVE  /\ new \in Pages
         /\ \A s \in Tokens :
              new.storiesById[s] = IF s = story THEN Append(pg.storiesById[s], event)
                                   ELSE pg.storiesById[s]
         /\ SameTable(new, pg) /\ SameLog(new, pg) /\ SameCounts(new, pg)
<1>1. CASE story = None
  <2>1. new = pg /\ \A s \in Tokens : s # story
    BY <1>1, NoneAssumption DEF AddStoryEvent
  <2> QED BY <2>1 DEF SameTable, SameLog, SameCounts
<1>2. CASE story # None
  <2>1. story \in Tokens /\ pg.storiesById \in [Tokens -> Seq(Events)]
    BY <1>2 DEF Optional, Pages
  <2>2. PICK told_ : told_ = Append(pg.storiesById[story], event)
    OBVIOUS
  <2>3. told_ \in Seq(Events)
    BY <2>1, <2>2, AppendProperties
  <2>4. PICK stories : stories = [pg.storiesById EXCEPT ![story] = told_]
    OBVIOUS
  <2>5. stories \in [Tokens -> Seq(Events)]
    BY <2>1, <2>3, <2>4
  <2>6. \A s \in Tokens : stories[s] = IF s = story THEN told_ ELSE pg.storiesById[s]
    BY <2>1, <2>4
  <2>7. new = [pg EXCEPT !.storiesById = stories]
    BY <1>2, <2>2, <2>4 DEF AddStoryEvent, Pages
  <2>8. new \in Pages /\ new.storiesById = stories
    BY <2>5, <2>7 DEF Pages
  <2>9. SameTable(new, pg) /\ SameLog(new, pg) /\ SameCounts(new, pg)
    BY <2>7 DEF Pages, SameTable, SameLog, SameCounts
  <2> QED BY <2>2, <2>6, <2>8, <2>9
<1> QED BY <1>1, <1>2

(* An issuance is an event that is no row.                                 *)
LEMMA IssuanceIsEvent ==
  ASSUME NEW s \in Tokens
  PROVE  IssuanceEvent(s) \in Events /\ ~IsRow(IssuanceEvent(s))
BY DEF IssuanceEvent, Events, IsRow

(* A row of the table is an event of its token's timeline.                 *)
LEMMA RowIsEvent ==
  ASSUME NEW row \in TableRows
  PROVE  row \in Events /\ IsRow(row) /\ row.story_id \in Optional(Tokens)
BY DEF TableRows, Events, IsRow

(* What every step of a fold keeps, the fold keeps.                        *)
LEMMA FoldKeeps ==
  ASSUME NEW kind, NEW base, NEW seq, IsList(seq), NEW value,
         IsFoldOf(value, kind, base, seq), NEW G, base \in G,
         \A k \in 1..Len(seq) : \A pg \in G : Does(kind, pg, seq[k]) \in G
  PROVE  value \in G
<1>1. PICK n \in Nat : n = Len(seq)
  BY DEF IsList
<1>2. PICK run : run[0] = base /\ IsRun(kind, run, seq) /\ value = run[n]
  BY <1>1 DEF IsFoldOf
<1> DEFINE Good == {k \in Nat : run[k] \in G}
<1>3. 0 \in Good
  BY <1>2
<1>4. ASSUME NEW k \in Nat, k < n, k \in Good
      PROVE  k + 1 \in Good
  <2>1. k + 1 \in 1..n /\ (k + 1) - 1 = k
    BY <1>4
  <2>2. run[k + 1] = Does(kind, run[k], seq[k + 1])
    BY <1>1, <1>2, <2>1 DEF IsRun
  <2> QED BY <1>1, <1>4, <2>1, <2>2
<1>5. \A k \in 0..n : k \in Good
  <2> HIDE DEF Good
  <2> QED BY <1>3, <1>4, UpTo
<1>6. n \in 0..n
  BY <1>1
<1> QED BY <1>2, <1>5, <1>6

(* The issuances of a snapshot change nothing but timelines.               *)
LEMMA IssuancesRead ==
  ASSUME NEW pg \in Pages, NEW seq, seq \in Seq(Tokens), NEW new,
         new = FoldLeft(AddIssuance, pg, seq)
  PROVE  new \in Pages /\ SameTable(new, pg) /\ SameLog(new, pg) /\ SameCounts(new, pg)
<1> DEFINE G == {p \in Pages : SameTable(p, pg) /\ SameLog(p, pg) /\ SameCounts(p, pg)}
<1>1. IsList(seq) /\ \A k \in 1..Len(seq) : seq[k] \in Tokens
  BY LenProperties, ElementOfSeq DEF IsList
<1>2. IsFoldOf(new, "issuance", pg, seq)
  BY <1>1, IssuancesFold
<1>3. pg \in G
  BY DEF SameTable, SameLog, SameCounts
<1>4. ASSUME NEW k \in 1..Len(seq), NEW p \in G
      PROVE  Does("issuance", p, seq[k]) \in G
  <2>1. PICK s \in Tokens : s = seq[k]
    BY <1>1
  <2>2. PICK q : q = AddStoryEvent(p, s, IssuanceEvent(s))
    OBVIOUS
  <2>3. q \in Pages /\ SameTable(q, p) /\ SameLog(q, p) /\ SameCounts(q, p)
    BY <2>2, EventAdded, IssuanceIsEvent DEF Optional
  <2>4. Does("issuance", p, seq[k]) = q
    BY <2>1, <2>2, DoesEach DEF AddIssuance
  <2> QED BY <2>3, <2>4 DEF SameTable, SameLog, SameCounts
<1> HIDE DEF G
<1>5. new \in G
  BY <1>1, <1>2, <1>3, <1>4, FoldKeeps
<1> QED BY <1>5 DEF G

(* The rows of a snapshot, told as events, change nothing but timelines.   *)
LEMMA EventsRead ==
  ASSUME NEW pg \in Pages, NEW seq, seq \in Seq(TableRows), NEW new,
         new = FoldLeft(AddRowToStory, pg, seq)
  PROVE  new \in Pages /\ SameTable(new, pg) /\ SameLog(new, pg) /\ SameCounts(new, pg)
<1> DEFINE G == {p \in Pages : SameTable(p, pg) /\ SameLog(p, pg) /\ SameCounts(p, pg)}
<1>1. IsList(seq) /\ \A k \in 1..Len(seq) : seq[k] \in TableRows
  BY LenProperties, ElementOfSeq DEF IsList
<1>2. IsFoldOf(new, "event", pg, seq)
  BY <1>1, StoriesFold
<1>3. pg \in G
  BY DEF SameTable, SameLog, SameCounts
<1>4. ASSUME NEW k \in 1..Len(seq), NEW p \in G
      PROVE  Does("event", p, seq[k]) \in G
  <2>1. PICK row \in TableRows : row = seq[k]
    BY <1>1
  <2>2. PICK q : q = AddStoryEvent(p, row.story_id, row)
    OBVIOUS
  <2>3. q \in Pages /\ SameTable(q, p) /\ SameLog(q, p) /\ SameCounts(q, p)
    BY <2>2, EventAdded, RowIsEvent
  <2>4. Does("event", p, seq[k]) = q
    BY <2>1, <2>2, DoesEach DEF AddRowToStory
  <2> QED BY <2>3, <2>4 DEF SameTable, SameLog, SameCounts
<1> HIDE DEF G
<1>5. new \in G
  BY <1>1, <1>2, <1>3, <1>4, FoldKeeps
<1> QED BY <1>5 DEF G

(* Every cell shows what the slider makes of its row.                      *)
Applied(pg) ==
  \A i \in DOMAIN pg.table :
    pg.table[i] = ApplyThreshold(pg.table[i].data, pg.simulatedThreshold)

(* A row added under the slider shows what the slider makes of it.         *)
LEMMA RowApplied ==
  ASSUME NEW pg \in Pages, Applied(pg), NEW row \in TableRows
  PROVE  Applied(AddRow(pg, row))
<1> DEFINE S == [data: TableRows, decision: Outcomes]
           t == pg.simulatedThreshold
<1>1. PICK new : new = AddRow(pg, row)
  OBVIOUS
<1>2. PICK cell : cell = ApplyThreshold(row, t)
  OBVIOUS
<1>3. cell.data = row /\ cell \in S
  BY <1>2 DEF ApplyThreshold, SimulateOutcome, TableRows, Outcomes
<1>4. /\ new.table = Newest(Append(pg.table, cell), MaxRows)
      /\ new.simulatedThreshold = t
  BY <1>1, <1>2, RowAdded
<1>5. pg.table \in Seq(S)
  BY DEF Pages
<1>6. PICK more : more = Append(pg.table, cell)
  OBVIOUS
<1>7. /\ more \in Seq(S) /\ Len(more) = Len(pg.table) + 1
      /\ \A i \in 1..Len(pg.table) : more[i] = pg.table[i]
      /\ more[Len(pg.table) + 1] = cell
  BY <1>3, <1>5, <1>6, AppendProperties
<1>8. \A i \in 1..Len(more) : more[i] = ApplyThreshold(more[i].data, t)
  <2>1. PICK k \in Nat : k = Len(pg.table) /\ DOMAIN pg.table = 1..k
    BY <1>5, LenProperties
  <2>2. \A i \in 1..(k + 1) : i \in 1..k \/ i = k + 1
    BY <2>1
  <2>3. \A i \in 1..k : more[i] = ApplyThreshold(more[i].data, t)
    BY <1>7, <2>1 DEF Applied
  <2>4. more[k + 1] = ApplyThreshold(more[k + 1].data, t)
    BY <1>2, <1>3, <1>7, <2>1
  <2> QED BY <1>7, <2>1, <2>2, <2>3, <2>4
<1>9. PICK end : end = Newest(more, MaxRows)
  OBVIOUS
<1>10. EndsOf(end, more, Len(more), MaxRows)
  BY <1>7, <1>9, NewestIs, MaxRowsAssumption
<1>11. ASSUME NEW i \in DOMAIN end
       PROVE  end[i] = ApplyThreshold(end[i].data, t)
  <2>1. PICK k \in Nat, j \in Nat, n \in Nat :
          k = Len(more) /\ j = Len(end) /\ n = MaxRows /\ DOMAIN end = 1..j
    <3>1. Len(more) \in Nat /\ Len(end) \in Nat /\ MaxRows \in Nat /\ DOMAIN end = 1..Len(end)
      BY <1>7, <1>10, LenProperties, MaxRowsAssumption DEF EndsOf, IsList
    <3> QED BY <3>1
  <2>2. j = IF k > n THEN n ELSE k
    BY <1>10, <2>1 DEF EndsOf
  <2>3. end[i] = more[(k - j) + i]
    BY <1>10, <1>11, <2>1 DEF EndsOf
  <2>4. (k - j) + i \in 1..k
    BY <1>11, <2>1, <2>2
  <2> QED BY <1>8, <2>1, <2>3, <2>4
<1> QED BY <1>1, <1>4, <1>6, <1>9, <1>11 DEF Applied

(* A list that fits is read as it was written.                             *)
LEMMA RowsRead ==
  ASSUME NEW pg \in Pages, pg.table = <<>>, NEW seq, seq \in Seq(TableRows),
         Len(seq) <= MaxRows, NEW new, new = FoldLeft(AddRow, pg, seq)
  PROVE  /\ new \in Pages /\ Data(new.table) = seq /\ Applied(new)
         /\ new.simulatedThreshold = pg.simulatedThreshold
         /\ SameLog(new, pg) /\ SameCounts(new, pg) /\ SameStories(new, pg)
<1> DEFINE S == [data: TableRows, decision: Outcomes]
<1>1. PICK n \in Nat, max \in Nat \ {0} : n = Len(seq) /\ max = MaxRows /\ n <= max
  BY LenProperties, MaxRowsAssumption
<1>2. IsList(seq) /\ \A k \in 1..n : seq[k] \in TableRows
  BY <1>1, LenProperties, ElementOfSeq DEF IsList
<1>3. PICK run : run[0] = pg /\ IsRun("row", run, seq) /\ new = run[n]
  BY <1>1, <1>2, RowsFold DEF IsFoldOf
<1> DEFINE Shows(p, k) ==
      /\ p \in Pages /\ Applied(p) /\ p.simulatedThreshold = pg.simulatedThreshold
      /\ SameLog(p, pg) /\ SameCounts(p, pg) /\ SameStories(p, pg)
      /\ Len(p.table) = k /\ \A i \in 1..k : p.table[i].data = seq[i]
    Good == {k \in Nat : Shows(run[k], k)}
<1>4. 0 \in Good
  <2>1. Len(pg.table) = 0 /\ DOMAIN pg.table = {} /\ 1..0 = {}
    OBVIOUS
  <2>2. Applied(pg)
    BY <2>1 DEF Applied
  <2> QED BY <1>3, <2>1, <2>2 DEF SameLog, SameCounts, SameStories
<1>5. ASSUME NEW k \in Nat, k < n, k \in Good
      PROVE  k + 1 \in Good
  <2>1. k + 1 \in 1..n /\ (k + 1) - 1 = k /\ k + 1 <= max
    BY <1>1, <1>5
  <2>2. PICK row \in TableRows : row = seq[k + 1]
    BY <1>2, <2>1
  <2>3. PICK p : p = run[k] /\ Shows(p, k)
    BY <1>5
  <2>4. PICK q : q = AddRow(p, row)
    OBVIOUS
  <2>5. run[k + 1] = q
    BY <1>1, <1>3, <2>1, <2>2, <2>3, <2>4, DoesEach DEF IsRun
  <2>6. PICK cell : cell = ApplyThreshold(row, p.simulatedThreshold)
    OBVIOUS
  <2>7. cell.data = row /\ cell \in S
    BY <2>3, <2>6 DEF ApplyThreshold, SimulateOutcome, TableRows, Outcomes
  <2>8. /\ q \in Pages /\ q.table = Newest(Append(p.table, cell), MaxRows)
        /\ q.simulatedThreshold = p.simulatedThreshold
        /\ SameLog(q, p) /\ SameCounts(q, p) /\ SameStories(q, p)
    BY <2>3, <2>4, <2>6, RowAdded
  <2>9. p.table \in Seq(S)
    BY <2>3 DEF Pages
  <2>10. PICK more : more = Append(p.table, cell)
    OBVIOUS
  <2>11. /\ Len(more) = k + 1 /\ more[k + 1] = cell
         /\ \A i \in 1..k : more[i] = p.table[i]
    BY <2>3, <2>7, <2>9, <2>10, AppendProperties
  <2>12. q.table = more
    BY <1>1, <2>1, <2>8, <2>10, <2>11 DEF Newest
  <2>13. Applied(q)
    BY <2>2, <2>3, <2>4, RowApplied
  <2>14. \A i \in 1..(k + 1) : q.table[i].data = seq[i]
    <3>1. \A i \in 1..(k + 1) : i \in 1..k \/ i = k + 1
      OBVIOUS
    <3> QED BY <2>2, <2>3, <2>7, <2>11, <2>12, <3>1
  <2>15. Shows(q, k + 1)
    BY <2>3, <2>8, <2>11, <2>12, <2>13, <2>14 DEF SameLog, SameCounts, SameStories
  <2> HIDE DEF Shows
  <2> QED BY <2>5, <2>15
<1>6. \A k \in 0..n : k \in Good
  <2> HIDE DEF Good
  <2> QED BY <1>4, <1>5, UpTo
<1>7. Shows(new, n)
  BY <1>1, <1>3, <1>6
<1>8. Data(new.table) = seq
  <2>1. DOMAIN new.table = 1..n
    BY <1>7, LenProperties DEF Pages
  <2>2. Data(new.table) = [i \in 1..n |-> seq[i]]
    BY <1>7, <2>1 DEF Data
  <2> QED BY <1>1, <2>2, LenProperties
<1> QED BY <1>7, <1>8

(* A log that fits is read as it was written.                              *)
LEMMA LinesRead ==
  ASSUME NEW pg \in Pages, pg.log = <<>>, NEW seq, seq \in Seq(Texts),
         Len(seq) <= MaxLog, NEW new, new = FoldLeft(AddLog, pg, seq)
  PROVE  /\ new \in Pages /\ new.log = seq
         /\ SameTable(new, pg) /\ SameCounts(new, pg) /\ SameStories(new, pg)
<1>1. PICK n \in Nat, max \in Nat \ {0} : n = Len(seq) /\ max = MaxLog /\ n <= max
  BY LenProperties, WebAssumption
<1>2. IsList(seq) /\ \A k \in 1..n : seq[k] \in Texts
  BY <1>1, LenProperties, ElementOfSeq DEF IsList
<1>3. PICK run : run[0] = pg /\ IsRun("line", run, seq) /\ new = run[n]
  BY <1>1, <1>2, LinesFold DEF IsFoldOf
<1> DEFINE Shows(p, k) ==
      /\ p \in Pages
      /\ SameTable(p, pg) /\ SameCounts(p, pg) /\ SameStories(p, pg)
      /\ Len(p.log) = k /\ \A i \in 1..k : p.log[i] = seq[i]
    Good == {k \in Nat : Shows(run[k], k)}
<1>4. 0 \in Good
  <2>1. Len(pg.log) = 0 /\ 1..0 = {}
    OBVIOUS
  <2> QED BY <1>3, <2>1 DEF SameTable, SameCounts, SameStories
<1>5. ASSUME NEW k \in Nat, k < n, k \in Good
      PROVE  k + 1 \in Good
  <2>1. k + 1 \in 1..n /\ (k + 1) - 1 = k /\ k + 1 <= max
    BY <1>1, <1>5
  <2>2. PICK line \in Texts : line = seq[k + 1]
    BY <1>2, <2>1
  <2>3. PICK p : p = run[k] /\ Shows(p, k)
    BY <1>5
  <2>4. PICK q : q = AddLog(p, line)
    OBVIOUS
  <2>5. run[k + 1] = q
    BY <1>1, <1>3, <2>1, <2>2, <2>3, <2>4, DoesEach DEF IsRun
  <2>6. /\ q \in Pages /\ q.log = Newest(Append(p.log, line), MaxLog)
        /\ SameTable(q, p) /\ SameCounts(q, p) /\ SameStories(q, p)
    BY <2>3, <2>4, LineAdded
  <2>7. p.log \in Seq(Texts)
    BY <2>3 DEF Pages
  <2>8. PICK more : more = Append(p.log, line)
    OBVIOUS
  <2>9. /\ Len(more) = k + 1 /\ more[k + 1] = line
        /\ \A i \in 1..k : more[i] = p.log[i]
    BY <2>3, <2>7, <2>8, AppendProperties
  <2>10. q.log = more
    BY <1>1, <2>1, <2>6, <2>8, <2>9 DEF Newest
  <2>11. \A i \in 1..(k + 1) : q.log[i] = seq[i]
    <3>1. \A i \in 1..(k + 1) : i \in 1..k \/ i = k + 1
      OBVIOUS
    <3> QED BY <2>2, <2>3, <2>9, <2>10, <3>1
  <2>12. Shows(q, k + 1)
    BY <2>3, <2>6, <2>9, <2>10, <2>11 DEF SameTable, SameCounts, SameStories
  <2> HIDE DEF Shows
  <2> QED BY <2>5, <2>12
<1>6. \A k \in 0..n : k \in Good
  <2> HIDE DEF Good
  <2> QED BY <1>4, <1>5, UpTo
<1>7. Shows(new, n)
  BY <1>1, <1>3, <1>6
<1>8. new.log = seq
  <2>1. new.log \in Seq(Texts)
    BY <1>7 DEF Pages
  <2> QED BY <1>1, <1>7, <2>1, SeqEqual
<1> QED BY <1>7, <1>8

(* A snapshot makes the page the dashboard's, whatever it was.             *)
LEMMA SnapshotShown ==
  ASSUME NEW pg \in Pages, NEW msg \in Snapshots, NEW new, new = OnMessage(pg, msg)
  PROVE  /\ new \in Pages /\ Data(new.table) = msg.rows /\ Applied(new)
         /\ new.simulatedThreshold = msg.risk_threshold
         /\ new.log = msg.log_lines
         /\ new.counts = msg.counts /\ new.rate_limited = msg.rate_limited
         /\ \E p \in Pages : /\ SameStories(p, pg)
                             /\ SameStories(new, ToldFrom(p, msg))
<1>1. /\ msg.rows \in Seq(TableRows) /\ Len(msg.rows) <= MaxRows
      /\ msg.log_lines \in Seq(Texts) /\ Len(msg.log_lines) <= MaxLog
      /\ msg.counts \in ShownNumbers /\ msg.risk_threshold \in Nat
      /\ msg.issuances \in Seq(Tokens) /\ msg.rate_limited \in Nat
      /\ msg.type = "snapshot"
  BY DEF Snapshots
<1>2. PICK cleared : cleared = [pg EXCEPT !.table = <<>>, !.log = <<>>,
                                  !.simulatedThreshold = msg.risk_threshold]
  OBVIOUS
<1>3. /\ cleared \in Pages /\ cleared.table = <<>> /\ cleared.log = <<>>
      /\ cleared.simulatedThreshold = msg.risk_threshold /\ SameStories(cleared, pg)
  <2>1. /\ <<>> \in Seq([data: TableRows, decision: Outcomes]) /\ <<>> \in Seq(Texts)
        /\ msg.risk_threshold \in Optional(Nat)
    BY <1>1 DEF Optional
  <2> QED BY <1>2, <2>1 DEF Pages, SameStories
<1>4. PICK withRows : withRows = FoldLeft(AddRow, cleared, msg.rows)
  OBVIOUS
<1>5. /\ withRows \in Pages /\ Data(withRows.table) = msg.rows /\ Applied(withRows)
      /\ withRows.simulatedThreshold = msg.risk_threshold
      /\ withRows.log = <<>> /\ SameStories(withRows, pg)
  BY <1>1, <1>3, <1>4, RowsRead DEF SameLog, SameStories
<1>6. PICK issued : issued = FoldLeft(AddIssuance, withRows, msg.issuances)
  OBVIOUS
<1>7. issued \in Pages /\ SameTable(issued, withRows) /\ SameLog(issued, withRows)
  BY <1>1, <1>5, <1>6, IssuancesRead
<1>8. PICK full : full = FoldLeft(AddRowToStory, issued, msg.rows)
  OBVIOUS
<1>9. full \in Pages /\ SameTable(full, issued) /\ SameLog(full, issued)
  BY <1>1, <1>7, <1>8, EventsRead
<1>10. full = ToldFrom(withRows, msg)
  BY <1>6, <1>8 DEF ToldFrom
<1>11. PICK logged : logged = FoldLeft(AddLog, full, msg.log_lines)
  OBVIOUS
<1>12. /\ logged \in Pages /\ logged.log = msg.log_lines
       /\ SameTable(logged, full) /\ SameStories(logged, full)
  BY <1>1, <1>5, <1>7, <1>9, <1>11, LinesRead DEF SameLog
<1>13. new = [logged EXCEPT !.counts = msg.counts, !.rate_limited = msg.rate_limited]
  <2>1. new = ShowSnapshot(pg, msg)
    BY <1>1 DEF OnMessage
  <2> QED BY <1>2, <1>4, <1>10, <1>11, <2>1 DEF ShowSnapshot
<1>14. /\ new \in Pages /\ SameTable(new, logged) /\ SameLog(new, logged)
       /\ SameStories(new, logged)
       /\ new.counts = msg.counts /\ new.rate_limited = msg.rate_limited
  BY <1>1, <1>12, <1>13 DEF Pages, SameTable, SameLog, SameStories
<1>15. SameTable(new, withRows)
  BY <1>7, <1>9, <1>12, <1>14 DEF SameTable
<1>16. Applied(new) /\ Data(new.table) = msg.rows
       /\ new.simulatedThreshold = msg.risk_threshold
  BY <1>5, <1>15 DEF Applied, SameTable
<1>17. SameStories(new, ToldFrom(withRows, msg))
  BY <1>10, <1>12, <1>14 DEF SameStories
<1> QED BY <1>5, <1>12, <1>14, <1>16, <1>17 DEF SameLog

(* What each of the other messages does to a page.                         *)
LEMMA MessageRead ==
  ASSUME NEW pg \in Pages, NEW msg \in Messages, NEW new, new = OnMessage(pg, msg)
  PROVE  /\ new \in Pages
         /\ \/ msg.type = "snapshot" /\ msg \in Snapshots
            \/ /\ msg.type = "row" /\ msg.row \in TableRows
               /\ new = AddRowToStory(AddRow(pg, msg.row), msg.row)
               /\ AddRow(pg, msg.row) \in Pages
            \/ /\ msg.type = "issuance" /\ msg.story_id \in Tokens
               /\ new = AddIssuance(pg, msg.story_id)
            \/ /\ msg.type = "rate_limited" /\ msg.total \in Nat
               /\ new = [pg EXCEPT !.rate_limited = msg.total]
            \/ msg.type = "log" /\ msg.line \in Texts /\ new = AddLog(pg, msg.line)
            \/ /\ msg.type = "counts" /\ msg.counts \in ShownNumbers
               /\ new = [pg EXCEPT !.counts = msg.counts]
            \/ msg.type = "challenge_issued" /\ new = pg
<1>1. CASE msg \in Snapshots
  BY <1>1, SnapshotShown DEF Snapshots
<1>2. CASE msg \in [type: {"row"}, row: TableRows]
  <2>1. msg.type = "row" /\ msg.row \in TableRows
    BY <1>2
  <2>2. PICK p : p = AddRow(pg, msg.row)
    OBVIOUS
  <2>3. new = AddRowToStory(p, msg.row)
    BY <2>1, <2>2 DEF OnMessage
  <2>4. p \in Pages
    BY <2>1, <2>2, RowAdded
  <2>5. new \in Pages
    BY <2>1, <2>3, <2>4, EventAdded, RowIsEvent DEF AddRowToStory
  <2> QED BY <2>1, <2>2, <2>3, <2>4, <2>5
<1>3. CASE msg \in [type: {"issuance"}, story_id: Tokens]
  <2>1. msg.type = "issuance" /\ msg.story_id \in Tokens
    BY <1>3
  <2>2. new = AddIssuance(pg, msg.story_id)
    BY <2>1 DEF OnMessage
  <2>3. new \in Pages
    BY <2>1, <2>2, EventAdded, IssuanceIsEvent DEF AddIssuance, Optional
  <2> QED BY <2>1, <2>2, <2>3
<1>4. CASE msg \in [type: {"rate_limited"}, total: Nat]
  <2>1. new = [pg EXCEPT !.rate_limited = msg.total]
    BY <1>4 DEF OnMessage
  <2> QED BY <1>4, <2>1 DEF Pages
<1>5. CASE msg \in [type: {"log"}, line: Texts]
  <2>1. msg.type = "log" /\ msg.line \in Texts
    BY <1>5
  <2>2. new = AddLog(pg, msg.line)
    BY <2>1 DEF OnMessage
  <2> QED BY <2>1, <2>2, LineAdded
<1>6. CASE msg \in [type: {"counts"}, counts: ShownNumbers]
  <2>1. msg.type = "counts" /\ msg.counts \in ShownNumbers
    BY <1>6
  <2>2. new = [pg EXCEPT !.counts = msg.counts]
    BY <2>1 DEF OnMessage
  <2>3. new \in Pages
    BY <2>1, <2>2 DEF Pages
  <2> QED BY <2>1, <2>2, <2>3
<1>7. CASE msg \in [type: {"challenge_issued"}]
  BY <1>7 DEF OnMessage
<1> QED BY <1>1, <1>2, <1>3, <1>4, <1>5, <1>6, <1>7 DEF Messages

(* Whatever a page reads, it is a page.                                    *)
LEMMA AfterTyped ==
  ASSUME NEW pg \in Pages, NEW msgs, msgs \in Seq(Messages)
  PROVE  After(pg, msgs) \in Pages
<1>1. IsList(msgs) /\ \A k \in 1..Len(msgs) : msgs[k] \in Messages
  BY LenProperties, ElementOfSeq DEF IsList
<1>2. IsFoldOf(After(pg, msgs), "message", pg, msgs)
  BY <1>1, MessagesFold DEF After
<1>3. \A k \in 1..Len(msgs) : \A p \in Pages : Does("message", p, msgs[k]) \in Pages
  BY <1>1, DoesEach, MessageRead
<1> QED BY <1>1, <1>2, <1>3, FoldKeeps

(* The cells follow the slider through every message.                      *)
LEMMA MessageApplied ==
  ASSUME NEW pg \in Pages, Applied(pg), NEW msg \in Messages,
         NEW new, new = OnMessage(pg, msg),
         pg.simulatedThreshold # None \/ msg.type = "snapshot"
  PROVE  Applied(new) /\ new.simulatedThreshold # None
<1>1. CASE msg.type = "snapshot" /\ msg \in Snapshots
  <2>1. msg.risk_threshold # None
    BY <1>1, WebAssumption DEF Snapshots
  <2> QED BY <1>1, <2>1, SnapshotShown
<1>2. CASE msg.type # "snapshot"
  <2>1. pg.simulatedThreshold # None
    BY <1>2
  <2>2. ASSUME SameTable(new, pg)
        PROVE  Applied(new) /\ new.simulatedThreshold # None
    BY <2>1, <2>2 DEF SameTable, Applied
  <2>3. CASE /\ msg.type = "row" /\ msg.row \in TableRows
             /\ new = AddRowToStory(AddRow(pg, msg.row), msg.row)
             /\ AddRow(pg, msg.row) \in Pages
    <3>1. PICK p \in Pages : p = AddRow(pg, msg.row)
      BY <2>3
    <3>2. Applied(p) /\ p.simulatedThreshold # None
      BY <2>1, <2>3, <3>1, RowAdded, RowApplied
    <3>3. SameTable(new, p)
      BY <2>3, <3>1, EventAdded, RowIsEvent DEF AddRowToStory
    <3> QED BY <3>2, <3>3 DEF SameTable, Applied
  <2>4. CASE /\ msg.type = "issuance" /\ msg.story_id \in Tokens
             /\ new = AddIssuance(pg, msg.story_id)
    BY <2>2, <2>4, EventAdded, IssuanceIsEvent DEF AddIssuance, Optional
  <2>5. CASE new = [pg EXCEPT !.rate_limited = msg.total]
    BY <2>2, <2>5 DEF SameTable, Pages
  <2>6. CASE msg.type = "log" /\ msg.line \in Texts /\ new = AddLog(pg, msg.line)
    BY <2>2, <2>6, LineAdded
  <2>7. CASE new = [pg EXCEPT !.counts = msg.counts]
    BY <2>2, <2>7 DEF SameTable, Pages
  <2>8. CASE new = pg
    BY <2>2, <2>8 DEF SameTable
  <2> QED BY <1>2, <2>3, <2>4, <2>5, <2>6, <2>7, <2>8, MessageRead
<1> QED BY <1>1, <1>2, MessageRead

(***************************************************************************)
(* Pages that differ only in their slider stay so, whatever they read.     *)
(***************************************************************************)
Cells == [data: TableRows, decision: Outcomes]

(* The rows behind the cells of a table.                                   *)
LEMMA DataTyped ==
  ASSUME NEW table, table \in Seq(Cells)
  PROVE  /\ Data(table) \in Seq(TableRows) /\ Len(Data(table)) = Len(table)
         /\ \A i \in 1..Len(table) : Data(table)[i] = table[i].data
<1>1. PICK n \in Nat : n = Len(table) /\ DOMAIN table = 1..n
  BY LenProperties
<1>2. \A i \in 1..n : table[i].data \in TableRows
  <2>1. \A i \in 1..n : table[i] \in Cells
    BY <1>1, ElementOfSeq
  <2> QED BY <2>1 DEF Cells
<1>3. Data(table) = [i \in 1..n |-> table[i].data]
  BY <1>1 DEF Data
<1>4. [i \in 1..n |-> table[i].data] \in Seq(TableRows)
  BY <1>2, IsASeq
<1>5. Data(table) \in Seq(TableRows) /\ DOMAIN Data(table) = 1..n
  BY <1>3, <1>4
<1>6. Len(Data(table)) = n
  BY <1>1, <1>5, LenProperties
<1> QED BY <1>1, <1>3, <1>5, <1>6

(* Cutting the cells cuts the rows behind them.                            *)
LEMMA DataPushed ==
  ASSUME NEW table, table \in Seq(Cells), NEW cell \in Cells
  PROVE  Data(Newest(Append(table, cell), MaxRows))
           = Newest(Append(Data(table), cell.data), MaxRows)
<1>1. PICK n \in Nat, max \in Nat \ {0} : n = Len(table) /\ max = MaxRows
  BY LenProperties, MaxRowsAssumption
<1>2. PICK more : more = Append(table, cell)
  OBVIOUS
<1>3. /\ more \in Seq(Cells) /\ Len(more) = n + 1 /\ more[n + 1] = cell
      /\ \A i \in 1..n : more[i] = table[i]
  BY <1>1, <1>2, AppendProperties
<1>4. PICK end : end = Newest(more, max)
  OBVIOUS
<1>5. end \in Seq(Cells) /\ EndsOf(end, more, n + 1, max)
  BY <1>3, <1>4, NewestIs
<1>6. PICK data : data = Data(table)
  OBVIOUS
<1>7. data \in Seq(TableRows) /\ Len(data) = n /\ \A i \in 1..n : data[i] = table[i].data
  BY <1>1, <1>6, DataTyped
<1>8. cell.data \in TableRows
  BY DEF Cells
<1>9. PICK moreData : moreData = Append(data, cell.data)
  OBVIOUS
<1>10. /\ moreData \in Seq(TableRows) /\ Len(moreData) = n + 1
       /\ moreData[n + 1] = cell.data
       /\ \A i \in 1..n : moreData[i] = data[i]
  BY <1>7, <1>8, <1>9, AppendProperties
<1>11. \A i \in 1..(n + 1) : moreData[i] = more[i].data
  <2>1. \A i \in 1..(n + 1) : i \in 1..n \/ i = n + 1
    OBVIOUS
  <2> QED BY <1>3, <1>7, <1>10, <2>1
<1>12. PICK shown : shown = Data(end)
  OBVIOUS
<1>13. /\ shown \in Seq(TableRows) /\ Len(shown) = Len(end)
       /\ \A i \in 1..Len(end) : shown[i] = end[i].data
  BY <1>5, <1>12, DataTyped
<1>14. EndsOf(shown, moreData, n + 1, max)
  <2>1. PICK k \in Nat : /\ k = Len(end) /\ k = IF n + 1 > max THEN max ELSE n + 1
                         /\ \A i \in 1..k : end[i] = more[((n + 1) - k) + i]
    BY <1>5 DEF EndsOf, IsList
  <2>2. \A i \in 1..k : ((n + 1) - k) + i \in 1..(n + 1)
    BY <1>1, <2>1
  <2>3. \A i \in 1..k : shown[i] = moreData[((n + 1) - k) + i]
    BY <1>11, <1>13, <2>1, <2>2
  <2>4. IsList(shown)
    BY <1>13, LenProperties DEF IsList
  <2> QED BY <1>13, <2>1, <2>3, <2>4 DEF EndsOf
<1>15. PICK newData : newData = Newest(moreData, max)
  OBVIOUS
<1>16. newData \in Seq(TableRows) /\ EndsOf(newData, moreData, n + 1, max)
  BY <1>10, <1>15, NewestIs
<1>17. shown = newData
  BY <1>13, <1>14, <1>16, EndsAreEqual
<1> QED BY <1>1, <1>2, <1>4, <1>6, <1>9, <1>12, <1>15, <1>17

(* A row is added behind the cells, whatever the slider shows of it.       *)
LEMMA RowShown ==
  ASSUME NEW pg \in Pages, NEW row \in TableRows, NEW new, new = AddRow(pg, row)
  PROVE  Data(new.table) = Newest(Append(Data(pg.table), row), MaxRows)
<1>1. PICK cell : cell = ApplyThreshold(row, pg.simulatedThreshold)
  OBVIOUS
<1>2. cell.data = row /\ cell \in Cells
  BY <1>1 DEF ApplyThreshold, SimulateOutcome, TableRows, Outcomes, Cells
<1>3. pg.table \in Seq(Cells)
  BY DEF Pages, Cells
<1>4. new.table = Newest(Append(pg.table, cell), MaxRows)
  BY <1>1, RowAdded
<1> QED BY <1>2, <1>3, <1>4, DataPushed

(* Events are added to the story they are about.                           *)
LEMMA EventsAlike ==
  ASSUME NEW p \in Pages, NEW q \in Pages, SameStories(p, q),
         NEW story \in Optional(Tokens), NEW event \in Events
  PROVE  SameStories(AddStoryEvent(p, story, event), AddStoryEvent(q, story, event))
BY DEF AddStoryEvent, SameStories, Pages

Alike(p, q) ==
  /\ Data(p.table) = Data(q.table)
  /\ SameLog(p, q) /\ SameCounts(p, q) /\ SameStories(p, q)

(* Issuances keep pages with the same timelines alike.                     *)
LEMMA IssuancesAlike ==
  ASSUME NEW p \in Pages, NEW q \in Pages, SameStories(p, q),
         NEW seq, seq \in Seq(Tokens)
  PROVE  SameStories(FoldLeft(AddIssuance, p, seq), FoldLeft(AddIssuance, q, seq))
<1>1. PICK n \in Nat : n = Len(seq)
  BY LenProperties
<1>2. IsList(seq) /\ \A k \in 1..n : seq[k] \in Tokens
  BY <1>1, LenProperties, ElementOfSeq DEF IsList
<1>3. PICK r : r[0] = p /\ IsRun("issuance", r, seq)
               /\ FoldLeft(AddIssuance, p, seq) = r[n]
  BY <1>1, <1>2, IssuancesFold DEF IsFoldOf
<1>4. PICK t : t[0] = q /\ IsRun("issuance", t, seq)
               /\ FoldLeft(AddIssuance, q, seq) = t[n]
  BY <1>1, <1>2, IssuancesFold DEF IsFoldOf
<1> DEFINE Good == {k \in Nat : r[k] \in Pages /\ t[k] \in Pages /\ SameStories(r[k], t[k])}
<1>5. 0 \in Good
  BY <1>3, <1>4
<1>6. ASSUME NEW k \in Nat, k < n, k \in Good
      PROVE  k + 1 \in Good
  <2>1. k + 1 \in 1..n /\ (k + 1) - 1 = k
    BY <1>6
  <2>2. PICK s \in Tokens : s = seq[k + 1]
    BY <1>2, <2>1
  <2>3. PICK a \in Pages, b \in Pages : a = r[k] /\ b = t[k] /\ SameStories(a, b)
    BY <1>6
  <2>4. r[k + 1] = AddStoryEvent(a, s, IssuanceEvent(s))
    BY <1>1, <1>3, <2>1, <2>2, <2>3, DoesEach DEF IsRun, AddIssuance
  <2>5. t[k + 1] = AddStoryEvent(b, s, IssuanceEvent(s))
    BY <1>1, <1>4, <2>1, <2>2, <2>3, DoesEach DEF IsRun, AddIssuance
  <2>6. r[k + 1] \in Pages /\ t[k + 1] \in Pages
    BY <2>3, <2>4, <2>5, EventAdded, IssuanceIsEvent DEF Optional
  <2>7. SameStories(r[k + 1], t[k + 1])
    BY <2>3, <2>4, <2>5, EventsAlike, IssuanceIsEvent DEF Optional
  <2> QED BY <2>6, <2>7
<1>7. \A k \in 0..n : k \in Good
  <2> HIDE DEF Good
  <2> QED BY <1>5, <1>6, UpTo
<1> QED BY <1>3, <1>4, <1>7

(* Rows keep pages with the same timelines alike.                          *)
LEMMA StoriesAlike ==
  ASSUME NEW p \in Pages, NEW q \in Pages, SameStories(p, q),
         NEW seq, seq \in Seq(TableRows)
  PROVE  SameStories(FoldLeft(AddRowToStory, p, seq), FoldLeft(AddRowToStory, q, seq))
<1>1. PICK n \in Nat : n = Len(seq)
  BY LenProperties
<1>2. IsList(seq) /\ \A k \in 1..n : seq[k] \in TableRows
  BY <1>1, LenProperties, ElementOfSeq DEF IsList
<1>3. PICK r : r[0] = p /\ IsRun("event", r, seq)
               /\ FoldLeft(AddRowToStory, p, seq) = r[n]
  BY <1>1, <1>2, StoriesFold DEF IsFoldOf
<1>4. PICK t : t[0] = q /\ IsRun("event", t, seq)
               /\ FoldLeft(AddRowToStory, q, seq) = t[n]
  BY <1>1, <1>2, StoriesFold DEF IsFoldOf
<1> DEFINE Good == {k \in Nat : r[k] \in Pages /\ t[k] \in Pages /\ SameStories(r[k], t[k])}
<1>5. 0 \in Good
  BY <1>3, <1>4
<1>6. ASSUME NEW k \in Nat, k < n, k \in Good
      PROVE  k + 1 \in Good
  <2>1. k + 1 \in 1..n /\ (k + 1) - 1 = k
    BY <1>6
  <2>2. PICK row \in TableRows : row = seq[k + 1]
    BY <1>2, <2>1
  <2>3. PICK a \in Pages, b \in Pages : a = r[k] /\ b = t[k] /\ SameStories(a, b)
    BY <1>6
  <2>4. r[k + 1] = AddStoryEvent(a, row.story_id, row)
    BY <1>1, <1>3, <2>1, <2>2, <2>3, DoesEach DEF IsRun, AddRowToStory
  <2>5. t[k + 1] = AddStoryEvent(b, row.story_id, row)
    BY <1>1, <1>4, <2>1, <2>2, <2>3, DoesEach DEF IsRun, AddRowToStory
  <2>6. r[k + 1] \in Pages /\ t[k + 1] \in Pages
    BY <2>2, <2>3, <2>4, <2>5, EventAdded, RowIsEvent
  <2>7. SameStories(r[k + 1], t[k + 1])
    BY <2>2, <2>3, <2>4, <2>5, EventsAlike, RowIsEvent
  <2> QED BY <2>6, <2>7
<1>7. \A k \in 0..n : k \in Good
  <2> HIDE DEF Good
  <2> QED BY <1>5, <1>6, UpTo
<1> QED BY <1>3, <1>4, <1>7

(* One message keeps pages alike.                                          *)
LEMMA MessageAlike ==
  ASSUME NEW p \in Pages, NEW q \in Pages, Alike(p, q), NEW msg \in Messages,
         NEW a, a = OnMessage(p, msg), NEW b, b = OnMessage(q, msg)
  PROVE  Alike(a, b)
<1>1. CASE msg.type = "snapshot" /\ msg \in Snapshots
  <2>1. PICK p1 \in Pages : SameStories(p1, p) /\ SameStories(a, ToldFrom(p1, msg))
    BY <1>1, SnapshotShown
  <2>2. PICK q1 \in Pages : SameStories(q1, q) /\ SameStories(b, ToldFrom(q1, msg))
    BY <1>1, SnapshotShown
  <2>3. msg.issuances \in Seq(Tokens) /\ msg.rows \in Seq(TableRows)
    BY <1>1 DEF Snapshots
  <2>4. SameStories(p1, q1)
    BY <2>1, <2>2 DEF Alike, SameStories
  <2>5. PICK p2, q2 : /\ p2 = FoldLeft(AddIssuance, p1, msg.issuances)
                      /\ q2 = FoldLeft(AddIssuance, q1, msg.issuances)
    OBVIOUS
  <2>6. p2 \in Pages /\ q2 \in Pages /\ SameStories(p2, q2)
    BY <2>3, <2>4, <2>5, IssuancesRead, IssuancesAlike
  <2>7. SameStories(ToldFrom(p1, msg), ToldFrom(q1, msg))
    BY <2>3, <2>5, <2>6, StoriesAlike DEF ToldFrom
  <2>8. SameStories(a, b)
    BY <2>1, <2>2, <2>7 DEF SameStories
  <2>9. Data(a.table) = Data(b.table) /\ SameLog(a, b) /\ SameCounts(a, b)
    BY <1>1, SnapshotShown DEF SameLog, SameCounts
  <2> QED BY <2>8, <2>9 DEF Alike
<1>2. CASE msg.type = "row" /\ msg.row \in TableRows
  <2>1. PICK p1, q1 : p1 = AddRow(p, msg.row) /\ q1 = AddRow(q, msg.row)
    OBVIOUS
  <2>2. p1 \in Pages /\ q1 \in Pages
    BY <1>2, <2>1, RowAdded
  <2>3. Data(p1.table) = Data(q1.table)
    BY <1>2, <2>1, RowShown DEF Alike
  <2>4. SameLog(p1, q1) /\ SameCounts(p1, q1) /\ SameStories(p1, q1)
    <3>1. SameLog(p1, p) /\ SameCounts(p1, p) /\ SameStories(p1, p)
      BY <1>2, <2>1, RowAdded
    <3>2. SameLog(q1, q) /\ SameCounts(q1, q) /\ SameStories(q1, q)
      BY <1>2, <2>1, RowAdded
    <3> QED BY <3>1, <3>2 DEF Alike, SameLog, SameCounts, SameStories
  <2>5. /\ a = AddStoryEvent(p1, msg.row.story_id, msg.row)
        /\ b = AddStoryEvent(q1, msg.row.story_id, msg.row)
    BY <1>2, <2>1 DEF OnMessage, AddRowToStory
  <2>6. SameTable(a, p1) /\ SameLog(a, p1) /\ SameCounts(a, p1)
    BY <1>2, <2>2, <2>5, EventAdded, RowIsEvent
  <2>7. SameTable(b, q1) /\ SameLog(b, q1) /\ SameCounts(b, q1)
    BY <1>2, <2>2, <2>5, EventAdded, RowIsEvent
  <2>8. SameStories(a, b)
    BY <1>2, <2>2, <2>4, <2>5, EventsAlike, RowIsEvent
  <2> QED BY <2>3, <2>4, <2>6, <2>7, <2>8 DEF Alike, SameTable, SameLog, SameCounts
<1>3. CASE msg.type = "issuance" /\ msg.story_id \in Tokens
  <2>1. PICK s \in Tokens, event \in Events :
          s = msg.story_id /\ event = IssuanceEvent(s) /\ s \in Optional(Tokens)
    BY <1>3, IssuanceIsEvent DEF Optional
  <2>2. a = AddStoryEvent(p, s, event) /\ b = AddStoryEvent(q, s, event)
    BY <1>3, <2>1 DEF OnMessage, AddIssuance
  <2>3. SameTable(a, p) /\ SameLog(a, p) /\ SameCounts(a, p)
    BY <2>1, <2>2, EventAdded
  <2>4. SameTable(b, q) /\ SameLog(b, q) /\ SameCounts(b, q)
    BY <2>1, <2>2, EventAdded
  <2>5. SameStories(a, b)
    BY <2>1, <2>2, EventsAlike DEF Alike
  <2> QED BY <2>3, <2>4, <2>5 DEF Alike, SameTable, SameLog, SameCounts
<1>4. CASE msg.type = "rate_limited"
  <2>1. /\ a = [p EXCEPT !.rate_limited = msg.total]
        /\ b = [q EXCEPT !.rate_limited = msg.total]
    BY <1>4 DEF OnMessage
  <2> QED BY <2>1 DEF Alike, SameLog, SameCounts, SameStories, Pages
<1>5. CASE msg.type = "log" /\ msg.line \in Texts
  <2>1. a = AddLog(p, msg.line) /\ b = AddLog(q, msg.line)
    BY <1>5 DEF OnMessage
  <2>2. SameTable(a, p) /\ SameCounts(a, p) /\ SameStories(a, p)
    BY <1>5, <2>1, LineAdded
  <2>3. SameTable(b, q) /\ SameCounts(b, q) /\ SameStories(b, q)
    BY <1>5, <2>1, LineAdded
  <2>4. a.log = b.log
    BY <1>5, <2>1, LineAdded DEF Alike, SameLog
  <2> QED BY <2>2, <2>3, <2>4 DEF Alike, SameTable, SameLog, SameCounts, SameStories
<1>6. CASE msg.type = "counts"
  <2>1. a = [p EXCEPT !.counts = msg.counts] /\ b = [q EXCEPT !.counts = msg.counts]
    BY <1>6 DEF OnMessage
  <2> QED BY <2>1 DEF Alike, SameLog, SameCounts, SameStories, Pages
<1>7. CASE msg.type = "challenge_issued"
  <2>1. a = p /\ b = q
    BY <1>7 DEF OnMessage
  <2> QED BY <2>1
<1> QED BY <1>1, <1>2, <1>3, <1>4, <1>5, <1>6, <1>7, MessageRead

(* So do any number of messages.                                           *)
LEMMA AfterAlike ==
  ASSUME NEW p \in Pages, NEW q \in Pages, Alike(p, q), NEW msgs, msgs \in Seq(Messages)
  PROVE  Alike(After(p, msgs), After(q, msgs))
<1>1. PICK n \in Nat : n = Len(msgs)
  BY LenProperties
<1>2. IsList(msgs) /\ \A k \in 1..n : msgs[k] \in Messages
  BY <1>1, LenProperties, ElementOfSeq DEF IsList
<1>3. PICK r : /\ r[0] = p /\ After(p, msgs) = r[n]
               /\ \A k \in 1..n : r[k] = OnMessage(r[k - 1], msgs[k])
  BY <1>1, <1>2, AfterRun
<1>4. PICK t : /\ t[0] = q /\ After(q, msgs) = t[n]
               /\ \A k \in 1..n : t[k] = OnMessage(t[k - 1], msgs[k])
  BY <1>1, <1>2, AfterRun
<1> DEFINE Good == {k \in Nat : r[k] \in Pages /\ t[k] \in Pages /\ Alike(r[k], t[k])}
<1>5. 0 \in Good
  BY <1>3, <1>4
<1>6. ASSUME NEW k \in Nat, k < n, k \in Good
      PROVE  k + 1 \in Good
  <2>1. k + 1 \in 1..n /\ (k + 1) - 1 = k
    BY <1>6
  <2>2. PICK msg \in Messages : msg = msgs[k + 1]
    BY <1>2, <2>1
  <2>3. PICK a \in Pages, b \in Pages : a = r[k] /\ b = t[k] /\ Alike(a, b)
    BY <1>6
  <2>4. r[k + 1] = OnMessage(a, msg) /\ t[k + 1] = OnMessage(b, msg)
    BY <1>3, <1>4, <2>1, <2>2, <2>3
  <2>5. r[k + 1] \in Pages /\ t[k + 1] \in Pages
    BY <2>3, <2>4, MessageRead
  <2> QED BY <2>3, <2>4, <2>5, MessageAlike
<1>7. \A k \in 0..n : k \in Good
  <2> HIDE DEF Good
  <2> QED BY <1>5, <1>6, UpTo
<1> QED BY <1>3, <1>4, <1>7

(***************************************************************************)
(* What a call of record_* sends.                                          *)
(***************************************************************************)
LEMMA ShortLists ==
  ASSUME NEW S
  PROVE  /\ \A x \in S : <<x>> \in Seq(S)
         /\ \A x, y \in S : <<x, y>> \in Seq(S)
OBVIOUS

(* One message for each line.                                              *)
LEMMA LogMessagesTyped ==
  ASSUME NEW lines, lines \in Seq(Texts)
  PROVE  /\ LogMessages(lines) \in Seq(Messages)
         /\ Len(LogMessages(lines)) = Len(lines)
         /\ \A i \in 1..Len(lines) :
              LogMessages(lines)[i] = [type |-> "log", line |-> lines[i]]
<1>1. PICK n \in Nat : n = Len(lines) /\ DOMAIN lines = 1..n
  BY LenProperties
<1>2. \A i \in 1..n : [type |-> "log", line |-> lines[i]] \in Messages
  BY <1>1, ElementOfSeq DEF Messages
<1>3. LogMessages(lines) = [i \in 1..n |-> [type |-> "log", line |-> lines[i]]]
  BY <1>1 DEF LogMessages
<1>4. [i \in 1..n |-> [type |-> "log", line |-> lines[i]]] \in Seq(Messages)
  BY <1>2, IsASeq
<1>5. LogMessages(lines) \in Seq(Messages) /\ DOMAIN LogMessages(lines) = 1..n
  BY <1>3, <1>4
<1>6. Len(LogMessages(lines)) = n
  BY <1>1, <1>5, LenProperties
<1> QED BY <1>1, <1>3, <1>5, <1>6

(* A page that reads the new lines has what the dashboard keeps of them.   *)
LEMMA LinesSent ==
  ASSUME NEW pg \in Pages, NEW lines, lines \in Seq(Texts),
         NEW new, new = After(pg, LogMessages(lines))
  PROVE  /\ new \in Pages
         /\ SameTable(new, pg) /\ SameCounts(new, pg) /\ SameStories(new, pg)
         /\ Len(pg.log) <= MaxLog => new.log = Newest(pg.log \o lines, MaxLog)
<1>1. PICK n \in Nat, len \in Nat, max \in Nat \ {0} :
        n = Len(lines) /\ len = Len(pg.log) /\ max = MaxLog
  BY LenProperties, WebAssumption DEF Pages
<1>2. PICK msgs : msgs = LogMessages(lines)
  OBVIOUS
<1>3. /\ msgs \in Seq(Messages) /\ Len(msgs) = n
      /\ \A i \in 1..n : msgs[i] = [type |-> "log", line |-> lines[i]]
  BY <1>1, <1>2, LogMessagesTyped
<1>4. IsList(msgs) /\ \A i \in 1..n : lines[i] \in Texts
  BY <1>1, <1>3, LenProperties, ElementOfSeq DEF IsList
<1>5. PICK run : /\ run[0] = pg /\ new = run[n]
                 /\ \A k \in 1..n : run[k] = OnMessage(run[k - 1], msgs[k])
  <2>1. PICK run : /\ run[0] = pg /\ After(pg, msgs) = run[Len(msgs)]
                   /\ \A k \in 1..Len(msgs) : run[k] = OnMessage(run[k - 1], msgs[k])
    <3>1. IsList(msgs)
      BY <1>4
    <3> QED BY ONLY <3>1, AfterRun
  <2> QED BY <1>2, <1>3, <2>1
<1>6. PICK all : all = pg.log \o lines
  OBVIOUS
<1>7. /\ all \in Seq(Texts) /\ Len(all) = len + n
      /\ \A i \in 1..len : all[i] = pg.log[i]
      /\ \A i \in 1..n : all[len + i] = lines[i]
  <2>1. pg.log \in Seq(Texts)
    BY DEF Pages
  <2>2. /\ pg.log \o lines \in Seq(Texts)
        /\ Len(pg.log \o lines) = Len(pg.log) + Len(lines)
        /\ \A i \in 1..(Len(pg.log) + Len(lines)) :
             (pg.log \o lines)[i] = IF i <= Len(pg.log) THEN pg.log[i]
                                    ELSE lines[i - Len(pg.log)]
    BY <2>1, ConcatProperties
  <2>3. \A i \in 1..len : i \in 1..(len + n) /\ i <= len
    BY <1>1
  <2>4. \A i \in 1..n : len + i \in 1..(len + n) /\ ~(len + i <= len) /\ (len + i) - len = i
    BY <1>1
  <2> QED BY <1>1, <1>6, <2>2, <2>3, <2>4
<1> DEFINE Reads(p, k) ==
      /\ p \in Pages
      /\ SameTable(p, pg) /\ SameCounts(p, pg) /\ SameStories(p, pg)
      /\ len <= max => EndsOf(p.log, all, len + k, max)
    Good == {k \in Nat : Reads(run[k], k)}
<1>8. 0 \in Good
  <2>1. len <= max => EndsOf(pg.log, all, len + 0, max)
    <3>1. IsList(pg.log)
      BY LenProperties DEF Pages, IsList
    <3>2. len + 0 = len /\ \A i \in 1..len : (len - len) + i = i
      BY <1>1
    <3> QED BY <1>1, <1>7, <3>1, <3>2 DEF EndsOf
  <2> QED BY <1>5, <2>1 DEF SameTable, SameCounts, SameStories
<1>9. ASSUME NEW k \in Nat, k < n, k \in Good
      PROVE  k + 1 \in Good
  <2>1. k + 1 \in 1..n /\ (k + 1) - 1 = k
    BY <1>9
  <2>2. PICK line \in Texts : line = lines[k + 1]
    BY <1>4, <2>1
  <2>3. PICK p : p = run[k] /\ Reads(p, k)
    BY <1>9
  <2>4. PICK q : q = AddLog(p, line)
    OBVIOUS
  <2>5. PICK msg : msg = [type |-> "log", line |-> line]
    OBVIOUS
  <2>6. OnMessage(p, msg) = q
    BY <2>4, <2>5 DEF OnMessage
  <2>7. run[k + 1] = q
    BY <1>3, <1>5, <2>1, <2>2, <2>3, <2>5, <2>6
  <2>8. /\ q \in Pages /\ q.log = Newest(Append(p.log, line), max)
        /\ SameTable(q, p) /\ SameCounts(q, p) /\ SameStories(q, p)
    BY <1>1, <2>3, <2>4, LineAdded
  <2>9. ASSUME len <= max
        PROVE  EndsOf(q.log, all, len + (k + 1), max)
    <3>1. PICK m \in Nat : m = len + k
      <4>1. len + k \in Nat
        BY <1>1, <1>9
      <4> QED BY <4>1
    <3>2. len + (k + 1) = m + 1
      <4>1. len \in Nat /\ k \in Nat
        BY <1>1, <1>9
      <4> QED BY <3>1, <4>1
    <3>3. all[m + 1] = line
      BY <1>7, <2>1, <2>2, <3>2
    <3>4. p.log \in Seq(Texts) /\ EndsOf(p.log, all, m, max)
      BY <2>3, <2>9, <3>1 DEF Pages
    <3>5. EndsOf(Newest(Append(p.log, line), max), all, m + 1, max)
      BY <1>1, <3>1, <3>3, <3>4, PushedIs
    <3> QED BY <2>8, <3>2, <3>5
  <2>10. Reads(q, k + 1)
    BY <2>3, <2>8, <2>9 DEF SameTable, SameCounts, SameStories
  <2> HIDE DEF Reads
  <2> QED BY <2>7, <2>10
<1>10. \A k \in 0..n : k \in Good
  <2> HIDE DEF Good
  <2> QED BY <1>8, <1>9, UpTo
<1>11. Reads(new, n)
  BY <1>1, <1>5, <1>10
<1>12. ASSUME len <= max
       PROVE  new.log = Newest(all, max)
  <2>1. Newest(all, max) \in Seq(Texts) /\ EndsOf(Newest(all, max), all, len + n, max)
    BY <1>1, <1>7, NewestIs
  <2>2. new.log \in Seq(Texts) /\ EndsOf(new.log, all, len + n, max)
    BY <1>11, <1>12 DEF Pages
  <2>3. len + n \in Nat /\ max \in Nat
    BY <1>1
  <2> QED BY <2>1, <2>2, <2>3, EndsAreEqual
<1> QED BY <1>1, <1>6, <1>11, <1>12

(* Two messages to read.                                                   *)
LEMMA AfterTwo ==
  ASSUME NEW pg, NEW first \in Messages, NEW second \in Messages
  PROVE  /\ <<first, second>> \in Seq(Messages)
         /\ After(pg, <<first, second>>) = OnMessage(OnMessage(pg, first), second)
<1>1. PICK both : both = <<first, second>>
  OBVIOUS
<1>2. both \in Seq(Messages) /\ both # <<>>
  BY <1>1
<1>3. Head(both) = first /\ Tail(both) = <<second>>
  BY <1>1
<1>4. After(OnMessage(pg, first), <<second>>) = After(pg, both)
  BY <1>2, <1>3, AfterHead
<1> QED BY <1>1, <1>2, <1>4, AfterOne

(***************************************************************************)
(* The inductive invariants.                                               *)
(***************************************************************************)
WebTyped ==
  /\ rows \in Seq(TableRows) /\ Len(rows) <= MaxRows
  /\ issuances \in Seq(Tokens) /\ Len(issuances) <= MaxRows
  /\ counts \in Counters
  /\ log_lines \in Seq(Texts) /\ Len(log_lines) <= MaxLog
  /\ opened \in [Browsers -> Nat]
  /\ online \in [Browsers -> BOOLEAN]
  /\ channel \in [Browsers -> Seq(Messages)]
  /\ page \in [Browsers -> Pages]
  /\ told \subseteq Tokens

(* A page that believes to be connected is one the server writes to: the   *)
(* server forgets only the sockets of connections that are gone.           *)
Linked ==
  \A b \in Browsers :
    /\ online[b] => Current(b) \in clients /\ opened[b] # 0
    /\ ~online[b] => channel[b] = <<>>

(* A page without a threshold has no rows yet, and reads a snapshot next.  *)
SliderInv ==
  \A b \in Browsers :
    /\ Applied(page[b])
    /\ page[b].simulatedThreshold = None =>
         /\ page[b].table = <<>>
         /\ online[b] => channel[b] # <<>>
         /\ channel[b] # <<>> => Head(channel[b]) \in Snapshots

CaughtUpInv ==
  \A b \in Browsers : online[b] => Agrees(After(page[b], channel[b]))

(* The timeline of a token when the page has read what was sent to it.     *)
StoryToBe(b, s) == After(page[b], channel[b]).storiesById[s]

NonRows(story) == DOMAIN story \ RowEvents(story)

IssuedOnce ==
  \A i, j \in DOMAIN issuances : issuances[i] = issuances[j] => i = j

(* Nothing anywhere is about a token nothing was recorded about.           *)
UntoldUnknown ==
  \A s \in Tokens \ told :
    /\ \A i \in DOMAIN rows : rows[i].story_id # s
    /\ \A i \in DOMAIN issuances : issuances[i] # s
    /\ \A b \in Browsers : StoryToBe(b, s) = <<>>

StoriesTold ==
  \A b \in Browsers : \A s \in Tokens :
    LET story == StoryToBe(b, s)
    IN  /\ (\E i \in DOMAIN issuances : issuances[i] = s) =>
             IF story = <<>> THEN ~online[b] ELSE story[1] = IssuanceEvent(s)
        /\ Cardinality(NonRows(story)) <= opened[b]
        /\ online[b] => EndsWithRows(story, s)

StoryInv == IssuedOnce /\ UntoldUnknown /\ StoriesTold

(***************************************************************************)
(* One call of record_*: what it sends, what the dashboard is then, and    *)
(* that a page which agreed with it agrees again when it has read that.    *)
(***************************************************************************)
ServerTyped ==
  /\ rows \in Seq(TableRows) /\ Len(rows) <= MaxRows
  /\ issuances \in Seq(Tokens) /\ Len(issuances) <= MaxRows
  /\ counts \in Counters
  /\ log_lines \in Seq(Texts) /\ Len(log_lines) <= MaxLog

(* Each page that reads msgs adds the event to the timeline of story.      *)
Adds(msgs, story, event) ==
  \A p \in Pages : \A s \in Tokens :
    After(p, msgs).storiesById[s] =
      IF s = story THEN Append(p.storiesById[s], event) ELSE p.storiesById[s]

KeepsUp(msgs) == \A p \in Pages : Agrees(p) => Agrees(After(p, msgs))'

(* The log of the dashboard stays as long as it may be.                    *)
LEMMA LinesKept ==
  ASSUME ServerTyped, NEW lines, lines \in Seq(Texts),
         log_lines' = Newest(log_lines \o lines, MaxLog)
  PROVE  log_lines' \in Seq(Texts) /\ Len(log_lines') <= MaxLog
<1>1. log_lines \o lines \in Seq(Texts)
  BY ConcatProperties DEF ServerTyped
<1>2. PICK all : all = log_lines \o lines
  OBVIOUS
<1>3. PICK n \in Nat, max \in Nat \ {0} : n = Len(all) /\ max = MaxLog
  BY <1>1, <1>2, LenProperties, WebAssumption
<1>4. log_lines' \in Seq(Texts) /\ EndsOf(log_lines', all, n, max)
  BY <1>1, <1>2, <1>3, NewestIs
<1> QED BY <1>3, <1>4 DEF EndsOf

(* A decision, or a block before the engine: rows, lines, one row message. *)
LEMMA RowRecorded ==
  ASSUME ServerTyped, NEW row \in TableRows, RecordRow(row),
         NEW lines, lines \in Seq(Texts),
         log_lines' = Newest(log_lines \o lines, MaxLog),
         NEW msgs, msgs = RowMessages(row) \o LogMessages(lines)
  PROVE  /\ ServerTyped' /\ msgs \in Seq(Messages) /\ KeepsUp(msgs)
         /\ rows' = PushedOn(rows, row) /\ UNCHANGED issuances
         /\ Adds(msgs, row.story_id, row)
<1>1. rows' = PushedOn(rows, row) /\ UNCHANGED issuances /\ counts' = Counted(row.outcome)
  BY DEF RecordRow
<1>2. /\ rows' = Newest(Append(rows, row), MaxRows)
      /\ rows' \in Seq(TableRows) /\ Len(rows') <= MaxRows
  BY <1>1, PushedOnIsNewest DEF ServerTyped
<1>3. counts' \in Counters /\ counts'.rate_limited = counts.rate_limited
  <2>1. PICK c \in Counters : c = counts
    BY DEF ServerTyped
  <2>2. PICK passed, blocked : /\ passed = IF row.outcome = "PASS" THEN c.passed + 1 ELSE c.passed
                               /\ blocked = IF row.outcome = "PASS" THEN c.blocked ELSE c.blocked + 1
    OBVIOUS
  <2>3. passed \in Nat /\ blocked \in Nat /\ c.total + 1 \in Nat
    BY <2>2 DEF Counters
  <2>4. counts' = [c EXCEPT !.total = c.total + 1, !.passed = passed, !.blocked = blocked]
    BY <1>1, <2>1, <2>2 DEF Counted, Counters
  <2> QED BY <2>1, <2>3, <2>4 DEF Counters
<1>4. ServerTyped'
  BY <1>1, <1>2, <1>3, LinesKept DEF ServerTyped
<1>5. PICK shown : shown = ShownCounts(counts')
  OBVIOUS
<1>6. shown \in ShownNumbers
  BY <1>3, <1>5 DEF ShownCounts, ShownNumbers, Counters
<1>7. PICK first, second : /\ first = [type |-> "counts", counts |-> shown]
                           /\ second = [type |-> "row", row |-> row]
  OBVIOUS
<1>8. first \in Messages /\ second \in Messages
  BY <1>6, <1>7 DEF Messages
<1>9. PICK both, logs : both = <<first, second>> /\ logs = LogMessages(lines)
  OBVIOUS
<1>10. /\ both \in Seq(Messages) /\ logs \in Seq(Messages)
       /\ \A p \in Pages : After(p, both) = OnMessage(OnMessage(p, first), second)
  BY <1>8, <1>9, AfterTwo, LogMessagesTyped
<1>11. msgs = both \o logs
  BY <1>5, <1>7, <1>9 DEF RowMessages
<1>12. msgs \in Seq(Messages)
  BY <1>10, <1>11, ConcatProperties
<1>13. ASSUME NEW p \in Pages
       PROVE  /\ \A s \in Tokens :
                   After(p, msgs).storiesById[s] =
                     IF s = row.story_id THEN Append(p.storiesById[s], row)
                                         ELSE p.storiesById[s]
              /\ Agrees(p) => Agrees(After(p, msgs))'
  <2>1. PICK counted : counted = [p EXCEPT !.counts = shown]
    OBVIOUS
  <2>2. OnMessage(p, first) = counted
    BY <1>7, <2>1 DEF OnMessage
  <2>3. /\ counted \in Pages /\ counted.counts = shown
        /\ counted.rate_limited = p.rate_limited
        /\ SameTable(counted, p) /\ SameLog(counted, p) /\ SameStories(counted, p)
    BY <1>6, <2>1 DEF Pages, SameTable, SameLog, SameStories
  <2>4. PICK tabled : tabled = AddRow(counted, row)
    OBVIOUS
  <2>5. /\ tabled \in Pages
        /\ Data(tabled.table) = Newest(Append(Data(counted.table), row), MaxRows)
        /\ SameLog(tabled, counted) /\ SameCounts(tabled, counted)
        /\ SameStories(tabled, counted)
    BY <2>3, <2>4, RowAdded, RowShown
  <2>6. PICK storied : storied = AddStoryEvent(tabled, row.story_id, row)
    OBVIOUS
  <2>7. /\ storied \in Pages
        /\ \A s \in Tokens :
             storied.storiesById[s] =
               IF s = row.story_id THEN Append(tabled.storiesById[s], row)
                                   ELSE tabled.storiesById[s]
        /\ SameTable(storied, tabled) /\ SameLog(storied, tabled)
        /\ SameCounts(storied, tabled)
    BY <2>5, <2>6, RowIsEvent, EventAdded
  <2>8. OnMessage(counted, second) = storied
    BY <1>7, <2>4, <2>6 DEF OnMessage, AddRowToStory
  <2>9. After(p, both) = storied
    BY <1>10, <2>2, <2>8
  <2>10. After(p, msgs) = After(storied, logs)
    BY <1>10, <1>11, <2>9, AfterConcat
  <2>11. PICK new : new = After(storied, logs)
    OBVIOUS
  <2>12. /\ SameTable(new, storied) /\ SameCounts(new, storied)
         /\ SameStories(new, storied)
         /\ Len(storied.log) <= MaxLog =>
              new.log = Newest(storied.log \o lines, MaxLog)
    BY <1>9, <2>7, <2>11, LinesSent
  <2>13. \A s \in Tokens :
           new.storiesById[s] = IF s = row.story_id THEN Append(p.storiesById[s], row)
                                                    ELSE p.storiesById[s]
    BY <2>3, <2>5, <2>7, <2>12 DEF SameStories
  <2>14. ASSUME Agrees(p)
         PROVE  Agrees(new)'
    <3>1. Data(p.table) = rows /\ p.log = log_lines
          /\ p.rate_limited = counts.rate_limited
      BY <2>14 DEF Agrees
    <3>2. Data(new.table) = rows'
      BY <1>2, <2>3, <2>5, <2>7, <2>12, <3>1 DEF SameTable
    <3>3. storied.log = log_lines
      BY <2>3, <2>5, <2>7, <3>1 DEF SameLog
    <3>4. new.log = log_lines'
      BY <2>12, <3>3 DEF ServerTyped
    <3>5. new.counts = shown /\ new.rate_limited = counts'.rate_limited
      BY <1>3, <2>3, <2>5, <2>7, <2>12, <3>1 DEF SameCounts
    <3> QED BY <1>5, <3>2, <3>4, <3>5 DEF Agrees
  <2> QED BY <2>10, <2>11, <2>13, <2>14
<1> QED BY <1>1, <1>4, <1>12, <1>13 DEF Adds, KeepsUp

(* An issuance is kept and sent.                                           *)
LEMMA IssuanceRecorded ==
  ASSUME ServerTyped, NEW s \in Tokens, RecordIssuance(s), UNCHANGED log_lines,
         NEW msgs, msgs = <<[type |-> "issuance", story_id |-> s]>>
  PROVE  /\ ServerTyped' /\ msgs \in Seq(Messages) /\ KeepsUp(msgs)
         /\ issuances' = PushedOn(issuances, s) /\ UNCHANGED rows
         /\ Adds(msgs, s, IssuanceEvent(s))
<1>1. issuances' = PushedOn(issuances, s) /\ UNCHANGED <<rows, counts>>
  BY DEF RecordIssuance
<1>2. issuances' \in Seq(Tokens) /\ Len(issuances') <= MaxRows
  BY <1>1, PushedOnIsNewest DEF ServerTyped
<1>3. ServerTyped'
  BY <1>1, <1>2 DEF ServerTyped
<1>4. PICK msg : msg = [type |-> "issuance", story_id |-> s]
  OBVIOUS
<1>5. msg \in Messages /\ msgs = <<msg>>
  BY <1>4 DEF Messages
<1>6. msgs \in Seq(Messages)
  BY <1>5
<1>7. ASSUME NEW p \in Pages
      PROVE  /\ \A t \in Tokens :
                  After(p, msgs).storiesById[t] =
                    IF t = s THEN Append(p.storiesById[t], IssuanceEvent(s))
                             ELSE p.storiesById[t]
             /\ Agrees(p) => Agrees(After(p, msgs))'
  <2>1. PICK new : new = OnMessage(p, msg)
    OBVIOUS
  <2>2. After(p, msgs) = new
    BY <1>5, <2>1, AfterOne
  <2>3. new = AddStoryEvent(p, s, IssuanceEvent(s))
    BY <1>4, <2>1 DEF OnMessage, AddIssuance
  <2>4. /\ \A t \in Tokens :
             new.storiesById[t] =
               IF t = s THEN Append(p.storiesById[t], IssuanceEvent(s))
                        ELSE p.storiesById[t]
        /\ SameTable(new, p) /\ SameLog(new, p) /\ SameCounts(new, p)
    BY <2>3, EventAdded, IssuanceIsEvent DEF Optional
  <2>5. Agrees(p) => Agrees(new)'
    BY <1>1, <2>4 DEF Agrees, SameTable, SameLog, SameCounts
  <2> QED BY <2>2, <2>4, <2>5
<1> QED BY <1>1, <1>3, <1>6, <1>7 DEF Adds, KeepsUp

(* A call that only counts, or does not even that.                         *)
LEMMA OtherRecorded ==
  ASSUME ServerTyped, UNCHANGED <<rows, issuances>>, counts' \in Counters,
         ShownCounts(counts') = ShownCounts(counts),
         NEW lines, lines \in Seq(Texts),
         log_lines' = Newest(log_lines \o lines, MaxLog),
         NEW first, first \in Seq(Messages),
         \A p \in Pages :
           /\ After(p, first) \in Pages
           /\ SameTable(After(p, first), p) /\ SameLog(After(p, first), p)
           /\ SameStories(After(p, first), p)
           /\ After(p, first).counts = p.counts
           /\ p.rate_limited = counts.rate_limited =>
                After(p, first).rate_limited = counts'.rate_limited,
         NEW msgs, msgs = first \o LogMessages(lines)
  PROVE  /\ ServerTyped' /\ msgs \in Seq(Messages) /\ KeepsUp(msgs)
         /\ Adds(msgs, None, None)
<1>1. ServerTyped'
  BY LinesKept DEF ServerTyped
<1>2. PICK logs : logs = LogMessages(lines)
  OBVIOUS
<1>3. logs \in Seq(Messages)
  BY <1>2, LogMessagesTyped
<1>4. msgs \in Seq(Messages)
  BY <1>2, <1>3, ConcatProperties
<1>5. ASSUME NEW p \in Pages
      PROVE  /\ \A t \in Tokens : After(p, msgs).storiesById[t] = p.storiesById[t]
             /\ Agrees(p) => Agrees(After(p, msgs))'
  <2>1. PICK q : q = After(p, first)
    OBVIOUS
  <2>2. /\ q \in Pages /\ SameTable(q, p) /\ SameLog(q, p) /\ SameStories(q, p)
        /\ q.counts = p.counts
        /\ p.rate_limited = counts.rate_limited => q.rate_limited = counts'.rate_limited
    BY <2>1
  <2>3. PICK new : new = After(q, logs)
    OBVIOUS
  <2>4. After(p, msgs) = new
    BY <1>2, <1>3, <2>1, <2>3, AfterConcat
  <2>5. /\ SameTable(new, q) /\ SameCounts(new, q) /\ SameStories(new, q)
        /\ Len(q.log) <= MaxLog => new.log = Newest(q.log \o lines, MaxLog)
    BY <1>2, <2>2, <2>3, LinesSent
  <2>6. ASSUME Agrees(p)
        PROVE  Agrees(new)'
    <3>1. /\ Data(p.table) = rows /\ p.log = log_lines
          /\ p.counts = ShownCounts(counts)
          /\ p.rate_limited = counts.rate_limited
      BY <2>6 DEF Agrees
    <3>2. Data(new.table) = rows'
      BY <2>2, <2>5, <3>1 DEF SameTable
    <3>3. new.log = log_lines'
      BY <2>2, <2>5, <3>1 DEF SameLog, ServerTyped
    <3>4. new.counts = ShownCounts(counts') /\ new.rate_limited = counts'.rate_limited
      BY <2>2, <2>5, <3>1 DEF SameCounts
    <3> QED BY <3>2, <3>3, <3>4 DEF Agrees
  <2>7. \A t \in Tokens : new.storiesById[t] = p.storiesById[t]
    BY <2>2, <2>5 DEF SameStories
  <2> QED BY <2>4, <2>6, <2>7
<1>6. None \notin Tokens
  BY NoneAssumption
<1> QED BY <1>1, <1>4, <1>5, <1>6 DEF Adds, KeepsUp

Sends(msgs) ==
  /\ msgs \in Seq(Messages)
  /\ channel' = [b \in Browsers |-> IF online[b] THEN channel[b] \o msgs ELSE channel[b]]
  /\ \A b \in Browsers : online[b] => Current(b) \in clients'
  /\ UNCHANGED <<opened, online, page>>

(* The three kinds of calls: about a request, an issuance, or neither.     *)
EventStep(msgs) ==
  /\ Sends(msgs) /\ ServerTyped' /\ KeepsUp(msgs)
  /\ \/ \E row \in TableRows :
          /\ rows' = PushedOn(rows, row) /\ UNCHANGED issuances
          /\ Adds(msgs, row.story_id, row)
          /\ told' = told \cup ({row.story_id} \ {None})
     \/ \E s \in Tokens :
          /\ s \notin told
          /\ issuances' = PushedOn(issuances, s) /\ UNCHANGED rows
          /\ Adds(msgs, s, IssuanceEvent(s))
          /\ told' = told \cup {s}
     \/ UNCHANGED <<rows, issuances, told>> /\ Adds(msgs, None, None)

(* Who is connected gets the messages, and nobody else gets any.           *)
LEMMA BroadcastSends ==
  ASSUME Linked, NEW story, NEW msgs, msgs \in Seq(Messages), Broadcast(story, msgs)
  PROVE  Sends(msgs) /\ told' = told \cup ({story} \ {None})
<1>1. \A b \in Browsers : Reaches(b) <=> online[b]
  BY DEF Linked, Reaches
<1>2. /\ channel' = [b \in Browsers |->
                       IF Reaches(b) THEN channel[b] \o msgs ELSE channel[b]]
      /\ UNCHANGED <<opened, online, page>>
      /\ told' = told \cup ({story} \ {None})
  BY DEF Broadcast
<1>3. channel' = [b \in Browsers |->
                    IF online[b] THEN channel[b] \o msgs ELSE channel[b]]
  BY <1>1, <1>2
<1>4. PICK raising : raising \subseteq Stale /\ clients' = clients \ raising
  BY DEF Broadcast
<1>5. \A b \in Browsers : online[b] => Current(b) \in clients'
  <2>1. \A b \in Browsers : Current(b)[1] = b
    BY DEF Current
  <2>2. \A b \in Browsers : online[b] => Current(b) \notin Stale
    BY <2>1 DEF Stale
  <2> QED BY <1>4, <2>2 DEF Linked
<1> QED BY <1>2, <1>3, <1>5 DEF Sends

(* record_decision is such an event.                                       *)
LEMMA DecisionStep ==
  ASSUME WebTyped, Linked, NEW use \in Uses, ShowDecision(use)
  PROVE  \E msgs : EventStep(msgs)
<1>1. ServerTyped
  BY DEF WebTyped, ServerTyped
<1>2. PICK d : d = DecisionOn(use)
  OBVIOUS
<1>3. d.outcome \in Outcomes /\ d.reason \in Texts /\ d.risk \in Nat
  <2>1. Risk(use.binding, use.source_ip, use.ja4h) \in Nat
    BY PolicyAssumption DEF AcceptedPolicy, Risk
  <2>2. PICK reason \in Texts :
          reason = Reason(use.binding, use.ja4, use.dpop, use.source_ip, use.ja4h)
    BY DEF Reason, Texts
  <2>3. d = [outcome |-> IF reason = "ok" THEN "PASS" ELSE "BLOCK", reason |-> reason,
             risk |-> Risk(use.binding, use.source_ip, use.ja4h)]
    BY <1>2, <2>2 DEF DecisionOn, Evaluate
  <2> QED BY <2>1, <2>2, <2>3 DEF Outcomes
<1>4. PICK row : row = Row(d.outcome, d.reason, d.risk, use.story)
  OBVIOUS
<1>5. row \in TableRows /\ row.story_id = use.story
  BY <1>3, <1>4, WebAssumption DEF Row, TableRows, Optional
<1>6. RecordRow(row)
  BY <1>2, <1>4 DEF ShowDecision, RecordDecision
<1>7. PICK lines \in {<<d.reason>>, <<d.reason, "JA4 diff">>} :
        BroadcastAndLog(use.story, RowMessages(row), lines)
  BY <1>2, <1>4 DEF ShowDecision
<1>8. lines \in Seq(Texts)
  <2>1. "JA4 diff" \in Texts
    BY DEF Texts
  <2>2. <<d.reason>> \in Seq(Texts) /\ <<d.reason, "JA4 diff">> \in Seq(Texts)
    BY <1>3, <2>1, ShortLists
  <2> QED BY <1>7, <2>2
<1>9. PICK msgs : msgs = RowMessages(row) \o LogMessages(lines)
  OBVIOUS
<1>10. log_lines' = Newest(log_lines \o lines, MaxLog) /\ Broadcast(use.story, msgs)
  BY <1>7, <1>9 DEF BroadcastAndLog
<1>11. /\ ServerTyped' /\ msgs \in Seq(Messages) /\ KeepsUp(msgs)
       /\ rows' = PushedOn(rows, row) /\ UNCHANGED issuances
       /\ Adds(msgs, row.story_id, row)
  BY <1>1, <1>5, <1>6, <1>8, <1>9, <1>10, RowRecorded
<1>12. Sends(msgs) /\ told' = told \cup ({row.story_id} \ {None})
  BY <1>5, <1>10, <1>11, BroadcastSends
<1>13. EventStep(msgs)
  BY <1>5, <1>11, <1>12 DEF EventStep
<1> QED BY <1>13

(* So is record_raw_block,                                                 *)
LEMMA RawBlockStep ==
  ASSUME WebTyped, Linked, NEW reason \in Texts, NEW story \in Optional(Tokens),
         ShowRawBlock(reason, story)
  PROVE  \E msgs : EventStep(msgs)
<1>1. ServerTyped
  BY DEF WebTyped, ServerTyped
<1>2. PICK row : row = Row("BLOCK", reason, None, story)
  OBVIOUS
<1>3. row \in TableRows /\ row.story_id = story
  BY <1>2 DEF Row, TableRows, Optional, Outcomes
<1>4. RecordRow(row)
  BY <1>2 DEF ShowRawBlock, RecordRawBlock
<1>5. PICK lines : lines = <<reason>>
  OBVIOUS
<1>6. lines \in Seq(Texts)
  BY <1>5, ShortLists
<1>7. PICK msgs : msgs = RowMessages(row) \o LogMessages(lines)
  OBVIOUS
<1>8. log_lines' = Newest(log_lines \o lines, MaxLog) /\ Broadcast(story, msgs)
  BY <1>2, <1>5, <1>7 DEF ShowRawBlock, BroadcastAndLog
<1>9. /\ ServerTyped' /\ msgs \in Seq(Messages) /\ KeepsUp(msgs)
      /\ rows' = PushedOn(rows, row) /\ UNCHANGED issuances
      /\ Adds(msgs, row.story_id, row)
  BY <1>1, <1>3, <1>4, <1>6, <1>7, <1>8, RowRecorded
<1>10. Sends(msgs) /\ told' = told \cup ({row.story_id} \ {None})
  BY <1>3, <1>8, <1>9, BroadcastSends
<1>11. EventStep(msgs)
  BY <1>3, <1>9, <1>10 DEF EventStep
<1> QED BY <1>11

(* and record_issuance,                                                    *)
LEMMA IssuanceStep ==
  ASSUME WebTyped, Linked, NEW s \in Tokens, ShowIssuance(s)
  PROVE  \E msgs : EventStep(msgs)
<1>1. ServerTyped
  BY DEF WebTyped, ServerTyped
<1>2. PICK msgs : msgs = <<[type |-> "issuance", story_id |-> s]>>
  OBVIOUS
<1>3. s \notin told /\ RecordIssuance(s) /\ UNCHANGED log_lines /\ Broadcast(s, msgs)
  BY <1>2 DEF ShowIssuance
<1>4. /\ ServerTyped' /\ msgs \in Seq(Messages) /\ KeepsUp(msgs)
      /\ issuances' = PushedOn(issuances, s) /\ UNCHANGED rows
      /\ Adds(msgs, s, IssuanceEvent(s))
  BY <1>1, <1>2, <1>3, IssuanceRecorded
<1>5. {s} \ {None} = {s}
  BY NoneAssumption
<1>6. Sends(msgs) /\ told' = told \cup {s}
  BY <1>3, <1>4, <1>5, BroadcastSends
<1>7. EventStep(msgs)
  BY <1>3, <1>4, <1>6 DEF EventStep
<1> QED BY <1>7

(* and record_rate_limited,                                                *)
LEMMA RateLimitedStep ==
  ASSUME WebTyped, Linked, ShowRateLimited
  PROVE  \E msgs : EventStep(msgs)
<1>1. ServerTyped
  BY DEF WebTyped, ServerTyped
<1>2. /\ UNCHANGED <<rows, issuances>> /\ counts' \in Counters
      /\ ShownCounts(counts') = ShownCounts(counts)
  <2>1. PICK c \in Counters : c = counts
    BY <1>1 DEF ServerTyped
  <2>2. /\ UNCHANGED <<rows, issuances>>
        /\ counts' = [c EXCEPT !.rate_limited = c.rate_limited + 1]
    BY <2>1 DEF ShowRateLimited, RecordRateLimited
  <2> QED BY <2>1, <2>2 DEF Counters, ShownCounts
<1>3. PICK total, lines : total = counts'.rate_limited /\ lines = <<"RATE LIMITED">>
  OBVIOUS
<1>4. total \in Nat /\ lines \in Seq(Texts)
  <2>1. "RATE LIMITED" \in Texts
    BY DEF Texts
  <2> QED BY <1>2, <1>3, <2>1, ShortLists DEF Counters
<1>5. PICK msg : msg = [type |-> "rate_limited", total |-> total]
  OBVIOUS
<1>6. PICK first : first = <<msg>>
  OBVIOUS
<1>7. first \in Seq(Messages)
  BY <1>4, <1>5, <1>6 DEF Messages
<1>8. ASSUME NEW p \in Pages
      PROVE  /\ After(p, first) \in Pages
             /\ SameTable(After(p, first), p) /\ SameLog(After(p, first), p)
             /\ SameStories(After(p, first), p)
             /\ After(p, first).counts = p.counts
             /\ After(p, first).rate_limited = counts'.rate_limited
  <2>1. After(p, first) = OnMessage(p, msg)
    BY <1>6, AfterOne
  <2>2. msg.type = "rate_limited" /\ msg.total = total
    BY <1>5
  <2>3. OnMessage(p, msg) = [p EXCEPT !.rate_limited = total]
    BY <2>2 DEF OnMessage
  <2> QED BY <1>3, <1>4, <2>1, <2>3 DEF Pages, SameTable, SameLog, SameStories
<1>9. PICK msgs : msgs = first \o LogMessages(lines)
  OBVIOUS
<1>10. log_lines' = Newest(log_lines \o lines, MaxLog) /\ Broadcast(None, msgs)
  BY <1>3, <1>5, <1>6, <1>9 DEF ShowRateLimited, BroadcastAndLog
<1>11. /\ ServerTyped' /\ msgs \in Seq(Messages) /\ KeepsUp(msgs)
       /\ Adds(msgs, None, None)
  BY <1>1, <1>2, <1>4, <1>7, <1>8, <1>9, <1>10, OtherRecorded
<1>12. Sends(msgs) /\ told' = told \cup ({None} \ {None})
  BY <1>10, <1>11, BroadcastSends
<1>13. EventStep(msgs)
  BY <1>2, <1>11, <1>12 DEF EventStep
<1> QED BY <1>13

(* and record_challenge_issued, which changes no counter a page shows,     *)
LEMMA ChallengeIssuedStep ==
  ASSUME WebTyped, Linked, ShowChallengeIssued
  PROVE  \E msgs : EventStep(msgs)
<1>1. ServerTyped
  BY DEF WebTyped, ServerTyped
<1>2. /\ UNCHANGED <<rows, issuances>> /\ counts' \in Counters
      /\ ShownCounts(counts') = ShownCounts(counts)
      /\ counts'.rate_limited = counts.rate_limited
  <2>1. PICK c \in Counters : c = counts
    BY <1>1 DEF ServerTyped
  <2>2. /\ UNCHANGED <<rows, issuances>>
        /\ counts' = [c EXCEPT !.challenges_issued = c.challenges_issued + 1]
    BY <2>1 DEF ShowChallengeIssued, RecordChallengeIssued
  <2> QED BY <2>1, <2>2 DEF Counters, ShownCounts
<1>3. PICK lines : lines = <<"CHALLENGE issued">>
  OBVIOUS
<1>4. lines \in Seq(Texts)
  <2>1. "CHALLENGE issued" \in Texts
    BY DEF Texts
  <2> QED BY <1>3, <2>1, ShortLists
<1>5. PICK msg : msg = [type |-> "challenge_issued"]
  OBVIOUS
<1>6. PICK first : first = <<msg>>
  OBVIOUS
<1>7. first \in Seq(Messages)
  BY <1>5, <1>6 DEF Messages
<1>8. \A p \in Pages : After(p, first) = p
  BY <1>5, <1>6, AfterOne DEF OnMessage
<1>9. PICK msgs : msgs = first \o LogMessages(lines)
  OBVIOUS
<1>10. log_lines' = Newest(log_lines \o lines, MaxLog) /\ Broadcast(None, msgs)
  BY <1>3, <1>5, <1>6, <1>9 DEF ShowChallengeIssued, BroadcastAndLog
<1>11. /\ ServerTyped' /\ msgs \in Seq(Messages) /\ KeepsUp(msgs)
       /\ Adds(msgs, None, None)
  <2>1. \A p \in Pages :
          /\ After(p, first) \in Pages
          /\ SameTable(After(p, first), p) /\ SameLog(After(p, first), p)
          /\ SameStories(After(p, first), p)
          /\ After(p, first).counts = p.counts
          /\ p.rate_limited = counts.rate_limited =>
               After(p, first).rate_limited = counts'.rate_limited
    BY <1>2, <1>8 DEF SameTable, SameLog, SameStories
  <2> QED BY <1>1, <1>2, <1>4, <1>7, <1>9, <1>10, <2>1, OtherRecorded
<1>12. Sends(msgs) /\ told' = told \cup ({None} \ {None})
  BY <1>10, <1>11, BroadcastSends
<1>13. EventStep(msgs)
  BY <1>2, <1>11, <1>12 DEF EventStep
<1> QED BY <1>13

(* and a line that is logged.                                              *)
LEMMA LineStep ==
  ASSUME WebTyped, Linked, NEW line \in Texts, ShowLine(line)
  PROVE  \E msgs : EventStep(msgs)
<1>1. ServerTyped
  BY DEF WebTyped, ServerTyped
<1>2. UNCHANGED <<rows, issuances, counts>> /\ counts' \in Counters
  BY <1>1 DEF ShowLine, dashboardVars, ServerTyped
<1>3. PICK lines : lines = <<line>>
  OBVIOUS
<1>4. lines \in Seq(Texts)
  BY <1>3, ShortLists
<1>5. PICK first : first = <<>>
  OBVIOUS
<1>6. first \in Seq(Messages)
  BY <1>5
<1>7. \A p \in Pages : After(p, first) = p
  BY <1>5, AfterNone
<1>8. PICK msgs : msgs = first \o LogMessages(lines)
  OBVIOUS
<1>9. log_lines' = Newest(log_lines \o lines, MaxLog) /\ Broadcast(None, msgs)
  BY <1>3, <1>5, <1>8 DEF ShowLine, BroadcastAndLog
<1>10. /\ ServerTyped' /\ msgs \in Seq(Messages) /\ KeepsUp(msgs)
       /\ Adds(msgs, None, None)
  <2>1. \A p \in Pages :
          /\ After(p, first) \in Pages
          /\ SameTable(After(p, first), p) /\ SameLog(After(p, first), p)
          /\ SameStories(After(p, first), p)
          /\ After(p, first).counts = p.counts
          /\ p.rate_limited = counts.rate_limited =>
               After(p, first).rate_limited = counts'.rate_limited
    BY <1>2, <1>7 DEF SameTable, SameLog, SameStories
  <2>2. ShownCounts(counts') = ShownCounts(counts)
    BY <1>2
  <2> QED BY <1>1, <1>2, <1>4, <1>6, <1>8, <1>9, <2>1, <2>2, OtherRecorded
<1>11. Sends(msgs) /\ told' = told \cup ({None} \ {None})
  BY <1>9, <1>10, BroadcastSends
<1>12. EventStep(msgs)
  BY <1>2, <1>10, <1>11 DEF EventStep
<1> QED BY <1>12

(***************************************************************************)
(* The steps, the calls of record_* taken together.                        *)
(***************************************************************************)
PageStep(b) ==
  Open(b) \/ Deliver(b) \/ Break(b) \/ \E threshold \in SliderPositions : Drag(b, threshold)

StepKinds ==
  \/ \E msgs : EventStep(msgs)
  \/ \E s \in clients : OnClose(s)
  \/ \E b \in Browsers : PageStep(b)
  \/ ProxyRestarts
  \/ UNCHANGED webVars

(* A step is an event, the close of a socket, of a page, a restart, or     *)
(* none.                                                                   *)
LEMMA StepIsOf ==
  ASSUME WebTyped, Linked, [WebNext]_webVars
  PROVE  StepKinds
<1>1. ASSUME NEW use \in Uses, ShowDecision(use)
      PROVE  StepKinds
  BY <1>1, DecisionStep DEF StepKinds
<1>2. ASSUME NEW story \in Optional(Tokens), ShowRawBlock("missing DPoP proof", story)
      PROVE  StepKinds
  <2>1. PICK reason \in Texts : reason = "missing DPoP proof"
    BY DEF Texts
  <2>2. ShowRawBlock(reason, story)
    BY <1>2, <2>1
  <2>3. \E msgs : EventStep(msgs)
    BY <2>2, RawBlockStep
  <2> QED BY <2>3 DEF StepKinds
<1>3. ASSUME NEW story \in Tokens, ShowIssuance(story)
      PROVE  StepKinds
  BY <1>3, IssuanceStep DEF StepKinds
<1>4. ASSUME ShowRateLimited
      PROVE  StepKinds
  BY <1>4, RateLimitedStep DEF StepKinds
<1>5. ASSUME ShowChallengeIssued
      PROVE  StepKinds
  BY <1>5, ChallengeIssuedStep DEF StepKinds
<1>6. ASSUME ShowLine("tls_clienthello")
      PROVE  StepKinds
  <2>1. PICK line \in Texts : line = "tls_clienthello"
    BY DEF Texts
  <2>2. ShowLine(line)
    BY <1>6, <2>1
  <2>3. \E msgs : EventStep(msgs)
    BY <2>2, LineStep
  <2> QED BY <2>3 DEF StepKinds
<1>7. CASE \E s \in clients : OnClose(s)
  BY <1>7 DEF StepKinds
<1>8. CASE \E b \in Browsers : PageStep(b)
  BY <1>8 DEF StepKinds
<1>9. CASE ProxyRestarts \/ UNCHANGED webVars
  BY <1>9 DEF StepKinds
<1> QED BY <1>1, <1>2, <1>3, <1>4, <1>5, <1>6, <1>7, <1>8, <1>9 DEF WebNext, PageStep

(* The snapshot is one of the messages.                                    *)
LEMMA SnapshotTyped ==
  ASSUME WebTyped
  PROVE  /\ Snapshot \in Snapshots /\ Snapshot \in Messages
         /\ <<Snapshot>> \in Seq(Messages)
<1>1. ShownCounts(counts) \in ShownNumbers /\ counts.rate_limited \in Nat
  BY DEF WebTyped, Counters, ShownCounts, ShownNumbers
<1>2. RiskThreshold \in Nat
  BY PolicyAssumption DEF AcceptedPolicy
<1>3. Snapshot \in Snapshots
  BY <1>1, <1>2 DEF Snapshot, Snapshots, WebTyped
<1>4. Snapshot \in Messages
  BY <1>3 DEF Messages
<1> QED BY <1>3, <1>4

(* Types and sockets at the start.                                         *)
LEMMA WebInitTyped ==
  WebInit => WebTyped /\ Linked
<1> SUFFICES ASSUME WebInit PROVE WebTyped /\ Linked
  OBVIOUS
<1>1. EmptyPage \in Pages
  BY DEF EmptyPage, NoCounts, Pages, ShownNumbers, Optional
<1>2. /\ rows = <<>> /\ issuances = <<>> /\ log_lines = <<>> /\ counts \in Counters
      /\ Len(rows) = 0 /\ Len(issuances) = 0 /\ Len(log_lines) = 0
  BY DEF WebInit, DashboardInit, Counters
<1>3. 0 <= MaxRows /\ 0 <= MaxLog
  BY MaxRowsAssumption, WebAssumption
<1>4. /\ opened \in [Browsers -> Nat] /\ online \in [Browsers -> BOOLEAN]
      /\ channel \in [Browsers -> Seq(Messages)] /\ page \in [Browsers -> Pages]
      /\ told \subseteq Tokens
  BY <1>1 DEF WebInit
<1>5. WebTyped
  BY <1>2, <1>3, <1>4 DEF WebTyped
<1>6. Linked
  BY DEF WebInit, Linked
<1> QED BY <1>5, <1>6

(* Types and sockets after an event.                                       *)
LEMMA EventTyped ==
  ASSUME WebTyped, Linked, NEW msgs, EventStep(msgs)
  PROVE  WebTyped' /\ Linked'
<1>1. /\ msgs \in Seq(Messages) /\ UNCHANGED <<opened, online, page>>
      /\ channel' = [b \in Browsers |-> IF online[b] THEN channel[b] \o msgs ELSE channel[b]]
      /\ \A b \in Browsers : online[b] => Current(b) \in clients'
  BY DEF EventStep, Sends
<1>2. \A b \in Browsers : channel[b] \in Seq(Messages) /\ channel[b] \o msgs \in Seq(Messages)
  BY <1>1, ConcatProperties DEF WebTyped
<1>3. channel' \in [Browsers -> Seq(Messages)]
  BY <1>1, <1>2
<1>4. told' \subseteq Tokens
  BY DEF EventStep, WebTyped, TableRows, Optional
<1>5. ServerTyped'
  BY DEF EventStep
<1>6. WebTyped'
  BY <1>1, <1>3, <1>4, <1>5 DEF WebTyped, ServerTyped
<1>7. ASSUME NEW b \in Browsers
      PROVE  /\ online'[b] => Current(b)' \in clients' /\ opened'[b] # 0
             /\ ~online'[b] => channel'[b] = <<>>
  BY <1>1 DEF Linked, Current
<1>8. Linked'
  BY <1>7 DEF Linked
<1> QED BY <1>6, <1>8

(* After a page has connected, which sends it the snapshot.                *)
LEMMA OpenTyped ==
  ASSUME WebTyped, Linked, NEW b \in Browsers, Open(b)
  PROVE  WebTyped' /\ Linked'
<1>1. /\ opened' = [opened EXCEPT ![b] = @ + 1]
      /\ online' = [online EXCEPT ![b] = TRUE]
      /\ clients' = clients \cup {Current(b)'}
      /\ channel' = [channel EXCEPT ![b] = <<Snapshot>>]
      /\ UNCHANGED <<rows, issuances, counts, log_lines, page, told>>
  BY DEF Open, dashboardVars
<1>2. WebTyped'
  <2>1. channel' \in [Browsers -> Seq(Messages)]
    BY <1>1, SnapshotTyped DEF WebTyped
  <2>2. opened' \in [Browsers -> Nat] /\ online' \in [Browsers -> BOOLEAN]
    BY <1>1 DEF WebTyped
  <2> QED BY <1>1, <2>1, <2>2 DEF WebTyped
<1>3. ASSUME NEW c \in Browsers
      PROVE  /\ online'[c] => Current(c)' \in clients' /\ opened'[c] # 0
             /\ ~online'[c] => channel'[c] = <<>>
  <2>1. CASE c = b
    BY <1>1, <2>1 DEF WebTyped
  <2>2. CASE c # b
    BY <1>1, <2>2 DEF WebTyped, Linked, Current
  <2> QED BY <2>1, <2>2
<1>4. Linked'
  BY <1>3 DEF Linked
<1> QED BY <1>2, <1>4

(* After a page has read a message: it ends where it would have ended.     *)
LEMMA DeliverTyped ==
  ASSUME WebTyped, Linked, NEW b \in Browsers, Deliver(b)
  PROVE  /\ WebTyped' /\ Linked'
         /\ Head(channel[b]) \in Messages
         /\ page'[b] = OnMessage(page[b], Head(channel[b]))
         /\ After(page'[b], channel'[b]) = After(page[b], channel[b])
         /\ \A c \in Browsers : c # b => page'[c] = page[c] /\ channel'[c] = channel[c]
         /\ UNCHANGED <<rows, issuances, counts, log_lines, opened, online, told>>
<1>1. /\ online[b] /\ channel[b] # <<>>
      /\ page' = [page EXCEPT ![b] = OnMessage(@, Head(channel[b]))]
      /\ channel' = [channel EXCEPT ![b] = Tail(@)]
      /\ UNCHANGED <<rows, issuances, counts, log_lines, clients, opened, online, told>>
  BY DEF Deliver, serverVars, dashboardVars
<1>2. /\ channel[b] \in Seq(Messages) /\ page[b] \in Pages
      /\ page'[b] = OnMessage(page[b], Head(channel[b]))
      /\ channel'[b] = Tail(channel[b])
      /\ \A c \in Browsers : c # b => page'[c] = page[c] /\ channel'[c] = channel[c]
  BY <1>1 DEF WebTyped
<1>3. Head(channel[b]) \in Messages /\ Tail(channel[b]) \in Seq(Messages)
  BY <1>1, <1>2, HeadTailProperties
<1>4. OnMessage(page[b], Head(channel[b])) \in Pages
  BY <1>2, <1>3, MessageRead
<1>5. WebTyped'
  BY <1>1, <1>3, <1>4 DEF WebTyped
<1>6. Linked'
  BY <1>1, <1>2 DEF Linked, Current
<1>7. After(page'[b], channel'[b]) = After(page[b], channel[b])
  BY <1>1, <1>2, AfterHead
<1> QED BY <1>1, <1>2, <1>3, <1>5, <1>6, <1>7

(* After a connection has broken.                                          *)
LEMMA BreakTyped ==
  ASSUME WebTyped, Linked, NEW b \in Browsers, Break(b)
  PROVE  WebTyped' /\ Linked'
<1>1. /\ online' = [online EXCEPT ![b] = FALSE]
      /\ channel' = [channel EXCEPT ![b] = <<>>]
      /\ UNCHANGED <<rows, issuances, counts, log_lines, clients, opened, page, told>>
  BY DEF Break, serverVars, dashboardVars
<1>2. WebTyped'
  BY <1>1 DEF WebTyped
<1>3. Linked'
  BY <1>1 DEF WebTyped, Linked, Current
<1> QED BY <1>2, <1>3

(* After the slider was dragged: only the cells of that page change.       *)
LEMMA DragTyped ==
  ASSUME WebTyped, Linked, NEW b \in Browsers, NEW threshold \in SliderPositions,
         Drag(b, threshold)
  PROVE  /\ WebTyped' /\ Linked'
         /\ Applied(page'[b]) /\ page'[b].simulatedThreshold # None
         /\ Alike(page'[b], page[b])
         /\ \A c \in Browsers : c # b => page'[c] = page[c]
         /\ UNCHANGED <<rows, issuances, counts, log_lines, opened, online, channel, told>>
<1>1. /\ page' = [page EXCEPT
           ![b].simulatedThreshold = threshold,
           ![b].table = [i \in DOMAIN @ |-> ApplyThreshold(@[i].data, threshold)]]
      /\ UNCHANGED <<rows, issuances, counts, log_lines, clients, opened, online, channel, told>>
  BY DEF Drag, serverVars, dashboardVars
<1>2. PICK old \in Pages : old = page[b]
  BY DEF WebTyped
<1>3. old.table \in Seq(Cells)
  BY DEF Pages, Cells
<1>4. PICK n \in Nat : n = Len(old.table) /\ DOMAIN old.table = 1..n
  BY <1>3, LenProperties
<1>5. PICK table : table = [i \in 1..n |-> ApplyThreshold(old.table[i].data, threshold)]
  OBVIOUS
<1>6. \A i \in 1..n : /\ old.table[i].data \in TableRows
                      /\ ApplyThreshold(old.table[i].data, threshold) \in Cells
                      /\ ApplyThreshold(old.table[i].data, threshold).data = old.table[i].data
  <2> SUFFICES ASSUME NEW i \in 1..n
               PROVE  /\ old.table[i].data \in TableRows
                      /\ ApplyThreshold(old.table[i].data, threshold) \in Cells
                      /\ ApplyThreshold(old.table[i].data, threshold).data = old.table[i].data
    OBVIOUS
  <2>1. old.table[i].data \in TableRows
    <3>1. old.table[i] \in Cells
      BY <1>3, <1>4, ElementOfSeq
    <3> QED BY <3>1 DEF Cells
  <2>2. PICK row \in TableRows : row = old.table[i].data
    BY <2>1
  <2> QED BY <2>2 DEF ApplyThreshold, SimulateOutcome, TableRows, Outcomes, Cells
<1>7. table \in Seq(Cells)
  BY <1>5, <1>6, IsASeq
<1>8. page'[b] = [old EXCEPT !.simulatedThreshold = threshold, !.table = table]
  <2>1. page \in [Browsers -> Pages]
    BY DEF WebTyped
  <2> QED BY <1>1, <1>2, <1>4, <1>5, <2>1 DEF Pages
<1>9. threshold \in Nat /\ threshold # None
  BY WebAssumption
<1>10. page'[b] \in Pages
  BY <1>7, <1>8, <1>9 DEF Pages, Cells, Optional
<1>11. /\ page'[b].table = table /\ page'[b].simulatedThreshold = threshold
       /\ SameLog(page'[b], old) /\ SameCounts(page'[b], old) /\ SameStories(page'[b], old)
  BY <1>8 DEF Pages, SameLog, SameCounts, SameStories
<1>12. \A c \in Browsers : c # b => page'[c] = page[c]
  BY <1>1 DEF WebTyped
<1>13. WebTyped'
  <2>1. page' = [page EXCEPT ![b] = page'[b]]
    BY <1>1 DEF WebTyped
  <2> QED BY <1>1, <1>10, <2>1 DEF WebTyped
<1>14. Linked'
  BY <1>1 DEF Linked, Current
<1>15. Applied(page'[b])
  BY <1>5, <1>6, <1>11 DEF Applied
<1>16. Data(table) = Data(old.table)
  BY <1>4, <1>5, <1>6 DEF Data
<1>17. Alike(page'[b], old)
  BY <1>11, <1>16 DEF Alike
<1> QED BY <1>1, <1>2, <1>9, <1>11, <1>12, <1>13, <1>14, <1>15, <1>17

(* After the proxy has restarted.                                          *)
LEMMA RestartTyped ==
  ASSUME WebTyped, Linked, ProxyRestarts
  PROVE  WebTyped' /\ Linked'
<1>1. /\ rows' = <<>> /\ issuances' = <<>> /\ log_lines' = <<>>
      /\ Len(rows') = 0 /\ Len(issuances') = 0 /\ Len(log_lines') = 0
      /\ counts' \in Counters
      /\ online' = [c \in Browsers |-> FALSE]
      /\ channel' = [c \in Browsers |-> <<>>]
      /\ UNCHANGED <<opened, page, told>>
  BY DEF ProxyRestarts, WebTyped, Counters
<1>2. 0 <= MaxRows /\ 0 <= MaxLog
  BY MaxRowsAssumption, WebAssumption
<1>3. WebTyped'
  BY <1>1, <1>2 DEF WebTyped
<1>4. Linked'
  BY <1>1 DEF Linked
<1> QED BY <1>3, <1>4

(* Types and sockets are kept by every step.                               *)
LEMMA WebStepTyped ==
  ASSUME WebTyped, Linked, [WebNext]_webVars
  PROVE  WebTyped' /\ Linked'
<1>1. CASE \E msgs : EventStep(msgs)
  BY <1>1, EventTyped
<1>2. CASE \E s \in clients : OnClose(s)
  <2>1. PICK s \in clients : OnClose(s)
    BY <1>2
  <2>2. /\ s \in Stale /\ clients' = clients \ {s}
        /\ UNCHANGED <<rows, issuances, counts, log_lines, opened, online, channel, page, told>>
    BY <2>1 DEF OnClose, dashboardVars, browserVars
  <2>3. \A b \in Browsers : online[b] => Current(b) # s
    BY <2>2 DEF Stale, Current
  <2>4. WebTyped'
    BY <2>2 DEF WebTyped
  <2>5. Linked'
    BY <2>2, <2>3 DEF Linked, Current
  <2> QED BY <2>4, <2>5
<1>3. CASE \E b \in Browsers : PageStep(b)
  BY <1>3, OpenTyped, DeliverTyped, BreakTyped, DragTyped DEF PageStep
<1>4. CASE ProxyRestarts
  BY <1>4, RestartTyped
<1>5. CASE UNCHANGED webVars
  <2>1. UNCHANGED <<rows, issuances, counts, log_lines, clients, opened, online,
                    channel, page, told>>
    BY <1>5 DEF webVars, serverVars, browserVars, dashboardVars
  <2>2. WebTyped'
    BY <2>1 DEF WebTyped
  <2>3. Linked'
    BY <2>1 DEF Linked, Current
  <2> QED BY <2>2, <2>3
<1> QED BY <1>1, <1>2, <1>3, <1>4, <1>5, StepIsOf DEF StepKinds

(* What is kept, sent and shown is of the right shape, and the server      *)
(* writes to every page that believes to be connected.                     *)
THEOREM WebTypes == WebSpec => [](WebTyped /\ Linked)
<1>1. WebTyped /\ Linked /\ [WebNext]_webVars => (WebTyped /\ Linked)'
  BY WebStepTyped
<1> QED BY <1>1, WebInitTyped, PTL DEF WebSpec

(***************************************************************************)
(* The slider.                                                             *)
(***************************************************************************)
LEMMA HeadOfConcat ==
  ASSUME NEW S, NEW first, first \in Seq(S), first # <<>>, NEW more, more \in Seq(S)
  PROVE  first \o more # <<>> /\ Head(first \o more) = Head(first)
<1>1. PICK n \in Nat : n = Len(first) /\ n # 0
  BY LenProperties, EmptySeq
<1>2. PICK m \in Nat : m = Len(more)
  BY LenProperties
<1>3. PICK all : all = first \o more
  OBVIOUS
<1>4. all \in Seq(S) /\ Len(all) = n + m /\ all[1] = first[1]
  <2>1. /\ first \o more \in Seq(S)
        /\ Len(first \o more) = Len(first) + Len(more)
        /\ \A i \in 1..(Len(first) + Len(more)) :
             (first \o more)[i] = IF i <= Len(first) THEN first[i]
                                  ELSE more[i - Len(first)]
    BY ConcatProperties
  <2>2. 1 \in 1..(n + m) /\ 1 <= n
    BY <1>1, <1>2
  <2> QED BY <1>1, <1>2, <1>3, <2>1, <2>2
<1>5. n + m # 0
  BY <1>1, <1>2
<1>6. all # <<>>
  BY <1>4, <1>5
<1>7. Head(all) = all[1] /\ Head(first) = first[1]
  BY <1>4, <1>6, HeadTailProperties
<1> QED BY <1>3, <1>4, <1>6, <1>7

SliderOf(b) ==
  /\ Applied(page[b])
  /\ page[b].simulatedThreshold = None =>
       /\ page[b].table = <<>>
       /\ online[b] => channel[b] # <<>>
       /\ channel[b] # <<>> => Head(channel[b]) \in Snapshots

(* An event adds behind what waits for the page, a snapshot included.      *)
LEMMA SliderEvent ==
  ASSUME WebTyped, Linked, SliderInv, NEW msgs, EventStep(msgs), NEW b \in Browsers
  PROVE  SliderOf(b)'
<1>1. /\ msgs \in Seq(Messages) /\ UNCHANGED <<opened, online, page>>
      /\ channel'[b] = IF online[b] THEN channel[b] \o msgs ELSE channel[b]
  BY DEF EventStep, Sends
<1>2. channel[b] \in Seq(Messages)
  BY DEF WebTyped
<1>3. SliderOf(b)
  BY DEF SliderInv, SliderOf
<1>4. CASE ~online[b]
  BY <1>1, <1>3, <1>4 DEF SliderOf
<1>5. CASE online[b]
  <2>1. channel[b] # <<>> =>
          channel'[b] # <<>> /\ Head(channel'[b]) = Head(channel[b])
    BY <1>1, <1>2, <1>5, HeadOfConcat
  <2> QED BY <1>1, <1>3, <1>5, <2>1 DEF SliderOf
<1> QED BY <1>4, <1>5

(* The slider's invariant is kept by every step.                           *)
LEMMA SliderStep ==
  ASSUME WebTyped, Linked, SliderInv, [WebNext]_webVars
  PROVE  SliderInv'
<1> SUFFICES ASSUME NEW b \in Browsers
             PROVE  SliderOf(b)'
  BY DEF SliderInv, SliderOf
<1>1. SliderOf(b)
  BY DEF SliderInv, SliderOf
<1>2. ASSUME page'[b] = page[b], channel'[b] = channel[b], online'[b] = online[b]
      PROVE  SliderOf(b)'
  BY <1>1, <1>2 DEF SliderOf
<1>3. CASE \E msgs : EventStep(msgs)
  BY <1>3, SliderEvent
<1>4. CASE \E s \in clients : OnClose(s)
  BY <1>2, <1>4 DEF OnClose, browserVars
<1>5. ASSUME NEW c \in Browsers, Open(c)
      PROVE  SliderOf(b)'
  <2>1. /\ online' = [online EXCEPT ![c] = TRUE]
        /\ channel' = [channel EXCEPT ![c] = <<Snapshot>>]
        /\ UNCHANGED page
    BY <1>5 DEF Open
  <2>2. CASE b # c
    BY <1>2, <2>1, <2>2 DEF WebTyped
  <2>3. CASE b = c
    <3>1. channel'[b] = <<Snapshot>> /\ page'[b] = page[b]
      BY <2>1, <2>3 DEF WebTyped
    <3>2. channel'[b] # <<>> /\ Head(channel'[b]) = Snapshot
      BY <3>1
    <3> QED BY <1>1, <3>1, <3>2, SnapshotTyped DEF SliderOf
  <2> QED BY <2>2, <2>3
<1>6. ASSUME NEW c \in Browsers, Deliver(c)
      PROVE  SliderOf(b)'
  <2>1. CASE b # c
    BY <1>2, <1>6, <2>1, DeliverTyped
  <2>2. CASE b = c
    <3>1. PICK pg \in Pages, msg \in Messages :
            pg = page[b] /\ msg = Head(channel[b]) /\ page'[b] = OnMessage(pg, msg)
      BY <1>6, <2>2, DeliverTyped DEF WebTyped
    <3>2. channel[b] # <<>>
      BY <1>6, <2>2 DEF Deliver
    <3>3. pg.simulatedThreshold # None \/ msg.type = "snapshot"
      BY <1>1, <3>1, <3>2 DEF SliderOf, Snapshots
    <3>4. Applied(page'[b]) /\ page'[b].simulatedThreshold # None
      BY <1>1, <3>1, <3>3, MessageApplied DEF SliderOf
    <3> QED BY <3>4 DEF SliderOf
  <2> QED BY <2>1, <2>2
<1>7. ASSUME NEW c \in Browsers, Break(c)
      PROVE  SliderOf(b)'
  <2>1. /\ online' = [online EXCEPT ![c] = FALSE]
        /\ channel' = [channel EXCEPT ![c] = <<>>]
        /\ UNCHANGED page
    BY <1>7 DEF Break
  <2>2. CASE b # c
    BY <1>2, <2>1, <2>2 DEF WebTyped
  <2>3. CASE b = c
    <3>1. channel'[b] = <<>> /\ page'[b] = page[b] /\ ~online'[b]
      BY <2>1, <2>3 DEF WebTyped
    <3> QED BY <1>1, <3>1 DEF SliderOf
  <2> QED BY <2>2, <2>3
<1>8. ASSUME NEW c \in Browsers, NEW threshold \in SliderPositions, Drag(c, threshold)
      PROVE  SliderOf(b)'
  <2>1. CASE b # c
    BY <1>2, <1>8, <2>1, DragTyped
  <2>2. CASE b = c
    BY <1>8, <2>2, DragTyped DEF SliderOf
  <2> QED BY <2>1, <2>2
<1>9. CASE ProxyRestarts
  <2>1. page'[b] = page[b] /\ channel'[b] = <<>> /\ ~online'[b]
    BY <1>9 DEF ProxyRestarts
  <2> QED BY <1>1, <2>1 DEF SliderOf
<1>10. CASE UNCHANGED webVars
  BY <1>2, <1>10 DEF webVars, browserVars
<1> QED BY <1>3, <1>4, <1>5, <1>6, <1>7, <1>8, <1>9, <1>10, StepIsOf DEF StepKinds, PageStep

(* It holds at the start, when no page has a row.                          *)
LEMMA SliderInit ==
  WebInit => SliderInv
<1> SUFFICES ASSUME WebInit, NEW b \in Browsers PROVE SliderOf(b)
  BY DEF SliderInv, SliderOf
<1>1. page[b] = EmptyPage /\ channel[b] = <<>> /\ ~online[b]
  BY DEF WebInit
<1>2. EmptyPage.table = <<>> /\ Applied(EmptyPage)
  BY DEF EmptyPage, Applied
<1> QED BY <1>1, <1>2 DEF SliderOf

(* The page computes what the engine would: the score does not depend on   *)
(* the threshold, and a hard signal blocks under any.                      *)
LEMMA SimulationIsEngine ==
  ASSUME NEW use \in Uses, NEW threshold \in Nat, NEW row \in TableRows,
         DecisionOn(use) = [outcome |-> row.outcome, reason |-> row.reason,
                            risk |-> row.risk]
  PROVE  SimulateOutcome(row, threshold) =
           WithThreshold(threshold)!Evaluate(
             use.binding, use.ja4, use.dpop, use.source_ip, use.ja4h).outcome
<1>1. PICK risk \in Nat : risk = Risk(use.binding, use.source_ip, use.ja4h)
  <2>1. Risk(use.binding, use.source_ip, use.ja4h) \in Nat
    BY PolicyAssumption DEF AcceptedPolicy, Risk
  <2> QED BY <2>1
<1>2. WithThreshold(threshold)!Risk(use.binding, use.source_ip, use.ja4h) = risk
  BY <1>1 DEF WithThreshold!Risk, WithThreshold!IpDelta, WithThreshold!Ja4hDelta,
              Risk, IpDelta, Ja4hDelta
<1> DEFINE hard == \/ use.binding.revoked
                   \/ ~use.dpop.valid
                   \/ use.ja4 # use.binding.ja4
                   \/ use.dpop.jkt # use.binding.jkt
           reason == Reason(use.binding, use.ja4, use.dpop, use.source_ip, use.ja4h)
           other == WithThreshold(threshold)!Reason(
                      use.binding, use.ja4, use.dpop, use.source_ip, use.ja4h)
<1>3. /\ hard => reason # "ok" /\ reason # "risk threshold exceeded"
      /\ ~hard => reason = IF risk >= RiskThreshold
                             THEN "risk threshold exceeded" ELSE "ok"
  BY <1>1 DEF Reason, IsRevoked, Ja4Matches
<1>4. /\ hard => other # "ok"
      /\ ~hard => other = IF risk >= threshold
                            THEN "risk threshold exceeded" ELSE "ok"
  BY <1>2 DEF WithThreshold!Reason, WithThreshold!IsRevoked, WithThreshold!Ja4Matches
<1>5. /\ row.outcome = IF reason = "ok" THEN "PASS" ELSE "BLOCK"
      /\ row.reason = reason /\ row.risk = risk
  <2>1. DecisionOn(use) = [outcome |-> IF reason = "ok" THEN "PASS" ELSE "BLOCK",
                           reason |-> reason, risk |-> risk]
    BY <1>1 DEF DecisionOn, Evaluate
  <2>2. PICK d : d = DecisionOn(use)
    OBVIOUS
  <2>3. d.outcome = row.outcome /\ d.reason = row.reason /\ d.risk = row.risk
    BY <2>2
  <2> HIDE DEF reason
  <2>4. /\ d.outcome = IF reason = "ok" THEN "PASS" ELSE "BLOCK"
        /\ d.reason = reason /\ d.risk = risk
    BY <2>1, <2>2
  <2> QED BY <2>3, <2>4
<1>6. WithThreshold(threshold)!Evaluate(
        use.binding, use.ja4, use.dpop, use.source_ip, use.ja4h).outcome
          = IF other = "ok" THEN "PASS" ELSE "BLOCK"
  BY DEF WithThreshold!Evaluate
<1>7. row.risk # None
  BY <1>5, WebAssumption
<1> HIDE DEF hard, reason, other
<1> QED BY <1>3, <1>4, <1>5, <1>6, <1>7 DEF SimulateOutcome

(* It says what the property says of each cell.                            *)
LEMMA SliderShows ==
  ASSUME WebTyped, SliderInv
  PROVE  CellsFollowSlider
<1> SUFFICES ASSUME NEW b \in Browsers, NEW i \in DOMAIN page[b].table
             PROVE  LET cell == page[b].table[i]
                    IN  /\ cell.data.risk = None => cell.decision = "BLOCK"
                        /\ \A use \in Uses :
                             DecisionOn(use) = [outcome |-> cell.data.outcome,
                                                reason |-> cell.data.reason,
                                                risk |-> cell.data.risk] =>
                               cell.decision =
                                 WithThreshold(page[b].simulatedThreshold)!Evaluate(
                                   use.binding, use.ja4, use.dpop, use.source_ip,
                                   use.ja4h).outcome
  BY DEF CellsFollowSlider
<1>1. PICK pg \in Pages : pg = page[b]
  BY DEF WebTyped
<1>2. PICK cell \in Cells : cell = pg.table[i]
  <2>1. pg.table \in Seq(Cells)
    BY DEF Pages, Cells
  <2> QED BY <1>1, <2>1, ElementOfSeq, LenProperties
<1>3. PICK threshold \in Nat : threshold = pg.simulatedThreshold /\ threshold # None
  <2>1. pg.table # <<>>
    BY <1>1
  <2>2. pg.simulatedThreshold # None
    BY <1>1, <2>1 DEF SliderInv
  <2> QED BY <2>2 DEF Pages, Optional
<1>4. PICK row \in TableRows : row = cell.data
  BY DEF Cells
<1>5. cell.decision = SimulateOutcome(row, threshold)
  <2>1. pg.table[i] = ApplyThreshold(pg.table[i].data, pg.simulatedThreshold)
    BY <1>1 DEF SliderInv, Applied
  <2> QED BY <1>2, <1>3, <1>4, <2>1 DEF ApplyThreshold
<1>6. cell.data.risk = None => cell.decision = "BLOCK"
  BY <1>4, <1>5 DEF SimulateOutcome, TableRows
<1>7. ASSUME NEW use \in Uses,
             DecisionOn(use) = [outcome |-> cell.data.outcome, reason |-> cell.data.reason,
                                risk |-> cell.data.risk]
      PROVE  cell.decision =
               WithThreshold(threshold)!Evaluate(
                 use.binding, use.ja4, use.dpop, use.source_ip, use.ja4h).outcome
  BY <1>4, <1>5, <1>7, SimulationIsEngine
<1> QED BY <1>1, <1>2, <1>3, <1>6, <1>7

(* Wherever the slider stands, a cell shows what the engine would have     *)
(* decided under that threshold, and a row that the engine never saw stays *)
(* a block.                                                                *)
THEOREM SliderIsTheEngine == WebSpec => []CellsFollowSlider
<1>1. SliderInv /\ (WebTyped /\ Linked) /\ [WebNext]_webVars => SliderInv'
  BY SliderStep
<1>2. SliderInv /\ (WebTyped /\ Linked) => CellsFollowSlider
  BY SliderShows
<1> QED BY <1>1, <1>2, SliderInit, WebTypes, PTL DEF WebSpec

(***************************************************************************)
(* A page that is connected is only behind.                                *)
(***************************************************************************)
LEMMA AgreesUnchanged ==
  ASSUME UNCHANGED <<rows, log_lines, counts>>, NEW p, NEW q, Agrees(p),
         Data(q.table) = Data(p.table), SameLog(q, p), SameCounts(q, p)
  PROVE  Agrees(q)'
BY DEF Agrees, SameLog, SameCounts

(* Agreement, read in the next state.                                      *)
LEMMA AgreesNext ==
  ASSUME NEW b \in Browsers, NEW q, q = After(page'[b], channel'[b]), Agrees(q)'
  PROVE  Agrees(After(page[b], channel[b]))'
BY DEF Agrees

(* A page that kept up with the dashboard keeps up with the event.         *)
LEMMA CaughtUpEvent ==
  ASSUME WebTyped, Linked, CaughtUpInv, NEW msgs, EventStep(msgs), NEW b \in Browsers,
         online'[b]
  PROVE  Agrees(After(page[b], channel[b]))'
<1>1. /\ msgs \in Seq(Messages) /\ UNCHANGED <<opened, online, page>>
      /\ channel'[b] = IF online[b] THEN channel[b] \o msgs ELSE channel[b]
      /\ KeepsUp(msgs)
  BY DEF EventStep, Sends
<1>2. channel[b] \in Seq(Messages) /\ page[b] \in Pages
  BY DEF WebTyped
<1>3. online[b]
  BY <1>1
<1>4. PICK p : p = After(page[b], channel[b])
  OBVIOUS
<1>5. p \in Pages /\ Agrees(p)
  BY <1>2, <1>3, <1>4, AfterTyped DEF CaughtUpInv
<1>6. PICK q : q = After(p, msgs)
  OBVIOUS
<1>7. Agrees(q)'
  BY <1>1, <1>5, <1>6 DEF KeepsUp, Agrees
<1>8. q = After(page'[b], channel'[b])
  BY <1>1, <1>2, <1>3, <1>4, <1>6, AfterConcat
<1> QED BY <1>7, <1>8, AgreesNext

(* The invariant is kept by every step: a page either keeps up, or has     *)
(* just been sent a snapshot.                                              *)
LEMMA CaughtUpStep ==
  ASSUME WebTyped, Linked, CaughtUpInv, [WebNext]_webVars
  PROVE  CaughtUpInv'
<1> SUFFICES ASSUME NEW b \in Browsers, online'[b]
             PROVE  Agrees(After(page[b], channel[b]))'
  BY DEF CaughtUpInv
<1>1. channel[b] \in Seq(Messages) /\ page[b] \in Pages
  BY DEF WebTyped
<1>2. ASSUME online[b], After(page'[b], channel'[b]) = After(page[b], channel[b]),
             UNCHANGED <<rows, log_lines, counts>>
      PROVE  Agrees(After(page[b], channel[b]))'
  <2>1. PICK p : p = After(page[b], channel[b])
    OBVIOUS
  <2>2. Agrees(p)
    BY <1>2, <2>1 DEF CaughtUpInv
  <2>3. Agrees(p)'
    BY <1>2, <2>2 DEF Agrees
  <2> QED BY <1>2, <2>1, <2>3, AgreesNext
<1>3. CASE \E msgs : EventStep(msgs)
  BY <1>3, CaughtUpEvent
<1>4. CASE \E s \in clients : OnClose(s)
  BY <1>2, <1>4 DEF OnClose, browserVars, dashboardVars
<1>5. ASSUME NEW c \in Browsers, Open(c)
      PROVE  Agrees(After(page[b], channel[b]))'
  <2>1. /\ online' = [online EXCEPT ![c] = TRUE]
        /\ channel' = [channel EXCEPT ![c] = <<Snapshot>>]
        /\ UNCHANGED <<rows, log_lines, counts, page>>
    BY <1>5 DEF Open, dashboardVars
  <2>2. CASE b # c
    BY <1>2, <2>1, <2>2 DEF WebTyped
  <2>3. CASE b = c
    <3>1. channel'[b] = <<Snapshot>> /\ page'[b] = page[b]
      BY <2>1, <2>3 DEF WebTyped
    <3>2. PICK q : q = OnMessage(page[b], Snapshot)
      OBVIOUS
    <3>3. q = After(page'[b], channel'[b])
      BY <3>1, <3>2, AfterOne
    <3>4. /\ Data(q.table) = Snapshot.rows /\ q.log = Snapshot.log_lines
          /\ q.counts = Snapshot.counts /\ q.rate_limited = Snapshot.rate_limited
      BY <1>1, <3>2, SnapshotTyped, SnapshotShown
    <3>5. Agrees(q)
      BY <3>4 DEF Agrees, Snapshot
    <3>6. Agrees(q)'
      BY <2>1, <3>5 DEF Agrees
    <3> QED BY <3>3, <3>6, AgreesNext
  <2> QED BY <2>2, <2>3
<1>6. ASSUME NEW c \in Browsers, Deliver(c)
      PROVE  Agrees(After(page[b], channel[b]))'
  <2>1. After(page'[b], channel'[b]) = After(page[b], channel[b])
    <3>1. CASE b = c
      BY <1>6, <3>1, DeliverTyped
    <3>2. CASE b # c
      BY <1>6, <3>2, DeliverTyped
    <3> QED BY <3>1, <3>2
  <2>2. online[b] /\ UNCHANGED <<rows, log_lines, counts>>
    BY <1>6, DeliverTyped
  <2> QED BY <1>2, <2>1, <2>2
<1>7. ASSUME NEW c \in Browsers, Break(c)
      PROVE  Agrees(After(page[b], channel[b]))'
  <2>1. /\ online' = [online EXCEPT ![c] = FALSE]
        /\ channel' = [channel EXCEPT ![c] = <<>>]
        /\ UNCHANGED <<rows, log_lines, counts, page>>
    BY <1>7 DEF Break, serverVars, dashboardVars
  <2>2. b # c
    BY <2>1 DEF WebTyped
  <2> QED BY <1>2, <2>1, <2>2 DEF WebTyped
<1>8. ASSUME NEW c \in Browsers, NEW threshold \in SliderPositions, Drag(c, threshold)
      PROVE  Agrees(After(page[b], channel[b]))'
  <2>1. UNCHANGED <<rows, log_lines, counts, online, channel>>
    BY <1>8, DragTyped
  <2>2. CASE b # c
    <3>1. page'[b] = page[b]
      BY <1>8, <2>2, DragTyped
    <3> QED BY <1>2, <2>1, <3>1
  <2>3. CASE b = c
    <3>1. PICK new : new = page'[b]
      OBVIOUS
    <3>2. new \in Pages /\ Alike(new, page[b])
      BY <1>8, <2>3, <3>1, DragTyped DEF WebTyped
    <3>3. PICK p, q : p = After(page[b], channel[b]) /\ q = After(new, channel[b])
      OBVIOUS
    <3>4. Alike(q, p)
      BY <1>1, <3>2, <3>3, AfterAlike
    <3>5. Agrees(p)
      BY <2>1, <3>3 DEF CaughtUpInv
    <3>6. Agrees(q)'
      BY <2>1, <3>4, <3>5, AgreesUnchanged DEF Alike
    <3>7. q = After(page'[b], channel'[b])
      BY <2>1, <3>1, <3>3
    <3> QED BY <3>6, <3>7, AgreesNext
  <2> QED BY <2>2, <2>3
<1>9. CASE ProxyRestarts
  BY <1>9 DEF ProxyRestarts
<1>10. CASE UNCHANGED webVars
  BY <1>2, <1>10 DEF webVars, serverVars, browserVars, dashboardVars
<1> QED BY <1>3, <1>4, <1>5, <1>6, <1>7, <1>8, <1>9, <1>10, StepIsOf DEF StepKinds, PageStep

(* Whatever broke before, a page that is connected shows the dashboard's   *)
(* table, log and counters when it has read what was sent to it.           *)
THEOREM ConnectedPagesAgree == WebSpec => []CaughtUpAgrees
<1>1. WebInit => CaughtUpInv
  BY DEF WebInit, CaughtUpInv
<1>2. CaughtUpInv /\ (WebTyped /\ Linked) /\ [WebNext]_webVars => CaughtUpInv'
  BY CaughtUpStep
<1>3. CaughtUpInv => CaughtUpAgrees
  BY DEF CaughtUpInv, CaughtUpAgrees, PageToBe, After
<1> QED BY <1>1, <1>2, <1>3, WebTypes, PTL DEF WebSpec

(***************************************************************************)
(* Timelines: they only grow.                                              *)
(***************************************************************************)
Begins(story, longer) ==
  Len(story) <= Len(longer) /\ \A i \in 1..Len(story) : longer[i] = story[i]

StoriesGrow(p, q) == \A s \in Tokens : Begins(p.storiesById[s], q.storiesById[s])

(* A timeline is a list of events.                                         *)
LEMMA StoryTyped ==
  ASSUME NEW p \in Pages, NEW s \in Tokens
  PROVE  p.storiesById[s] \in Seq(Events)
BY DEF Pages

(* A timeline with one event more begins with what it was.                 *)
LEMMA GrowsByOne ==
  ASSUME NEW story, story \in Seq(Events), NEW event \in Events
  PROVE  /\ Append(story, event) \in Seq(Events)
         /\ Len(Append(story, event)) = Len(story) + 1
         /\ Append(story, event)[Len(story) + 1] = event
         /\ Begins(story, Append(story, event))
<1>1. PICK n \in Nat : n = Len(story)
  BY LenProperties
<1>2. n <= n + 1
  BY <1>1
<1> QED BY <1>1, <1>2, AppendProperties DEF Begins

(* Beginnings of beginnings are beginnings.                                *)
LEMMA BeginsTransitive ==
  ASSUME NEW a, a \in Seq(Events), NEW b, b \in Seq(Events), NEW c, c \in Seq(Events),
         Begins(a, b), Begins(b, c)
  PROVE  Begins(a, c)
<1>1. PICK k \in Nat, m \in Nat, n \in Nat : k = Len(a) /\ m = Len(b) /\ n = Len(c)
  BY LenProperties
<1>2. k <= m /\ m <= n
  BY <1>1 DEF Begins
<1>3. \A i \in 1..k : i \in 1..m
  BY <1>2
<1>4. k <= n
  BY <1>1, <1>2
<1> QED BY <1>1, <1>3, <1>4 DEF Begins

(* A timeline begins with itself.                                          *)
LEMMA BeginsItself ==
  ASSUME NEW a, a \in Seq(Events)
  PROVE  Begins(a, a)
<1>1. PICK n \in Nat : n = Len(a)
  BY LenProperties
<1> QED BY <1>1 DEF Begins

(* Pages grow through any number of steps.                                 *)
LEMMA GrowTransitive ==
  ASSUME NEW p \in Pages, NEW q \in Pages, NEW r \in Pages,
         StoriesGrow(p, q), StoriesGrow(q, r)
  PROVE  StoriesGrow(p, r)
BY StoryTyped, BeginsTransitive DEF StoriesGrow

(* Pages with the same timelines are the least growth.                     *)
LEMMA SameStoriesGrow ==
  ASSUME NEW p \in Pages, NEW q \in Pages, SameStories(p, q)
  PROVE  StoriesGrow(p, q)
BY StoryTyped, BeginsItself DEF StoriesGrow, SameStories

(* An event makes a timeline longer and changes nothing of it.             *)
LEMMA EventGrows ==
  ASSUME NEW p \in Pages, NEW story \in Optional(Tokens), NEW event \in Events
  PROVE  StoriesGrow(p, AddStoryEvent(p, story, event))
<1>1. PICK q : q = AddStoryEvent(p, story, event)
  OBVIOUS
<1> SUFFICES ASSUME NEW s \in Tokens
             PROVE  Begins(p.storiesById[s], q.storiesById[s])
  BY <1>1 DEF StoriesGrow
<1>2. q.storiesById[s] = IF s = story THEN Append(p.storiesById[s], event)
                                      ELSE p.storiesById[s]
  BY <1>1, EventAdded
<1>3. p.storiesById[s] \in Seq(Events)
  BY StoryTyped
<1> QED BY <1>2, <1>3, GrowsByOne, BeginsItself

(* Which rows of a timeline are which rows of a list, cut after n.         *)
About(list, n, s) == {i \in 1..n : list[i].story_id = s}

Places(placeOf, story, list, n, s) ==
  \A i \in About(list, n, s) :
    /\ placeOf[i] \in RowEvents(story) /\ story[placeOf[i]] = list[i]
    /\ \A j \in About(list, n, s) : i < j => placeOf[i] < placeOf[j]
    /\ \A place \in RowEvents(story) :
         place > placeOf[i] => \E j \in About(list, n, s) : placeOf[j] = place

TailIs(story, list, n, s) == \E placeOf : Places(placeOf, story, list, n, s)

(* Which places of a timeline are rows, with one event more.               *)
LEMMA EventsOfAppended ==
  ASSUME NEW story, story \in Seq(Events), NEW event \in Events
  PROVE  /\ IsRow(event) =>
              /\ RowEvents(Append(story, event)) = RowEvents(story) \cup {Len(story) + 1}
              /\ NonRows(Append(story, event)) = NonRows(story)
         /\ ~IsRow(event) =>
              /\ RowEvents(Append(story, event)) = RowEvents(story)
              /\ NonRows(Append(story, event)) = NonRows(story) \cup {Len(story) + 1}
<1>1. PICK n \in Nat : n = Len(story) /\ DOMAIN story = 1..n
  BY LenProperties
<1>2. PICK more : more = Append(story, event)
  OBVIOUS
<1>3. /\ DOMAIN more = 1..(n + 1) /\ more[n + 1] = event
      /\ \A i \in 1..n : more[i] = story[i]
  <2>1. /\ more \in Seq(Events) /\ Len(more) = n + 1 /\ more[n + 1] = event
        /\ \A i \in 1..n : more[i] = story[i]
    BY <1>1, <1>2, AppendProperties
  <2> QED BY <2>1, LenProperties
<1>4. 1..(n + 1) = (1..n) \cup {n + 1} /\ n + 1 \notin 1..n
  BY <1>1
<1>5. RowEvents(story) = {i \in 1..n : IsRow(story[i])}
  BY <1>1 DEF RowEvents
<1>6. RowEvents(more) = {i \in (1..n) \cup {n + 1} : IsRow(more[i])}
  BY <1>3, <1>4 DEF RowEvents
<1>7. NonRows(story) = (1..n) \ RowEvents(story)
  BY <1>1 DEF NonRows
<1>8. NonRows(more) = ((1..n) \cup {n + 1}) \ RowEvents(more)
  BY <1>3, <1>4 DEF NonRows
<1>9. RowEvents(more) =
        IF IsRow(event) THEN RowEvents(story) \cup {n + 1} ELSE RowEvents(story)
  BY <1>3, <1>4, <1>5, <1>6
<1>10. NonRows(more) =
         IF IsRow(event) THEN NonRows(story) ELSE NonRows(story) \cup {n + 1}
  BY <1>4, <1>5, <1>7, <1>8, <1>9
<1> QED BY <1>1, <1>2, <1>9, <1>10

(* A timeline ends with no rows.                                           *)
LEMMA TailNone ==
  ASSUME NEW story, NEW list, NEW n, NEW s, About(list, n, s) = {}
  PROVE  TailIs(story, list, n, s)
BY DEF TailIs, Places

(* A row about another token leaves the end as it is.                      *)
LEMMA TailOther ==
  ASSUME NEW story, NEW list, NEW n \in Nat, NEW s, TailIs(story, list, n, s),
         list[n + 1].story_id # s
  PROVE  TailIs(story, list, n + 1, s)
<1>1. \A i \in 1..(n + 1) : i \in 1..n \/ i = n + 1
  OBVIOUS
<1>2. \A i \in 1..n : i \in 1..(n + 1)
  OBVIOUS
<1>3. About(list, n + 1, s) = About(list, n, s)
  BY <1>1, <1>2 DEF About
<1> QED BY <1>3 DEF TailIs, Places

(* A row about this token is at the end of both.                           *)
LEMMA TailAppended ==
  ASSUME NEW story, story \in Seq(Events), NEW list, NEW n \in Nat, NEW s,
         TailIs(story, list, n, s),
         NEW row \in TableRows, row = list[n + 1], row.story_id = s
  PROVE  TailIs(Append(story, row), list, n + 1, s)
<1>1. PICK f : Places(f, story, list, n, s)
  BY DEF TailIs
<1>2. PICK len \in Nat : len = Len(story) /\ DOMAIN story = 1..len
  BY LenProperties
<1>3. PICK more : more = Append(story, row)
  OBVIOUS
<1>4. /\ RowEvents(more) = RowEvents(story) \cup {len + 1}
      /\ more[len + 1] = row
      /\ \A i \in 1..len : more[i] = story[i]
  <2>1. row \in Events /\ IsRow(row)
    BY RowIsEvent
  <2> QED BY <1>2, <1>3, <2>1, EventsOfAppended, AppendProperties
<1>5. RowEvents(story) \subseteq 1..len
  BY <1>2 DEF RowEvents
<1>6. About(list, n + 1, s) = About(list, n, s) \cup {n + 1}
  <2>1. 1..(n + 1) = (1..n) \cup {n + 1}
    OBVIOUS
  <2> QED BY <2>1 DEF About
<1>7. About(list, n, s) \subseteq 1..n
  BY DEF About
<1> DEFINE g == [i \in (1..n) \cup {n + 1} |-> IF i = n + 1 THEN len + 1 ELSE f[i]]
<1>8. g[n + 1] = len + 1 /\ \A i \in About(list, n, s) : g[i] = f[i] /\ i < n + 1 /\ i \in Nat
  <2>1. \A i \in 1..n : i # n + 1 /\ i < n + 1 /\ i \in Nat
    OBVIOUS
  <2> QED BY <1>7, <2>1
<1> HIDE DEF g
<1>9. ASSUME NEW i \in About(list, n + 1, s)
      PROVE  /\ g[i] \in RowEvents(more) /\ more[g[i]] = list[i]
             /\ \A j \in About(list, n + 1, s) : i < j => g[i] < g[j]
             /\ \A place \in RowEvents(more) :
                  place > g[i] => \E j \in About(list, n + 1, s) : g[j] = place
  <2>1. CASE i = n + 1
    <3>1. \A j \in About(list, n + 1, s) : ~(i < j)
      BY <1>6, <1>8, <2>1
    <3>2. \A place \in RowEvents(more) : ~(place > g[i])
      BY <1>2, <1>4, <1>5, <1>8, <2>1
    <3> QED BY <1>4, <1>8, <2>1, <3>1, <3>2
  <2>2. CASE i # n + 1
    <3>1. i \in About(list, n, s) /\ g[i] = f[i]
      BY <1>6, <1>8, <2>2
    <3>2. /\ f[i] \in RowEvents(story) /\ story[f[i]] = list[i]
          /\ \A j \in About(list, n, s) : i < j => f[i] < f[j]
          /\ \A place \in RowEvents(story) :
               place > f[i] => \E j \in About(list, n, s) : f[j] = place
      BY <1>1, <3>1 DEF Places
    <3>3. f[i] < len + 1
      BY <1>2, <1>5, <3>2
    <3>4. g[i] \in RowEvents(more) /\ more[g[i]] = list[i]
      BY <1>4, <1>5, <3>1, <3>2
    <3>5. \A j \in About(list, n + 1, s) : i < j => g[i] < g[j]
      BY <1>6, <1>8, <3>1, <3>2, <3>3
    <3>6. \A place \in RowEvents(more) :
            place > g[i] => \E j \in About(list, n + 1, s) : g[j] = place
      BY <1>4, <1>6, <1>8, <3>1, <3>2
    <3> QED BY <3>4, <3>5, <3>6
  <2> QED BY <2>1, <2>2
<1>10. Places(g, more, list, n + 1, s)
  BY <1>9 DEF Places
<1> QED BY <1>3, <1>10 DEF TailIs

(* The oldest row has left the table.                                      *)
LEMMA TailDropped ==
  ASSUME NEW story, story \in Seq(Events), NEW list, NEW n \in Nat, NEW s,
         TailIs(story, list, n + 1, s),
         NEW tail, \A i \in 1..n : tail[i] = list[i + 1]
  PROVE  TailIs(story, tail, n, s)
<1>1. PICK f : Places(f, story, list, n + 1, s)
  BY DEF TailIs
<1> DEFINE g == [i \in 1..n |-> f[i + 1]]
<1>2. \A i \in 1..n : g[i] = f[i + 1]
  OBVIOUS
<1> HIDE DEF g
<1>3. \A i \in 1..n : i + 1 \in 1..(n + 1) /\ i \in Nat
  OBVIOUS
<1>4. \A i \in About(tail, n, s) :
        i \in 1..n /\ i + 1 \in About(list, n + 1, s) /\ tail[i] = list[i + 1]
  BY <1>3 DEF About
<1>5. \A place \in RowEvents(story) : place \in Nat
  BY LenProperties DEF RowEvents
<1>6. ASSUME NEW i \in About(tail, n, s)
      PROVE  /\ g[i] \in RowEvents(story) /\ story[g[i]] = tail[i]
             /\ \A j \in About(tail, n, s) : i < j => g[i] < g[j]
             /\ \A place \in RowEvents(story) :
                  place > g[i] => \E j \in About(tail, n, s) : g[j] = place
  <2>1. PICK k : k = i + 1 /\ k \in About(list, n + 1, s) /\ g[i] = f[k] /\ tail[i] = list[k]
    BY <1>2, <1>4
  <2>2. /\ f[k] \in RowEvents(story) /\ story[f[k]] = list[k]
        /\ \A j \in About(list, n + 1, s) : k < j => f[k] < f[j]
        /\ \A place \in RowEvents(story) :
             place > f[k] => \E j \in About(list, n + 1, s) : f[j] = place
    BY <1>1, <2>1 DEF Places
  <2>3. ASSUME NEW j \in About(tail, n, s), i < j
        PROVE  g[i] < g[j]
    <3>1. k < j + 1
      BY <1>3, <1>4, <2>1, <2>3
    <3> QED BY <1>2, <1>4, <2>1, <2>2, <3>1
  <2>4. ASSUME NEW place \in RowEvents(story), place > g[i]
        PROVE  \E j \in About(tail, n, s) : g[j] = place
    <3>1. PICK j \in About(list, n + 1, s) : f[j] = place
      BY <2>1, <2>2, <2>4
    <3>2. j \in 1..(n + 1) /\ k \in 1..(n + 1) /\ k # 1 /\ list[j].story_id = s
      BY <1>3, <1>4, <2>1, <3>1 DEF About
    <3>3. ~(j < k)
      <4>1. j < k => f[j] < f[k]
        BY <1>1, <2>1, <3>1 DEF Places
      <4>2. f[k] \in Nat /\ f[j] \in Nat
        BY <1>5, <2>2, <3>1
      <4> QED BY <2>1, <2>4, <3>1, <4>1, <4>2
    <3>4. PICK m \in 1..n : j = m + 1
      <4>1. j - 1 \in 1..n /\ j = (j - 1) + 1
        BY <3>2, <3>3
      <4> QED BY <4>1
    <3>5. m \in About(tail, n, s)
      BY <3>2, <3>4 DEF About
    <3> QED BY <1>2, <3>1, <3>4, <3>5
  <2> QED BY <2>1, <2>2, <2>3, <2>4
<1>7. Places(g, story, tail, n, s)
  BY <1>6 DEF Places
<1> QED BY <1>7 DEF TailIs

(* The end of the whole table is what the property speaks of.              *)
LEMMA TailShows ==
  ASSUME NEW n \in Nat, NEW story, NEW s, TailIs(story, rows, n, s), n = Len(rows),
         rows \in Seq(TableRows)
  PROVE  EndsWithRows(story, s)
<1>1. PICK f : Places(f, story, rows, n, s)
  BY DEF TailIs
<1>2. RowsAbout(s) = About(rows, n, s)
  BY LenProperties DEF RowsAbout, About
<1> DEFINE g == [i \in RowsAbout(s) |-> f[i]]
<1>3. g \in [RowsAbout(s) -> RowEvents(story)]
  BY <1>1, <1>2 DEF Places
<1>4. \A i \in RowsAbout(s) :
        /\ story[g[i]] = rows[i]
        /\ \A j \in RowsAbout(s) : i < j => g[i] < g[j]
        /\ \A place \in RowEvents(story) :
             place > g[i] => \E j \in RowsAbout(s) : g[j] = place
  BY <1>1, <1>2 DEF Places
<1> HIDE DEF g
<1> QED BY <1>3, <1>4 DEF EndsWithRows

(* And the other way round.                                                *)
LEMMA ShownIsTail ==
  ASSUME NEW n \in Nat, NEW story, NEW s, EndsWithRows(story, s), n = Len(rows),
         rows \in Seq(TableRows)
  PROVE  TailIs(story, rows, n, s)
<1>1. RowsAbout(s) = About(rows, n, s)
  BY LenProperties DEF RowsAbout, About
<1>2. PICK g \in [RowsAbout(s) -> RowEvents(story)] :
        \A i \in RowsAbout(s) :
          /\ story[g[i]] = rows[i]
          /\ \A j \in RowsAbout(s) : i < j => g[i] < g[j]
          /\ \A place \in RowEvents(story) :
               place > g[i] => \E j \in RowsAbout(s) : g[j] = place
  BY DEF EndsWithRows
<1>3. Places(g, story, rows, n, s)
  BY <1>1, <1>2 DEF Places
<1> QED BY <1>3 DEF TailIs

(***************************************************************************)
(* How often a timeline is interrupted by what is no row.                  *)
(***************************************************************************)
LEMMA NonRowsCounted ==
  ASSUME NEW story, story \in Seq(Events)
  PROVE  /\ IsFiniteSet(NonRows(story)) /\ Cardinality(NonRows(story)) \in Nat
         /\ Len(story) = 0 => Cardinality(NonRows(story)) = 0
<1>1. PICK n \in Nat : n = Len(story) /\ DOMAIN story = 1..n
  BY LenProperties
<1>2. IsFiniteSet(1..n)
  BY FS_Interval
<1>3. NonRows(story) \subseteq 1..n
  BY <1>1 DEF NonRows
<1>4. IsFiniteSet(NonRows(story))
  BY <1>2, <1>3, FS_Subset
<1>5. ASSUME n = 0
      PROVE  Cardinality(NonRows(story)) = 0
  <2>1. NonRows(story) = {}
    BY <1>3, <1>5
  <2> QED BY <2>1, FS_EmptySet
<1> QED BY <1>1, <1>4, <1>5, FS_CardinalityType

(* What a timeline begins with has no more interruptions than the whole.   *)
LEMMA FewerNonRows ==
  ASSUME NEW story, story \in Seq(Events), NEW longer, longer \in Seq(Events),
         Begins(story, longer)
  PROVE  Cardinality(NonRows(story)) <= Cardinality(NonRows(longer))
<1>1. PICK n \in Nat, m \in Nat : /\ n = Len(story) /\ DOMAIN story = 1..n
                                  /\ m = Len(longer) /\ DOMAIN longer = 1..m
  BY LenProperties
<1>2. n <= m /\ \A i \in 1..n : longer[i] = story[i]
  BY <1>1 DEF Begins
<1>3. \A i \in 1..n : i \in 1..m
  BY <1>2
<1>4. NonRows(story) \subseteq NonRows(longer)
  BY <1>1, <1>2, <1>3 DEF NonRows, RowEvents
<1> QED BY <1>4, NonRowsCounted, FS_Subset

(* A row is no interruption, and any event is at most one.                 *)
LEMMA OneMoreNonRow ==
  ASSUME NEW story, story \in Seq(Events), NEW event \in Events
  PROVE  /\ IsRow(event) =>
              Cardinality(NonRows(Append(story, event))) = Cardinality(NonRows(story))
         /\ Cardinality(NonRows(Append(story, event)))
              <= Cardinality(NonRows(story)) + 1
<1>1. PICK len : len = Len(story)
  OBVIOUS
<1>2. IsFiniteSet(NonRows(story)) /\ Cardinality(NonRows(story)) \in Nat
  BY NonRowsCounted
<1>3. Cardinality(NonRows(story) \cup {len + 1})
        = IF len + 1 \in NonRows(story) THEN Cardinality(NonRows(story))
                                        ELSE Cardinality(NonRows(story)) + 1
  BY <1>2, FS_AddElement
<1>4. Cardinality(NonRows(story) \cup {len + 1}) <= Cardinality(NonRows(story)) + 1
  BY <1>2, <1>3
<1>5. CASE IsRow(event)
  <2>1. NonRows(Append(story, event)) = NonRows(story)
    BY <1>5, EventsOfAppended
  <2> QED BY <1>2, <2>1
<1>6. CASE ~IsRow(event)
  <2>1. NonRows(Append(story, event)) = NonRows(story) \cup {len + 1}
    BY <1>1, <1>6, EventsOfAppended
  <2> QED BY <1>4, <1>6, <2>1
<1> QED BY <1>5, <1>6

(***************************************************************************)
(* What a snapshot adds to the timelines.                                  *)
(***************************************************************************)

(* Issuances that differ add at most one event to each timeline.           *)
LEMMA IssuancesAdd ==
  ASSUME NEW pg \in Pages, NEW seq, seq \in Seq(Tokens),
         \A i, j \in DOMAIN seq : seq[i] = seq[j] => i = j,
         NEW new, new = FoldLeft(AddIssuance, pg, seq), NEW s \in Tokens
  PROVE  new.storiesById[s] =
           IF \E i \in DOMAIN seq : seq[i] = s
             THEN Append(pg.storiesById[s], IssuanceEvent(s)) ELSE pg.storiesById[s]
<1>1. PICK n \in Nat : n = Len(seq) /\ DOMAIN seq = 1..n
  BY LenProperties
<1>2. IsList(seq) /\ \A k \in 1..n : seq[k] \in Tokens
  BY <1>1, ElementOfSeq DEF IsList
<1>3. PICK run : run[0] = pg /\ IsRun("issuance", run, seq) /\ new = run[n]
  BY <1>1, <1>2, IssuancesFold DEF IsFoldOf
<1> DEFINE Shows(p, k) ==
      /\ p \in Pages
      /\ p.storiesById[s] =
           IF \E i \in 1..k : seq[i] = s
             THEN Append(pg.storiesById[s], IssuanceEvent(s)) ELSE pg.storiesById[s]
    Good == {k \in Nat : Shows(run[k], k)}
<1>4. 0 \in Good
  <2>1. ~\E i \in 1..0 : seq[i] = s
    OBVIOUS
  <2> QED BY <1>3, <2>1
<1>5. ASSUME NEW k \in Nat, k < n, k \in Good
      PROVE  k + 1 \in Good
  <2>1. k + 1 \in 1..n /\ (k + 1) - 1 = k
    BY <1>5
  <2>2. PICK t \in Tokens : t = seq[k + 1]
    BY <1>2, <2>1
  <2>3. PICK p : p = run[k] /\ Shows(p, k)
    BY <1>5
  <2>4. PICK q : q = AddStoryEvent(p, t, IssuanceEvent(t))
    OBVIOUS
  <2>5. run[k + 1] = q
    <3>1. Does("issuance", p, t) = q
      BY <2>4, DoesEach DEF AddIssuance
    <3>2. run[k + 1] = Does("issuance", run[k], seq[k + 1])
      BY <1>1, <1>3, <2>1 DEF IsRun
    <3> QED BY <2>2, <2>3, <3>1, <3>2
  <2>6. /\ q \in Pages
        /\ q.storiesById[s] = IF s = t THEN Append(p.storiesById[s], IssuanceEvent(t))
                                       ELSE p.storiesById[s]
    BY <2>3, <2>4, EventAdded, IssuanceIsEvent DEF Optional
  <2>7. \A i \in 1..k : i \in 1..n /\ i # k + 1 /\ i \in 1..(k + 1)
    BY <1>5
  <2>8. s = t => ~\E i \in 1..k : seq[i] = s
    BY <1>1, <2>1, <2>2, <2>7
  <2>9. (\E i \in 1..(k + 1) : seq[i] = s) <=> (s = t \/ \E i \in 1..k : seq[i] = s)
    <3>1. \A i \in 1..(k + 1) : i \in 1..k \/ i = k + 1
      OBVIOUS
    <3>2. k + 1 \in 1..(k + 1)
      OBVIOUS
    <3> QED BY <2>2, <2>7, <3>1, <3>2
  <2>10. Shows(q, k + 1)
    BY <2>3, <2>6, <2>8, <2>9
  <2> HIDE DEF Shows
  <2> QED BY <2>5, <2>10
<1>6. \A k \in 0..n : k \in Good
  <2> HIDE DEF Good
  <2> QED BY <1>4, <1>5, UpTo
<1>7. Shows(new, n)
  BY <1>1, <1>3, <1>6
<1> QED BY <1>1, <1>7

(* Rows are added at the end, in their order.                              *)
LEMMA RowsTold ==
  ASSUME NEW pg \in Pages, NEW seq, seq \in Seq(TableRows),
         NEW new, new = FoldLeft(AddRowToStory, pg, seq), NEW s \in Tokens
  PROVE  /\ Begins(pg.storiesById[s], new.storiesById[s])
         /\ Cardinality(NonRows(new.storiesById[s]))
              = Cardinality(NonRows(pg.storiesById[s]))
         /\ TailIs(new.storiesById[s], seq, Len(seq), s)
         /\ (\A i \in DOMAIN seq : seq[i].story_id # s) =>
              new.storiesById[s] = pg.storiesById[s]
<1>1. PICK n \in Nat : n = Len(seq) /\ DOMAIN seq = 1..n
  BY LenProperties
<1>2. IsList(seq) /\ \A k \in 1..n : seq[k] \in TableRows
  BY <1>1, ElementOfSeq DEF IsList
<1>3. PICK run : run[0] = pg /\ IsRun("event", run, seq) /\ new = run[n]
  BY <1>1, <1>2, StoriesFold DEF IsFoldOf
<1>4. PICK old : old = pg.storiesById[s]
  OBVIOUS
<1>5. old \in Seq(Events)
  BY <1>4, StoryTyped
<1> DEFINE Shows(p, k) ==
      /\ p \in Pages
      /\ Begins(old, p.storiesById[s])
      /\ Cardinality(NonRows(p.storiesById[s])) = Cardinality(NonRows(old))
      /\ TailIs(p.storiesById[s], seq, k, s)
      /\ (\A i \in 1..k : seq[i].story_id # s) => p.storiesById[s] = old
    Good == {k \in Nat : Shows(run[k], k)}
<1>6. 0 \in Good
  <2>1. About(seq, 0, s) = {}
    BY DEF About
  <2>2. Begins(old, old)
    BY <1>5, BeginsItself
  <2> QED BY <1>3, <1>4, <2>1, <2>2, TailNone
<1>7. ASSUME NEW k \in Nat, k < n, k \in Good
      PROVE  k + 1 \in Good
  <2>1. k + 1 \in 1..n /\ (k + 1) - 1 = k /\ k + 1 \in 1..(k + 1)
        /\ \A i \in 1..k : i \in 1..(k + 1)
    BY <1>7
  <2>2. PICK row \in TableRows : row = seq[k + 1]
    BY <1>2, <2>1
  <2>3. PICK p : p = run[k] /\ Shows(p, k)
    BY <1>7
  <2>4. PICK q : q = AddStoryEvent(p, row.story_id, row)
    OBVIOUS
  <2>5. run[k + 1] = q
    BY <1>1, <1>3, <2>1, <2>2, <2>3, <2>4, DoesEach DEF IsRun, AddRowToStory
  <2>6. PICK story, longer : story = p.storiesById[s] /\ longer = q.storiesById[s]
    OBVIOUS
  <2>7. row \in Events /\ IsRow(row) /\ row.story_id \in Optional(Tokens)
    BY RowIsEvent
  <2>8. /\ q \in Pages
        /\ longer = IF s = row.story_id THEN Append(story, row) ELSE story
    BY <2>3, <2>4, <2>6, <2>7, EventAdded
  <2>9. /\ story \in Seq(Events) /\ longer \in Seq(Events)
        /\ Begins(old, story) /\ Cardinality(NonRows(story)) = Cardinality(NonRows(old))
        /\ TailIs(story, seq, k, s)
        /\ (\A i \in 1..k : seq[i].story_id # s) => story = old
    BY <2>3, <2>6, <2>8, StoryTyped
  <2>10. CASE s = row.story_id
    <3>1. longer = Append(story, row)
      BY <2>8, <2>10
    <3>2. Begins(story, longer)
      BY <2>7, <2>9, <3>1, GrowsByOne
    <3>3. Begins(old, longer)
      BY <1>5, <2>9, <3>2, BeginsTransitive
    <3>4. Cardinality(NonRows(longer)) = Cardinality(NonRows(old))
      BY <2>7, <2>9, <3>1, OneMoreNonRow
    <3>5. TailIs(longer, seq, k + 1, s)
      BY <2>2, <2>9, <2>10, <3>1, TailAppended
    <3>6. ~\A i \in 1..(k + 1) : seq[i].story_id # s
      BY <2>1, <2>2, <2>10
    <3>7. Shows(q, k + 1)
      BY <2>6, <2>8, <3>3, <3>4, <3>5, <3>6
    <3> HIDE DEF Shows
    <3> QED BY <2>5, <3>7
  <2>11. CASE s # row.story_id
    <3>1. longer = story
      BY <2>8, <2>11
    <3>2. TailIs(longer, seq, k + 1, s)
      BY <2>2, <2>9, <2>11, <3>1, TailOther
    <3>3. (\A i \in 1..(k + 1) : seq[i].story_id # s) => longer = old
      BY <2>1, <2>9, <3>1
    <3>4. Shows(q, k + 1)
      BY <2>6, <2>8, <2>9, <3>1, <3>2, <3>3
    <3> HIDE DEF Shows
    <3> QED BY <2>5, <3>4
  <2> QED BY <2>10, <2>11
<1>8. \A k \in 0..n : k \in Good
  <2> HIDE DEF Good
  <2> QED BY <1>6, <1>7, UpTo
<1>9. Shows(new, n)
  BY <1>1, <1>3, <1>8
<1> QED BY <1>1, <1>4, <1>9

(* A timeline that grows keeps its first event.                            *)
LEMMA FirstKept ==
  ASSUME NEW story, story \in Seq(Events), NEW longer, longer \in Seq(Events),
         Begins(story, longer), story # <<>>
  PROVE  longer # <<>> /\ longer[1] = story[1]
<1>1. PICK n \in Nat, m \in Nat : n = Len(story) /\ n # 0 /\ m = Len(longer)
  BY LenProperties, EmptySeq
<1>2. n <= m /\ \A i \in 1..n : longer[i] = story[i]
  BY <1>1 DEF Begins
<1>3. 1 \in 1..n /\ m # 0
  BY <1>1, <1>2
<1> QED BY <1>1, <1>2, <1>3

(* The issuances of a snapshot only add to the timelines.                  *)
LEMMA IssuancesGrow ==
  ASSUME NEW pg \in Pages, NEW seq, seq \in Seq(Tokens)
  PROVE  StoriesGrow(pg, FoldLeft(AddIssuance, pg, seq))
<1> DEFINE G == {p \in Pages : StoriesGrow(pg, p)}
<1>1. IsList(seq) /\ \A k \in 1..Len(seq) : seq[k] \in Tokens
  BY LenProperties, ElementOfSeq DEF IsList
<1>2. IsFoldOf(FoldLeft(AddIssuance, pg, seq), "issuance", pg, seq)
  BY <1>1, IssuancesFold
<1>3. pg \in G
  BY SameStoriesGrow DEF SameStories
<1>4. ASSUME NEW k \in 1..Len(seq), NEW p \in G
      PROVE  Does("issuance", p, seq[k]) \in G
  <2>1. PICK s \in Tokens : s = seq[k]
    BY <1>1
  <2>2. PICK q : q = AddStoryEvent(p, s, IssuanceEvent(s))
    OBVIOUS
  <2>3. q \in Pages /\ StoriesGrow(p, q)
    BY <2>2, EventAdded, EventGrows, IssuanceIsEvent DEF Optional
  <2>4. StoriesGrow(pg, q)
    BY <2>3, GrowTransitive
  <2>5. Does("issuance", p, seq[k]) = q
    BY <2>1, <2>2, DoesEach DEF AddIssuance
  <2> QED BY <2>3, <2>4, <2>5
<1> HIDE DEF G
<1>5. FoldLeft(AddIssuance, pg, seq) \in G
  BY <1>1, <1>2, <1>3, <1>4, FoldKeeps
<1> QED BY <1>5 DEF G

(* So does any message.                                                    *)
LEMMA MessageGrows ==
  ASSUME NEW pg \in Pages, NEW msg \in Messages
  PROVE  StoriesGrow(pg, OnMessage(pg, msg))
<1>1. PICK new \in Pages : new = OnMessage(pg, msg)
  BY MessageRead
<1>2. CASE msg.type = "snapshot" /\ msg \in Snapshots
  <2>1. PICK p \in Pages : SameStories(p, pg) /\ SameStories(new, ToldFrom(p, msg))
    BY <1>1, <1>2, SnapshotShown
  <2>2. msg.issuances \in Seq(Tokens) /\ msg.rows \in Seq(TableRows)
    BY <1>2 DEF Snapshots
  <2>3. PICK q : q = FoldLeft(AddIssuance, p, msg.issuances)
    OBVIOUS
  <2>4. q \in Pages /\ StoriesGrow(p, q)
    BY <2>2, <2>3, IssuancesRead, IssuancesGrow
  <2>5. PICK r : r = FoldLeft(AddRowToStory, q, msg.rows)
    OBVIOUS
  <2>6. r \in Pages /\ StoriesGrow(q, r)
    BY <2>2, <2>4, <2>5, EventsRead, RowsTold DEF StoriesGrow
  <2>7. StoriesGrow(p, r)
    BY <2>4, <2>6, GrowTransitive
  <2>8. SameStories(new, r)
    BY <2>1, <2>3, <2>5 DEF ToldFrom
  <2> QED BY <1>1, <2>1, <2>7, <2>8 DEF StoriesGrow, SameStories
<1>3. CASE /\ msg.type = "row" /\ msg.row \in TableRows
           /\ new = AddRowToStory(AddRow(pg, msg.row), msg.row)
           /\ AddRow(pg, msg.row) \in Pages
  <2>1. PICK p \in Pages : p = AddRow(pg, msg.row)
    BY <1>3
  <2>2. SameStories(pg, p)
    BY <1>3, <2>1, RowAdded DEF SameStories
  <2>3. StoriesGrow(pg, p)
    BY <2>2, SameStoriesGrow
  <2>4. StoriesGrow(p, new)
    BY <1>3, <2>1, EventGrows, RowIsEvent DEF AddRowToStory
  <2> QED BY <1>1, <2>3, <2>4, GrowTransitive
<1>4. CASE /\ msg.type = "issuance" /\ msg.story_id \in Tokens
           /\ new = AddIssuance(pg, msg.story_id)
  BY <1>1, <1>4, EventGrows, IssuanceIsEvent DEF AddIssuance, Optional
<1>5. CASE new = [pg EXCEPT !.rate_limited = msg.total]
  BY <1>1, <1>5, SameStoriesGrow DEF SameStories, Pages
<1>6. CASE msg.type = "log" /\ msg.line \in Texts /\ new = AddLog(pg, msg.line)
  <2>1. SameStories(pg, new)
    BY <1>6, LineAdded DEF SameStories
  <2> QED BY <1>1, <2>1, SameStoriesGrow
<1>7. CASE new = [pg EXCEPT !.counts = msg.counts]
  BY <1>1, <1>7, SameStoriesGrow DEF SameStories, Pages
<1>8. CASE new = pg
  BY <1>1, <1>8, SameStoriesGrow DEF SameStories
<1> QED BY <1>1, <1>2, <1>3, <1>4, <1>5, <1>6, <1>7, <1>8, MessageRead

(* So do any number of messages.                                           *)
LEMMA AfterGrows ==
  ASSUME NEW pg \in Pages, NEW msgs, msgs \in Seq(Messages)
  PROVE  StoriesGrow(pg, After(pg, msgs))
<1> DEFINE G == {p \in Pages : StoriesGrow(pg, p)}
<1>1. IsList(msgs) /\ \A k \in 1..Len(msgs) : msgs[k] \in Messages
  BY LenProperties, ElementOfSeq DEF IsList
<1>2. IsFoldOf(After(pg, msgs), "message", pg, msgs)
  BY <1>1, MessagesFold DEF After
<1>3. pg \in G
  BY SameStoriesGrow DEF SameStories
<1>4. ASSUME NEW k \in 1..Len(msgs), NEW p \in G
      PROVE  Does("message", p, msgs[k]) \in G
  <2>1. PICK msg \in Messages : msg = msgs[k]
    BY <1>1
  <2>2. PICK q \in Pages : q = OnMessage(p, msg)
    BY MessageRead
  <2>3. StoriesGrow(pg, q)
    BY <2>2, MessageGrows, GrowTransitive
  <2> QED BY <2>1, <2>2, <2>3, DoesEach
<1> HIDE DEF G
<1>5. After(pg, msgs) \in G
  BY <1>1, <1>2, <1>3, <1>4, FoldKeeps
<1> QED BY <1>5 DEF G

(* A page that was away is told everything it may have missed.             *)
LEMMA SnapshotTells ==
  ASSUME NEW pg \in Pages, NEW msg \in Snapshots,
         \A i, j \in DOMAIN msg.issuances : msg.issuances[i] = msg.issuances[j] => i = j,
         NEW new, new = OnMessage(pg, msg), NEW s \in Tokens,
         NEW old, old = pg.storiesById[s], NEW story, story = new.storiesById[s]
  PROVE  /\ old # <<>> => story # <<>> /\ story[1] = old[1]
         /\ old = <<>> /\ (\E i \in DOMAIN msg.issuances : msg.issuances[i] = s) =>
              story # <<>> /\ story[1] = IssuanceEvent(s)
         /\ Cardinality(NonRows(story)) <= Cardinality(NonRows(old)) + 1
         /\ TailIs(story, msg.rows, Len(msg.rows), s)
         /\ (/\ ~\E i \in DOMAIN msg.issuances : msg.issuances[i] = s
             /\ \A i \in DOMAIN msg.rows : msg.rows[i].story_id # s) => story = old
<1>1. PICK p \in Pages : SameStories(p, pg) /\ SameStories(new, ToldFrom(p, msg))
  BY SnapshotShown
<1>2. msg.issuances \in Seq(Tokens) /\ msg.rows \in Seq(TableRows)
  BY DEF Snapshots
<1>3. PICK q : q = FoldLeft(AddIssuance, p, msg.issuances)
  OBVIOUS
<1>4. PICK r : r = FoldLeft(AddRowToStory, q, msg.rows)
  OBVIOUS
<1>5. story = r.storiesById[s] /\ old = p.storiesById[s]
  BY <1>1, <1>3, <1>4 DEF SameStories, ToldFrom
<1>6. PICK issued : issued <=> \E i \in DOMAIN msg.issuances : msg.issuances[i] = s
  OBVIOUS
<1>7. PICK event : event = IssuanceEvent(s) /\ event \in Events
  BY IssuanceIsEvent
<1>8. PICK mid : mid = q.storiesById[s]
  OBVIOUS
<1>9. q \in Pages /\ mid = IF issued THEN Append(old, event) ELSE old
  BY <1>2, <1>3, <1>5, <1>6, <1>7, <1>8, IssuancesRead, IssuancesAdd
<1>10. /\ Begins(mid, story)
       /\ Cardinality(NonRows(story)) = Cardinality(NonRows(mid))
       /\ TailIs(story, msg.rows, Len(msg.rows), s)
       /\ (\A i \in DOMAIN msg.rows : msg.rows[i].story_id # s) => story = mid
  <2>1. PICK list : list = msg.rows
    OBVIOUS
  <2>2. list \in Seq(TableRows) /\ r = FoldLeft(AddRowToStory, q, list)
    BY <1>2, <1>4, <2>1
  <2>3. /\ Begins(q.storiesById[s], r.storiesById[s])
        /\ Cardinality(NonRows(r.storiesById[s])) = Cardinality(NonRows(q.storiesById[s]))
        /\ TailIs(r.storiesById[s], list, Len(list), s)
        /\ (\A i \in DOMAIN list : list[i].story_id # s) =>
             r.storiesById[s] = q.storiesById[s]
    BY <1>9, <2>2, RowsTold
  <2> QED BY <1>5, <1>8, <2>1, <2>3
<1>11. r \in Pages
  BY <1>2, <1>4, <1>9, EventsRead
<1>12. old \in Seq(Events) /\ mid \in Seq(Events) /\ story \in Seq(Events)
  BY <1>5, <1>8, <1>9, <1>11, StoryTyped
<1>13. Cardinality(NonRows(mid)) <= Cardinality(NonRows(old)) + 1
  <2>1. Cardinality(NonRows(old)) \in Nat
    BY <1>12, NonRowsCounted
  <2> QED BY <1>7, <1>9, <1>12, <2>1, OneMoreNonRow
<1>14. mid # <<>> => story # <<>> /\ story[1] = mid[1]
  BY <1>10, <1>12, FirstKept
<1>15. Begins(old, mid)
  BY <1>7, <1>9, <1>12, GrowsByOne, BeginsItself
<1>16. old # <<>> => mid # <<>> /\ mid[1] = old[1]
  BY <1>12, <1>15, FirstKept
<1>17. old = <<>> /\ issued => mid # <<>> /\ mid[1] = event
  <2> SUFFICES ASSUME old = <<>>, issued PROVE mid # <<>> /\ mid[1] = event
    OBVIOUS
  <2>1. mid = <<event>>
    BY <1>9
  <2> QED BY <2>1
<1> QED BY <1>6, <1>7, <1>9, <1>10, <1>13, <1>14, <1>16, <1>17

(***************************************************************************)
(* The timelines, step by step.                                            *)
(***************************************************************************)
LEMMA PushedElements ==
  ASSUME NEW S, NEW deque, deque \in Seq(S), NEW x \in S,
         NEW new, new = PushedOn(deque, x)
  PROVE  \E n \in Nat :
           /\ n = Len(deque) /\ DOMAIN deque = 1..n
           /\ \/ /\ DOMAIN new = 1..(n + 1) /\ Len(new) = n + 1
                 /\ new[n + 1] = x /\ \A i \in 1..n : new[i] = deque[i]
              \/ /\ DOMAIN new = 1..n /\ Len(new) = n
                 /\ \A i \in 1..n :
                      new[i] = IF i = n THEN x ELSE deque[i + 1]
<1>1. PICK n \in Nat : n = Len(deque) /\ DOMAIN deque = 1..n
  BY LenProperties
<1>2. PICK all : all = Append(deque, x)
  OBVIOUS
<1>3. /\ all \in Seq(S) /\ Len(all) = n + 1 /\ DOMAIN all = 1..(n + 1)
      /\ all[n + 1] = x /\ \A i \in 1..n : all[i] = deque[i]
  <2>1. /\ all \in Seq(S) /\ Len(all) = n + 1 /\ all[n + 1] = x
        /\ \A i \in 1..n : all[i] = deque[i]
    BY <1>1, <1>2, AppendProperties
  <2> QED BY <2>1, LenProperties
<1>4. new = IF n + 1 > MaxRows THEN Tail(all) ELSE all
  BY <1>2, <1>3 DEF PushedOn
<1>5. CASE new = all
  BY <1>1, <1>3, <1>5
<1>6. CASE new = Tail(all)
  <2>1. all # <<>>
    BY <1>3
  <2>2. /\ Tail(all) \in Seq(S) /\ Len(Tail(all)) = Len(all) - 1
        /\ \A i \in 1..Len(Tail(all)) : Tail(all)[i] = all[i + 1]
    BY <1>3, <2>1, HeadTailProperties
  <2>3. new \in Seq(S) /\ Len(new) = n /\ \A i \in 1..n : new[i] = all[i + 1]
    BY <1>3, <1>6, <2>2
  <2>4. DOMAIN new = 1..n
    BY <2>3, LenProperties
  <2>5. \A i \in 1..n : i # n => i + 1 \in 1..n
    OBVIOUS
  <2>6. \A i \in 1..n : new[i] = IF i = n THEN x ELSE deque[i + 1]
    BY <1>3, <2>3, <2>5
  <2> QED BY <1>1, <2>3, <2>4, <2>6
<1> QED BY <1>4, <1>5, <1>6

(* What is in a deque was there, or was just pushed.                       *)
LEMMA PushedFrom ==
  ASSUME NEW S, NEW deque, deque \in Seq(S), NEW x \in S,
         NEW new, new = PushedOn(deque, x), NEW i \in DOMAIN new
  PROVE  new[i] = x \/ \E j \in DOMAIN deque : new[i] = deque[j]
<1>1. PICK n \in Nat :
        /\ n = Len(deque) /\ DOMAIN deque = 1..n
        /\ \/ /\ DOMAIN new = 1..(n + 1) /\ Len(new) = n + 1
              /\ new[n + 1] = x /\ \A k \in 1..n : new[k] = deque[k]
           \/ /\ DOMAIN new = 1..n /\ Len(new) = n
              /\ \A k \in 1..n : new[k] = IF k = n THEN x ELSE deque[k + 1]
  BY PushedElements
<1>2. n \in Nat
  BY <1>1
<1>3. /\ \A k \in 1..(n + 1) : k # n + 1 => k \in 1..n
      /\ \A k \in 1..n : k # n => k + 1 \in 1..n
  BY <1>2
<1> QED BY <1>1, <1>3

(* A deque without repetitions has none with something new.                *)
LEMMA PushedOnce ==
  ASSUME NEW S, NEW deque, deque \in Seq(S), NEW x \in S,
         \A i \in DOMAIN deque : deque[i] # x,
         \A i, j \in DOMAIN deque : deque[i] = deque[j] => i = j,
         NEW new, new = PushedOn(deque, x)
  PROVE  \A i, j \in DOMAIN new : new[i] = new[j] => i = j
<1>1. PICK n \in Nat :
        /\ n = Len(deque) /\ DOMAIN deque = 1..n
        /\ \/ /\ DOMAIN new = 1..(n + 1) /\ Len(new) = n + 1
              /\ new[n + 1] = x /\ \A k \in 1..n : new[k] = deque[k]
           \/ /\ DOMAIN new = 1..n /\ Len(new) = n
              /\ \A k \in 1..n : new[k] = IF k = n THEN x ELSE deque[k + 1]
  BY PushedElements
<1>2. CASE /\ DOMAIN new = 1..(n + 1)
           /\ new[n + 1] = x /\ \A k \in 1..n : new[k] = deque[k]
  <2>1. \A k \in 1..(n + 1) : k # n + 1 => k \in 1..n
    BY <1>1
  <2> QED BY <1>1, <1>2, <2>1
<1>3. CASE /\ DOMAIN new = 1..n
           /\ \A k \in 1..n : new[k] = IF k = n THEN x ELSE deque[k + 1]
  <2>1. \A k \in 1..n : k # n => k + 1 \in 1..n
    BY <1>1
  <2>2. \A i, j \in 1..n : i + 1 = j + 1 => i = j
    BY <1>1
  <2>3. ASSUME NEW i \in 1..n, NEW j \in 1..n, new[i] = new[j]
        PROVE  i = j
    <3>1. \A k \in 1..n : k # n => new[k] # x
      BY <1>1, <1>3, <2>1
    <3>2. \A k \in 1..n : k = n => new[k] = x
      BY <1>3
    <3>3. CASE i = n \/ j = n
      BY <2>3, <3>1, <3>2, <3>3
    <3>4. CASE i # n /\ j # n
      <4>1. new[i] = deque[i + 1] /\ new[j] = deque[j + 1]
        BY <1>3, <3>4
      <4>2. i + 1 \in 1..n /\ j + 1 \in 1..n
        BY <2>1, <3>4
      <4>3. i + 1 = j + 1
        BY <1>1, <2>3, <4>1, <4>2
      <4> QED BY <2>2, <4>3
    <3> QED BY <3>3, <3>4
  <2> QED BY <1>3, <2>3
<1> QED BY <1>1, <1>2, <1>3

(* The end depends on the list up to n.                                    *)
LEMMA TailSame ==
  ASSUME NEW story, NEW list, NEW n \in Nat, NEW s, TailIs(story, list, n, s),
         NEW other, \A i \in 1..n : other[i] = list[i]
  PROVE  TailIs(story, other, n, s)
<1>1. About(other, n, s) = About(list, n, s) /\ About(list, n, s) \subseteq 1..n
  BY DEF About
<1>2. PICK f : Places(f, story, list, n, s)
  BY DEF TailIs
<1>3. Places(f, story, other, n, s)
  BY <1>1, <1>2 DEF Places
<1> QED BY <1>3 DEF TailIs

(* Table and timeline get a row together, and still end alike.             *)
LEMMA TailPushed ==
  ASSUME NEW deque, deque \in Seq(TableRows), NEW row \in TableRows,
         NEW new, new = PushedOn(deque, row), NEW story, story \in Seq(Events), NEW s,
         TailIs(story, deque, Len(deque), s),
         NEW longer, longer = IF row.story_id = s THEN Append(story, row) ELSE story
  PROVE  TailIs(longer, new, Len(new), s)
<1>1. PICK n \in Nat :
        /\ n = Len(deque) /\ DOMAIN deque = 1..n
        /\ \/ /\ DOMAIN new = 1..(n + 1) /\ Len(new) = n + 1
              /\ new[n + 1] = row /\ \A k \in 1..n : new[k] = deque[k]
           \/ /\ DOMAIN new = 1..n /\ Len(new) = n
              /\ \A k \in 1..n : new[k] = IF k = n THEN row ELSE deque[k + 1]
  BY PushedElements
<1> DEFINE all == [i \in (1..n) \cup {n + 1} |-> IF i = n + 1 THEN row ELSE deque[i]]
<1>2. all[n + 1] = row /\ \A i \in 1..n : all[i] = deque[i]
  <2>1. n + 1 \notin 1..n
    BY <1>1
  <2> QED BY <2>1
<1> HIDE DEF all
<1>3. TailIs(story, all, n, s)
  BY <1>1, <1>2, TailSame
<1>4. TailIs(longer, all, n + 1, s)
  <2>1. CASE row.story_id = s
    BY <1>2, <1>3, <2>1, TailAppended
  <2>2. CASE row.story_id # s
    BY <1>2, <1>3, <2>2, TailOther
  <2> QED BY <2>1, <2>2
<1>5. CASE /\ Len(new) = n + 1
           /\ new[n + 1] = row /\ \A k \in 1..n : new[k] = deque[k]
  <2>1. \A i \in 1..(n + 1) : i = n + 1 \/ i \in 1..n
    BY <1>1
  <2>2. \A i \in 1..(n + 1) : new[i] = all[i]
    BY <1>2, <1>5, <2>1
  <2>3. n + 1 \in Nat
    BY <1>1
  <2> QED BY <1>4, <1>5, <2>2, <2>3, TailSame
<1>6. CASE /\ Len(new) = n
           /\ \A k \in 1..n : new[k] = IF k = n THEN row ELSE deque[k + 1]
  <2>1. \A k \in 1..n : k # n => k + 1 \in 1..n
    BY <1>1
  <2>2. \A k \in 1..n : new[k] = all[k + 1]
    BY <1>2, <1>6, <2>1
  <2>3. longer \in Seq(Events)
    BY GrowsByOne, RowIsEvent
  <2> QED BY <1>1, <1>4, <1>6, <2>2, <2>3, TailDropped
<1> QED BY <1>1, <1>5, <1>6

(* What StoriesTold asks of a timeline, of what the dashboard then keeps.  *)
Tells(story, s, up, times, issued, table) ==
  /\ (\E i \in DOMAIN issued : issued[i] = s) =>
       IF story = <<>> THEN ~up ELSE story[1] = IssuanceEvent(s)
  /\ Cardinality(NonRows(story)) <= times
  /\ up => TailIs(story, table, Len(table), s)

NothingAbout(s, issued, table) ==
  /\ \A i \in DOMAIN table : table[i].story_id # s
  /\ \A i \in DOMAIN issued : issued[i] # s

(* The invariant, said of one page and one token at a time.                *)
LEMMA StoryInvIs ==
  WebTyped =>
    (StoryInv <=>
      /\ IssuedOnce
      /\ \A s \in Tokens \ told : NothingAbout(s, issuances, rows)
      /\ \A b \in Browsers, s \in Tokens :
           /\ s \notin told => StoryToBe(b, s) = <<>>
           /\ Tells(StoryToBe(b, s), s, online[b], opened[b], issuances, rows))
<1> SUFFICES ASSUME WebTyped
             PROVE  StoryInv <=>
                      /\ IssuedOnce
                      /\ \A s \in Tokens \ told : NothingAbout(s, issuances, rows)
                      /\ \A b \in Browsers, s \in Tokens :
                           /\ s \notin told => StoryToBe(b, s) = <<>>
                           /\ Tells(StoryToBe(b, s), s, online[b], opened[b],
                                    issuances, rows)
  OBVIOUS
<1>1. PICK n \in Nat : n = Len(rows) /\ rows \in Seq(TableRows)
  BY LenProperties DEF WebTyped
<1>2. \A story, s : EndsWithRows(story, s) <=> TailIs(story, rows, Len(rows), s)
  BY <1>1, TailShows, ShownIsTail
<1>3. UntoldUnknown <=>
        \A s \in Tokens \ told : /\ NothingAbout(s, issuances, rows)
                                 /\ \A b \in Browsers : StoryToBe(b, s) = <<>>
  BY DEF UntoldUnknown, NothingAbout
<1>4. StoriesTold <=>
        \A b \in Browsers, s \in Tokens :
          Tells(StoryToBe(b, s), s, online[b], opened[b], issuances, rows)
  BY <1>2 DEF StoriesTold, Tells
<1> QED BY <1>3, <1>4 DEF StoryInv

(* What a page will show is a page, and its timelines are lists of events. *)
LEMMA StoryToBeTyped ==
  ASSUME WebTyped, NEW b \in Browsers, NEW s \in Tokens
  PROVE  /\ After(page[b], channel[b]) \in Pages
         /\ StoryToBe(b, s) \in Seq(Events)
<1>1. channel[b] \in Seq(Messages) /\ page[b] \in Pages
  BY DEF WebTyped
<1>2. After(page[b], channel[b]) \in Pages
  BY <1>1, AfterTyped
<1> QED BY <1>2, StoryTyped DEF StoryToBe

(* A page after a step: its timeline is the one to be told.                *)
StoryNext(b, s) ==
  /\ s \notin told' => StoryToBe(b, s)' = <<>>
  /\ Tells(StoryToBe(b, s)', s, online'[b], opened'[b], issuances', rows')

(* It is enough to show it for one page and one token at a time.           *)
LEMMA StoryInvNext ==
  ASSUME WebTyped', IssuedOnce',
         \A s \in Tokens \ told' : NothingAbout(s, issuances', rows'),
         \A b \in Browsers, s \in Tokens : StoryNext(b, s)
  PROVE  StoryInv'
<1>1. (WebTyped =>
        (StoryInv <=>
          /\ IssuedOnce
          /\ \A s \in Tokens \ told : NothingAbout(s, issuances, rows)
          /\ \A b \in Browsers, s \in Tokens :
               /\ s \notin told => StoryToBe(b, s) = <<>>
               /\ Tells(StoryToBe(b, s), s, online[b], opened[b], issuances, rows)))'
  BY StoryInvIs, PTL
<1>2. \A b \in Browsers, s \in Tokens :
        /\ s \notin told' => StoryToBe(b, s)' = <<>>
        /\ Tells(StoryToBe(b, s)', s, online'[b], opened'[b], issuances', rows')
  BY DEF StoryNext
<1> QED BY <1>1, <1>2

(* What does not touch the timeline, the list and the connection.          *)
LEMMA StoryKept ==
  ASSUME WebTyped, StoryInv, NEW b \in Browsers, NEW s \in Tokens,
         UNCHANGED <<rows, issuances, told>>,
         StoryToBe(b, s)' = StoryToBe(b, s), opened'[b] = opened[b],
         online'[b] = online[b]
  PROVE  StoryNext(b, s)
BY StoryInvIs DEF StoryNext

(* A connection that breaks leaves the page with the beginning of what it  *)
(* would have shown.                                                       *)
LEMMA StoryCut ==
  ASSUME WebTyped, StoryInv, NEW b \in Browsers, NEW s \in Tokens,
         UNCHANGED <<told, opened, page>>, ~online'[b], channel'[b] = <<>>,
         \A i \in DOMAIN issuances' : issuances'[i] = s =>
           \E j \in DOMAIN issuances : issuances[j] = s
  PROVE  StoryNext(b, s)
<1>1. PICK story, cut : story = StoryToBe(b, s) /\ cut = page[b].storiesById[s]
  OBVIOUS
<1>2. channel[b] \in Seq(Messages) /\ page[b] \in Pages
  BY DEF WebTyped
<1>3. story \in Seq(Events) /\ cut \in Seq(Events)
  BY <1>1, <1>2, StoryToBeTyped, StoryTyped
<1>4. Begins(cut, story)
  BY <1>1, <1>2, AfterGrows DEF StoriesGrow, StoryToBe
<1>5. /\ Tells(story, s, online[b], opened[b], issuances, rows)
      /\ s \notin told => story = <<>>
  BY <1>1, StoryInvIs
<1>6. StoryToBe(b, s)' = cut
  BY <1>1, AfterNone DEF StoryToBe
<1>7. cut # <<>> => story # <<>> /\ cut[1] = story[1]
  BY <1>3, <1>4, FirstKept
<1>8. Cardinality(NonRows(cut)) <= opened[b]
  <2>1. Cardinality(NonRows(cut)) <= Cardinality(NonRows(story))
    BY <1>3, <1>4, FewerNonRows
  <2>2. Cardinality(NonRows(story)) <= opened[b]
    BY <1>5 DEF Tells
  <2>3. /\ Cardinality(NonRows(cut)) \in Nat /\ Cardinality(NonRows(story)) \in Nat
        /\ opened[b] \in Nat
    BY <1>3, NonRowsCounted DEF WebTyped
  <2> QED BY <2>1, <2>2, <2>3
<1>9. (\E i \in DOMAIN issuances' : issuances'[i] = s) =>
        IF cut = <<>> THEN ~online'[b] ELSE cut[1] = IssuanceEvent(s)
  BY <1>5, <1>7 DEF Tells
<1>10. Tells(cut, s, online'[b], opened'[b], issuances', rows')
  BY <1>8, <1>9 DEF Tells
<1>11. s \notin told' => cut = <<>>
  BY <1>5, <1>7
<1> QED BY <1>6, <1>10, <1>11 DEF StoryNext

(* An event adds to one timeline of the pages that are connected.          *)
LEMMA StorySent ==
  ASSUME WebTyped, NEW msgs, Sends(msgs), NEW story, NEW event, Adds(msgs, story, event),
         NEW b \in Browsers, NEW s \in Tokens
  PROVE  /\ opened'[b] = opened[b] /\ online'[b] = online[b]
         /\ StoryToBe(b, s)' = IF online[b] /\ s = story
                                 THEN Append(StoryToBe(b, s), event)
                                 ELSE StoryToBe(b, s)
<1>1. /\ msgs \in Seq(Messages) /\ UNCHANGED <<opened, online, page>>
      /\ channel'[b] = IF online[b] THEN channel[b] \o msgs ELSE channel[b]
  BY DEF Sends
<1>2. channel[b] \in Seq(Messages) /\ page[b] \in Pages
  BY DEF WebTyped
<1>3. PICK p \in Pages : p = After(page[b], channel[b])
  BY StoryToBeTyped
<1>4. After(page'[b], channel'[b]) = IF online[b] THEN After(p, msgs) ELSE p
  BY <1>1, <1>2, <1>3, AfterConcat
<1>5. After(p, msgs).storiesById[s] =
        IF s = story THEN Append(p.storiesById[s], event) ELSE p.storiesById[s]
  BY DEF Adds
<1> QED BY <1>1, <1>3, <1>4, <1>5 DEF StoryToBe

(* A row on the timeline of its token.                                     *)
LEMMA StoryOfRow ==
  ASSUME WebTyped, StoryInv, NEW msgs, Sends(msgs), NEW row \in TableRows,
         rows' = PushedOn(rows, row), UNCHANGED issuances, Adds(msgs, row.story_id, row),
         told' = told \cup ({row.story_id} \ {None}), NEW s \in Tokens
  PROVE  /\ s \notin told' => NothingAbout(s, issuances', rows')
         /\ \A b \in Browsers : StoryNext(b, s)
<1>1. PICK list : list = rows /\ list \in Seq(TableRows)
  BY DEF WebTyped
<1>2. row \in Events /\ IsRow(row)
  BY RowIsEvent
<1>3. s \notin told' => s \notin told /\ row.story_id # s
  BY NoneAssumption
<1>4. s \notin told' => NothingAbout(s, issuances', rows')
  <2> SUFFICES ASSUME s \notin told'
               PROVE  NothingAbout(s, issuances', rows')
    OBVIOUS
  <2>1. NothingAbout(s, issuances, rows)
    BY <1>3, StoryInvIs
  <2>2. \A i \in DOMAIN rows' : rows'[i] = row \/ \E j \in DOMAIN rows : rows'[i] = rows[j]
    BY <1>1, PushedFrom
  <2> QED BY <1>3, <2>1, <2>2 DEF NothingAbout
<1>5. ASSUME NEW b \in Browsers
      PROVE  StoryNext(b, s)
  <2>1. PICK story : story = StoryToBe(b, s) /\ story \in Seq(Events)
    BY StoryToBeTyped
  <2>2. PICK longer : longer = StoryToBe(b, s)'
    OBVIOUS
  <2>3. /\ opened'[b] = opened[b] /\ online'[b] = online[b]
        /\ longer = IF online[b] /\ s = row.story_id THEN Append(story, row) ELSE story
    BY <2>1, <2>2, StorySent
  <2>4. /\ Tells(story, s, online[b], opened[b], issuances, rows)
        /\ s \notin told => story = <<>>
    BY <2>1, StoryInvIs
  <2>5. (\E i \in DOMAIN issuances : issuances[i] = s) =>
          IF longer = <<>> THEN ~online[b] ELSE longer[1] = IssuanceEvent(s)
    <3>1. CASE story # <<>>
      <4>1. longer \in Seq(Events) /\ Begins(story, longer)
        BY <1>2, <2>1, <2>3, GrowsByOne, BeginsItself
      <4>2. longer # <<>> /\ longer[1] = story[1]
        BY <2>1, <3>1, <4>1, FirstKept
      <4> QED BY <2>4, <3>1, <4>2 DEF Tells
    <3>2. CASE ~online[b]
      BY <2>3, <2>4, <3>2 DEF Tells
    <3>3. CASE story = <<>> /\ online[b]
      BY <2>4, <3>3 DEF Tells
    <3> QED BY <3>1, <3>2, <3>3
  <2>6. Cardinality(NonRows(longer)) = Cardinality(NonRows(story))
    BY <1>2, <2>1, <2>3, OneMoreNonRow
  <2>7. online[b] => TailIs(longer, rows', Len(rows'), s)
    <3> SUFFICES ASSUME online[b]
                 PROVE  TailIs(longer, rows', Len(rows'), s)
      OBVIOUS
    <3>1. TailIs(story, rows, Len(rows), s)
      BY <2>4 DEF Tells
    <3>2. longer = IF row.story_id = s THEN Append(story, row) ELSE story
      BY <2>3
    <3> QED BY <1>1, <2>1, <3>1, <3>2, TailPushed
  <2>8. Tells(longer, s, online'[b], opened'[b], issuances', rows')
    BY <2>3, <2>4, <2>5, <2>6, <2>7 DEF Tells
  <2>9. s \notin told' => longer = <<>>
    BY <1>3, <2>3, <2>4
  <2> QED BY <2>2, <2>8, <2>9 DEF StoryNext
<1> QED BY <1>4, <1>5

(* An issuance of a token nothing was recorded about begins its timeline.  *)
LEMMA StoryOfIssuance ==
  ASSUME WebTyped, Linked, StoryInv, NEW msgs, Sends(msgs), NEW new \in Tokens,
         new \notin told, issuances' = PushedOn(issuances, new), UNCHANGED rows,
         Adds(msgs, new, IssuanceEvent(new)), told' = told \cup {new}, NEW s \in Tokens
  PROVE  /\ IssuedOnce'
         /\ s \notin told' => NothingAbout(s, issuances', rows')
         /\ \A b \in Browsers : StoryNext(b, s)
<1>1. PICK list : list = issuances /\ list \in Seq(Tokens)
  BY DEF WebTyped
<1>2. NothingAbout(new, issuances, rows)
  BY StoryInvIs
<1>3. \A i \in DOMAIN issuances' :
        issuances'[i] = new \/ \E j \in DOMAIN issuances : issuances'[i] = issuances[j]
  BY <1>1, PushedFrom
<1>4. IssuedOnce'
  <2>1. \A i, j \in DOMAIN list : list[i] = list[j] => i = j
    BY <1>1 DEF StoryInv, IssuedOnce
  <2>2. \A i \in DOMAIN list : list[i] # new
    BY <1>1, <1>2 DEF NothingAbout
  <2>3. PICK pushed : pushed = PushedOn(list, new)
    OBVIOUS
  <2>4. \A i, j \in DOMAIN pushed : pushed[i] = pushed[j] => i = j
    BY <1>1, <2>1, <2>2, <2>3, PushedOnce
  <2> QED BY <1>1, <2>3, <2>4 DEF IssuedOnce
<1>5. s \notin told' => NothingAbout(s, issuances', rows')
  <2> SUFFICES ASSUME s \notin told'
               PROVE  NothingAbout(s, issuances', rows')
    OBVIOUS
  <2>1. NothingAbout(s, issuances, rows) /\ s # new
    BY StoryInvIs
  <2> QED BY <1>3, <2>1 DEF NothingAbout
<1>6. ASSUME NEW b \in Browsers
      PROVE  StoryNext(b, s)
  <2>1. PICK story : story = StoryToBe(b, s) /\ story \in Seq(Events)
    BY StoryToBeTyped
  <2>2. PICK longer : longer = StoryToBe(b, s)'
    OBVIOUS
  <2>3. PICK event \in Events : event = IssuanceEvent(new)
    BY IssuanceIsEvent
  <2>4. /\ opened'[b] = opened[b] /\ online'[b] = online[b]
        /\ longer = IF online[b] /\ s = new THEN Append(story, event) ELSE story
    BY <2>1, <2>2, <2>3, StorySent
  <2>5. /\ Tells(story, s, online[b], opened[b], issuances, rows)
        /\ s \notin told => story = <<>>
    BY <2>1, StoryInvIs
  <2>6. CASE s # new
    <3>1. longer = story
      BY <2>4, <2>6
    <3>2. (\E i \in DOMAIN issuances' : issuances'[i] = s) =>
            \E i \in DOMAIN issuances : issuances[i] = s
      BY <1>3, <2>6
    <3>3. Tells(longer, s, online'[b], opened'[b], issuances', rows')
      BY <2>4, <2>5, <3>1, <3>2 DEF Tells
    <3> QED BY <2>2, <2>5, <3>1, <3>3 DEF StoryNext
  <2>7. CASE s = new
    <3>1. story = <<>> /\ s \in told'
      BY <2>5, <2>7
    <3>2. longer = IF online[b] THEN <<event>> ELSE <<>>
      BY <2>4, <2>7, <3>1
    <3>3. TailIs(longer, rows', Len(rows'), s)
      <4>1. About(rows', Len(rows'), s) = {}
        <5>1. DOMAIN rows = 1..Len(rows)
          BY LenProperties DEF WebTyped
        <5> QED BY <1>2, <2>7, <5>1 DEF About, NothingAbout
      <4> QED BY <4>1, TailNone
    <3>4. Cardinality(NonRows(longer)) <= opened'[b]
      <4>1. /\ Cardinality(NonRows(story)) \in Nat
            /\ Cardinality(NonRows(story)) = 0
        BY <2>1, <3>1, NonRowsCounted
      <4>2. opened[b] \in Nat /\ (online[b] => opened[b] # 0)
        BY DEF WebTyped, Linked
      <4>3. CASE online[b]
        <5>1. longer = Append(story, event)
          BY <2>4, <2>7, <4>3
        <5>2. longer \in Seq(Events)
          BY <2>1, <5>1, GrowsByOne
        <5>3. Cardinality(NonRows(longer)) \in Nat /\ Cardinality(NonRows(longer)) <= 0 + 1
          BY <2>1, <4>1, <5>1, <5>2, OneMoreNonRow, NonRowsCounted
        <5> QED BY <2>4, <4>2, <4>3, <5>3
      <4>4. CASE ~online[b]
        BY <2>4, <4>1, <4>2, <4>4
      <4> QED BY <4>3, <4>4
    <3>5. IF longer = <<>> THEN ~online'[b] ELSE longer[1] = IssuanceEvent(s)
      <4>1. online[b] => longer # <<>> /\ longer[1] = event
        BY <3>2
      <4>2. event = IssuanceEvent(s)
        BY <2>3, <2>7
      <4>3. CASE online[b]
        BY <4>1, <4>2, <4>3
      <4>4. CASE ~online[b]
        BY <2>4, <3>2, <4>4
      <4> QED BY <4>3, <4>4
    <3>6. Tells(longer, s, online'[b], opened'[b], issuances', rows')
      BY <3>3, <3>4, <3>5 DEF Tells
    <3> QED BY <2>2, <3>1, <3>6 DEF StoryNext
  <2> QED BY <2>6, <2>7
<1> QED BY <1>4, <1>5, <1>6

(* The invariant is kept by every event.                                   *)
LEMMA StoryOfEvent ==
  ASSUME WebTyped, Linked, StoryInv, WebTyped', NEW msgs, EventStep(msgs)
  PROVE  StoryInv'
<1>1. Sends(msgs)
  BY DEF EventStep
<1>2. CASE \E row \in TableRows :
             /\ rows' = PushedOn(rows, row) /\ UNCHANGED issuances
             /\ Adds(msgs, row.story_id, row)
             /\ told' = told \cup ({row.story_id} \ {None})
  <2>1. PICK row \in TableRows :
             /\ rows' = PushedOn(rows, row) /\ UNCHANGED issuances
             /\ Adds(msgs, row.story_id, row)
             /\ told' = told \cup ({row.story_id} \ {None})
    BY <1>2
  <2>2. \A s \in Tokens : /\ s \notin told' => NothingAbout(s, issuances', rows')
                          /\ \A b \in Browsers : StoryNext(b, s)
    BY <1>1, <2>1, StoryOfRow
  <2>3. IssuedOnce'
    BY <2>1 DEF StoryInv, IssuedOnce
  <2> QED BY <2>2, <2>3, StoryInvNext
<1>3. CASE \E new \in Tokens :
             /\ new \notin told
             /\ issuances' = PushedOn(issuances, new) /\ UNCHANGED rows
             /\ Adds(msgs, new, IssuanceEvent(new))
             /\ told' = told \cup {new}
  <2>1. PICK new \in Tokens :
             /\ new \notin told
             /\ issuances' = PushedOn(issuances, new) /\ UNCHANGED rows
             /\ Adds(msgs, new, IssuanceEvent(new))
             /\ told' = told \cup {new}
    BY <1>3
  <2>2. \A s \in Tokens : /\ IssuedOnce'
                          /\ s \notin told' => NothingAbout(s, issuances', rows')
                          /\ \A b \in Browsers : StoryNext(b, s)
    BY <1>1, <2>1, StoryOfIssuance
  <2>3. IssuedOnce'
    BY <2>1, <2>2
  <2> QED BY <2>2, <2>3, StoryInvNext
<1>4. CASE UNCHANGED <<rows, issuances, told>> /\ Adds(msgs, None, None)
  <2>1. \A s \in Tokens : s # None
    BY NoneAssumption
  <2>2. ASSUME NEW b \in Browsers, NEW s \in Tokens
        PROVE  StoryNext(b, s)
    <3>1. /\ opened'[b] = opened[b] /\ online'[b] = online[b]
          /\ StoryToBe(b, s)' = IF online[b] /\ s = None
                                  THEN Append(StoryToBe(b, s), None)
                                  ELSE StoryToBe(b, s)
      BY <1>1, <1>4, StorySent
    <3> QED BY <1>4, <2>1, <3>1, StoryKept
  <2>3. IssuedOnce' /\ \A s \in Tokens \ told' : NothingAbout(s, issuances', rows')
    BY <1>4, StoryInvIs DEF StoryInv, IssuedOnce
  <2> QED BY <2>2, <2>3, StoryInvNext
<1> QED BY <1>2, <1>3, <1>4 DEF EventStep

(* A page that connects may be told an issuance once more, and then rows.  *)
LEMMA StoryOfOpen ==
  ASSUME WebTyped, Linked, StoryInv, NEW c \in Browsers, Open(c),
         NEW b \in Browsers, NEW s \in Tokens
  PROVE  StoryNext(b, s)
<1>1. /\ ~online[c]
      /\ opened' = [opened EXCEPT ![c] = @ + 1]
      /\ online' = [online EXCEPT ![c] = TRUE]
      /\ channel' = [channel EXCEPT ![c] = <<Snapshot>>]
      /\ UNCHANGED <<rows, issuances, page, told>>
  BY DEF Open, dashboardVars
<1>2. CASE b # c
  <2>1. /\ opened'[b] = opened[b] /\ online'[b] = online[b]
        /\ channel'[b] = channel[b] /\ page'[b] = page[b]
    BY <1>1, <1>2 DEF WebTyped
  <2>2. StoryToBe(b, s)' = StoryToBe(b, s)
    BY <2>1 DEF StoryToBe
  <2> QED BY <1>1, <2>1, <2>2, StoryKept
<1>3. CASE b = c
  <2>1. /\ opened'[b] = opened[b] + 1 /\ online'[b] /\ opened[b] \in Nat
        /\ channel'[b] = <<Snapshot>> /\ page'[b] = page[b] /\ channel[b] = <<>>
    BY <1>1, <1>3 DEF WebTyped, Linked
  <2>2. PICK old, story : old = StoryToBe(b, s) /\ story = StoryToBe(b, s)'
    OBVIOUS
  <2>3. PICK pg \in Pages : pg = page[b]
    BY DEF WebTyped
  <2>4. PICK msg \in Snapshots : msg = Snapshot
    BY SnapshotTyped
  <2>5. PICK new : new = OnMessage(pg, msg)
    OBVIOUS
  <2>6. old = pg.storiesById[s]
    BY <2>1, <2>2, <2>3, AfterNone DEF StoryToBe
  <2>7. story = new.storiesById[s]
    BY <2>1, <2>2, <2>3, <2>4, <2>5, AfterOne DEF StoryToBe
  <2>8. msg.issuances = issuances /\ msg.rows = rows
    BY <2>4 DEF Snapshot
  <2>9. \A i, j \in DOMAIN msg.issuances : msg.issuances[i] = msg.issuances[j] => i = j
    BY <2>8 DEF StoryInv, IssuedOnce
  <2>10. /\ old # <<>> => story # <<>> /\ story[1] = old[1]
         /\ old = <<>> /\ (\E i \in DOMAIN issuances : issuances[i] = s) =>
              story # <<>> /\ story[1] = IssuanceEvent(s)
         /\ Cardinality(NonRows(story)) <= Cardinality(NonRows(old)) + 1
         /\ TailIs(story, rows, Len(rows), s)
         /\ (/\ ~\E i \in DOMAIN issuances : issuances[i] = s
             /\ \A i \in DOMAIN rows : rows[i].story_id # s) => story = old
    <3>1. /\ old # <<>> => story # <<>> /\ story[1] = old[1]
          /\ old = <<>> /\ (\E i \in DOMAIN msg.issuances : msg.issuances[i] = s) =>
               story # <<>> /\ story[1] = IssuanceEvent(s)
          /\ Cardinality(NonRows(story)) <= Cardinality(NonRows(old)) + 1
          /\ TailIs(story, msg.rows, Len(msg.rows), s)
          /\ (/\ ~\E i \in DOMAIN msg.issuances : msg.issuances[i] = s
              /\ \A i \in DOMAIN msg.rows : msg.rows[i].story_id # s) => story = old
      BY <2>5, <2>6, <2>7, <2>9, SnapshotTells
    <3> QED BY <2>8, <3>1
  <2>11. /\ Tells(old, s, online[b], opened[b], issuances, rows)
         /\ s \notin told => old = <<>> /\ NothingAbout(s, issuances, rows)
    BY <2>2, StoryInvIs
  <2>12. s \notin told' => story = <<>>
    BY <1>1, <2>10, <2>11 DEF NothingAbout
  <2>13. Cardinality(NonRows(story)) <= opened'[b]
    <3>1. new \in Pages
      BY <2>4, <2>5, MessageRead DEF Messages
    <3>2. old \in Seq(Events) /\ story \in Seq(Events)
      BY <2>6, <2>7, <3>1, StoryTyped
    <3>3. Cardinality(NonRows(old)) \in Nat /\ Cardinality(NonRows(story)) \in Nat
      BY <3>2, NonRowsCounted
    <3>4. Cardinality(NonRows(old)) <= opened[b]
      BY <2>11 DEF Tells
    <3> QED BY <2>1, <2>10, <3>3, <3>4
  <2>14. (\E i \in DOMAIN issuances : issuances[i] = s) =>
           story # <<>> /\ story[1] = IssuanceEvent(s)
    BY <2>10, <2>11 DEF Tells
  <2>15. Tells(story, s, online'[b], opened'[b], issuances', rows')
    BY <1>1, <2>10, <2>13, <2>14 DEF Tells
  <2> QED BY <2>2, <2>12, <2>15 DEF StoryNext
<1> QED BY <1>2, <1>3

(* The invariant is kept by every step.                                    *)
LEMMA StoryStep ==
  ASSUME WebTyped, Linked, StoryInv, [WebNext]_webVars
  PROVE  StoryInv'
<1>1. WebTyped'
  BY WebStepTyped
<1>2. ASSUME UNCHANGED <<issuances, rows, told>>,
             \A b \in Browsers, s \in Tokens : StoryNext(b, s)
      PROVE  StoryInv'
  <2>1. IssuedOnce' /\ \A s \in Tokens \ told' : NothingAbout(s, issuances', rows')
    BY <1>2, StoryInvIs DEF StoryInv, IssuedOnce
  <2> QED BY <1>1, <1>2, <2>1, StoryInvNext
<1>3. ASSUME NEW b \in Browsers, NEW s \in Tokens, UNCHANGED <<issuances, rows, told>>,
             opened'[b] = opened[b], online'[b] = online[b],
             After(page'[b], channel'[b]) = After(page[b], channel[b])
      PROVE  StoryNext(b, s)
  <2>1. StoryToBe(b, s)' = StoryToBe(b, s)
    BY <1>3 DEF StoryToBe
  <2> QED BY <1>3, <2>1, StoryKept
<1>4. CASE \E msgs : EventStep(msgs)
  BY <1>1, <1>4, StoryOfEvent
<1>5. CASE UNCHANGED <<issuances, rows, told, opened, online, page, channel>>
  BY <1>2, <1>3, <1>5
<1>6. ASSUME NEW c \in Browsers, Open(c)
      PROVE  StoryInv'
  <2>1. UNCHANGED <<issuances, rows, told>>
    BY <1>6 DEF Open, dashboardVars
  <2> QED BY <1>2, <1>6, <2>1, StoryOfOpen
<1>7. ASSUME NEW c \in Browsers, Deliver(c)
      PROVE  StoryInv'
  <2>1. /\ UNCHANGED <<issuances, rows, told, opened, online>>
        /\ After(page'[c], channel'[c]) = After(page[c], channel[c])
        /\ \A b \in Browsers : b # c => page'[b] = page[b] /\ channel'[b] = channel[b]
    BY <1>7, DeliverTyped
  <2>2. \A b \in Browsers : After(page'[b], channel'[b]) = After(page[b], channel[b])
    BY <2>1
  <2> QED BY <1>2, <1>3, <2>1, <2>2
<1>8. ASSUME NEW c \in Browsers, Break(c)
      PROVE  StoryInv'
  <2>1. /\ online' = [online EXCEPT ![c] = FALSE]
        /\ channel' = [channel EXCEPT ![c] = <<>>]
        /\ UNCHANGED <<issuances, rows, told, opened, page>>
    BY <1>8 DEF Break, serverVars, dashboardVars
  <2>2. ASSUME NEW b \in Browsers, NEW s \in Tokens
        PROVE  StoryNext(b, s)
    <3>1. CASE b = c
      <4>1. ~online'[b] /\ channel'[b] = <<>>
        BY <2>1, <3>1 DEF WebTyped
      <4> QED BY <2>1, <4>1, StoryCut
    <3>2. CASE b # c
      <4>1. channel'[b] = channel[b] /\ online'[b] = online[b]
        BY <2>1, <3>2 DEF WebTyped
      <4> QED BY <1>3, <2>1, <4>1
    <3> QED BY <3>1, <3>2
  <2> QED BY <1>2, <2>1, <2>2
<1>9. ASSUME NEW c \in Browsers, NEW threshold \in SliderPositions, Drag(c, threshold)
      PROVE  StoryInv'
  <2>1. /\ UNCHANGED <<issuances, rows, told, opened, online, channel>>
        /\ Alike(page'[c], page[c])
        /\ \A b \in Browsers : b # c => page'[b] = page[b]
    BY <1>9, DragTyped
  <2>2. ASSUME NEW b \in Browsers, NEW s \in Tokens
        PROVE  StoryNext(b, s)
    <3>1. CASE b = c
      <4>1. PICK p \in Pages, q \in Pages : p = page[b] /\ q = page'[b] /\ Alike(q, p)
        BY <1>1, <2>1, <3>1 DEF WebTyped
      <4>2. PICK msgs : msgs = channel[b] /\ msgs \in Seq(Messages)
        BY DEF WebTyped
      <4>3. Alike(After(q, msgs), After(p, msgs))
        BY <4>1, <4>2, AfterAlike
      <4>4. StoryToBe(b, s)' = StoryToBe(b, s)
        BY <2>1, <4>1, <4>2, <4>3 DEF StoryToBe, Alike, SameStories
      <4> QED BY <2>1, <4>4, StoryKept
    <3>2. CASE b # c
      BY <1>3, <2>1, <3>2
    <3> QED BY <3>1, <3>2
  <2> QED BY <1>2, <2>1, <2>2
<1>10. CASE ProxyRestarts
  <2>1. /\ rows' = <<>> /\ issuances' = <<>>
        /\ UNCHANGED <<opened, page, told>>
        /\ \A b \in Browsers : ~online'[b] /\ channel'[b] = <<>>
    BY <1>10 DEF ProxyRestarts
  <2>2. \A b \in Browsers, s \in Tokens : StoryNext(b, s)
    BY <2>1, StoryCut
  <2>3. IssuedOnce' /\ \A s \in Tokens \ told' : NothingAbout(s, issuances', rows')
    BY <2>1 DEF IssuedOnce, NothingAbout
  <2> QED BY <1>1, <2>2, <2>3, StoryInvNext
<1>11. CASE \E s \in clients : OnClose(s)
  BY <1>5, <1>11 DEF OnClose, browserVars, dashboardVars
<1>12. CASE UNCHANGED webVars
  BY <1>5, <1>12 DEF webVars, serverVars, browserVars, dashboardVars
<1> QED BY <1>4, <1>6, <1>7, <1>8, <1>9, <1>10, <1>11, <1>12, StepIsOf
        DEF StepKinds, PageStep

(* It holds at the start, when no page has a timeline.                     *)
LEMMA StoryInit ==
  ASSUME WebInit
  PROVE  StoryInv
<1>1. /\ rows = <<>> /\ issuances = <<>>
      /\ opened = [b \in Browsers |-> 0] /\ online = [b \in Browsers |-> FALSE]
      /\ channel = [b \in Browsers |-> <<>>] /\ page = [b \in Browsers |-> EmptyPage]
  BY DEF WebInit, DashboardInit
<1>2. WebTyped
  BY WebInitTyped
<1>3. ASSUME NEW b \in Browsers, NEW s \in Tokens
      PROVE  /\ StoryToBe(b, s) = <<>>
             /\ Tells(StoryToBe(b, s), s, online[b], opened[b], issuances, rows)
  <2>1. StoryToBe(b, s) = <<>>
    BY <1>1, AfterNone DEF StoryToBe, EmptyPage
  <2>2. PICK story : story = StoryToBe(b, s) /\ story \in Seq(Events) /\ Len(story) = 0
    BY <1>2, <2>1, StoryToBeTyped
  <2>3. Cardinality(NonRows(story)) = 0 /\ opened[b] = 0 /\ ~online[b]
    BY <1>1, <2>2, NonRowsCounted
  <2> QED BY <1>1, <2>1, <2>2, <2>3 DEF Tells
<1>4. IssuedOnce /\ \A s \in Tokens \ told : NothingAbout(s, issuances, rows)
  BY <1>1 DEF IssuedOnce, NothingAbout
<1> QED BY <1>2, <1>3, <1>4, StoryInvIs

(* It says what the property says of a page that has read everything.      *)
LEMMA StoryShows ==
  ASSUME WebTyped, StoryInv
  PROVE  StoryIsTold
<1> SUFFICES ASSUME NEW b \in Browsers, NEW s \in Tokens, online[b],
                    NEW story, story = PageToBe(b).storiesById[s]
             PROVE  /\ Contains(issuances, s) =>
                         story # <<>> /\ story[1] = IssuanceEvent(s)
                    /\ Cardinality(DOMAIN story \ RowEvents(story)) <= opened[b]
                    /\ EndsWithRows(story, s)
  BY DEF StoryIsTold
<1>1. story = StoryToBe(b, s)
  BY DEF StoryToBe, PageToBe, After
<1>2. /\ (\E i \in DOMAIN issuances : issuances[i] = s) =>
           IF story = <<>> THEN ~online[b] ELSE story[1] = IssuanceEvent(s)
      /\ Cardinality(NonRows(story)) <= opened[b]
      /\ online[b] => EndsWithRows(story, s)
  BY <1>1 DEF StoryInv, StoriesTold
<1>3. Contains(issuances, s) => \E i \in DOMAIN issuances : issuances[i] = s
  <2>1. DOMAIN issuances = 1..Len(issuances)
    BY LenProperties DEF WebTyped
  <2> QED BY <2>1 DEF Contains
<1> QED BY <1>2, <1>3 DEF NonRows

(* The timeline of a token on a page that is connected, when it has read   *)
(* what was sent to it: begun by the issuance, which is repeated at most   *)
(* once per connection, and ended by the decisions of the table.           *)
THEOREM TimelinesTellTheStory == WebSpec => []StoryIsTold
<1>1. WebInit => StoryInv
  BY StoryInit
<1>2. StoryInv /\ (WebTyped /\ Linked) /\ [WebNext]_webVars => StoryInv'
  BY StoryStep
<1>3. StoryInv /\ WebTyped => StoryIsTold
  BY StoryShows
<1> QED BY <1>1, <1>2, <1>3, WebTypes, PTL DEF WebSpec
=============================================================================
