-------------------------- MODULE AuditTrailProofs --------------------------
(***************************************************************************)
(* Theorems about the audit log, for logs of any length and any events.    *)
(***************************************************************************)
EXTENDS AuditTrail, SequenceTheorems, TLAPS

(***************************************************************************)
(* Facts about sequences and digests.                                      *)
(***************************************************************************)
LEMMA LogProperties ==
  ASSUME NEW log, log \in Seq(Range(log))
  PROVE  /\ Len(log) \in Nat
         /\ DOMAIN log = 1..Len(log)
         /\ log \in [1..Len(log) -> Range(log)]
         /\ log = <<>> <=> Len(log) = 0
BY LenProperties, EmptySeq

LEMMA AppendedLog ==
  ASSUME NEW log, log \in Seq(Range(log)), NEW e
  PROVE  /\ Append(log, e) \in Seq(Range(Append(log, e)))
         /\ Len(Append(log, e)) = Len(log) + 1
         /\ \A i \in 1..Len(log) : Append(log, e)[i] = log[i]
         /\ Append(log, e)[Len(log) + 1] = e
<1> DEFINE S == Range(log) \cup {e}
<1>1. log \in Seq(S) /\ e \in S
  BY SeqMonotonic
<1> HIDE DEF S
<1>2. /\ Append(log, e) \in Seq(S)
      /\ Len(Append(log, e)) = Len(log) + 1
      /\ \A i \in 1..Len(log) : Append(log, e)[i] = log[i]
      /\ Append(log, e)[Len(log) + 1] = e
  BY <1>1, AppendProperties
<1>3. Append(log, e) \in Seq(Range(Append(log, e)))
  BY <1>2, SeqOfRange
<1> QED BY <1>2, <1>3

LEMMA ChangedLog ==
  ASSUME NEW log, log \in Seq(Range(log)), NEW k \in 1..Len(log), NEW e
  PROVE  /\ Len([log EXCEPT ![k] = e]) = Len(log)
         /\ [log EXCEPT ![k] = e][k] = e
         /\ \A j \in 1..Len(log) : j # k => [log EXCEPT ![k] = e][j] = log[j]
<1> DEFINE S == Range(log) \cup {e}
<1>1. log \in Seq(S) /\ e \in S
  BY SeqMonotonic
<1> HIDE DEF S
<1> QED BY <1>1, ExceptSeq

(* SHA-256 without collisions: equal digests, equal fields; and the digest *)
(* of an entry is not the genesis hash.                                    *)
LEMMA DigestsDiffer ==
  ASSUME NEW e, NEW f
  PROVE  /\ DigestOf(e) # Genesis
         /\ DigestOf(e) = DigestOf(f) => /\ e.seq = f.seq
                                         /\ e.ts = f.ts
                                         /\ e.event = f.event
                                         /\ e.prev_hash = f.prev_hash
BY DEF DigestOf, Digest, Genesis

(* In an entry of the memory the link tells the number: the first one      *)
(* links to the genesis hash, any other to an entry numbered just before.  *)
LEMMA LinkTellsNumber ==
  ASSUME TrailInvariant, NEW k \in 1..Len(entries)
  PROVE  /\ entries[k].entry_hash = DigestOf(entries[k])
         /\ k = 1 => entries[k].prev_hash = Genesis
         /\ k > 1 => /\ k - 1 \in 1..Len(entries)
                     /\ entries[k].prev_hash = DigestOf(entries[k - 1])
                     /\ entries[k - 1].seq = k - 2
<1>1. Len(entries) \in Nat
  BY LogProperties DEF TrailInvariant
<1>2. Verifies(entries, k)
  BY DEF TrailInvariant, MemoryIsChained
<1>3. ASSUME k > 1
      PROVE  k - 1 \in 1..Len(entries) /\ Verifies(entries, k - 1)
                /\ entries[k - 1].seq = (k - 1) - 1
  BY <1>1, <1>3 DEF TrailInvariant, MemoryIsChained
<1> QED BY <1>1, <1>2, <1>3 DEF Verifies, LinksBack

(* The same of an entry of the file.                                       *)
LEMMA FileLinkTellsNumber ==
  ASSUME TrailInvariant, NEW i \in 1..Len(disk)
  PROVE  /\ disk[i].seq \in Nat
         /\ disk[i].entry_hash = DigestOf(disk[i])
         /\ disk[i].seq = 0 => disk[i].prev_hash = Genesis
         /\ disk[i].seq > 0 =>
              \E e : disk[i].prev_hash = DigestOf(e) /\ e.seq = disk[i].seq - 1
<1> DEFINE k == disk[i].seq + 1
<1>1. /\ Len(entries) \in Nat
      /\ disk[i].seq \in 0..(Len(entries) - 1)
      /\ disk[i] = entries[k]
  BY LogProperties DEF TrailInvariant, FileIsFromMemory
<1>2. k \in 1..Len(entries)
  BY <1>1
<1>3. k > 1 => entries[k].prev_hash = DigestOf(entries[k - 1])
                 /\ entries[k - 1].seq = k - 2
  BY <1>2, LinkTellsNumber
<1> QED BY <1>1, <1>2, <1>3, LinkTellsNumber

(***************************************************************************)
(* The invariant.                                                          *)
(***************************************************************************)
LEMMA EmptyTrail ==
  ASSUME now \in Nat, entries = <<>>, disk = <<>>
  PROVE  TrailInvariant
<1>1. /\ Len(entries) = 0 /\ Len(disk) = 0
      /\ entries \in Seq(Range(entries)) /\ disk \in Seq(Range(disk))
  BY EmptySeq
<1> QED BY <1>1 DEF TrailInvariant, MemoryIsChained, FileIsFromMemory, GapsShow

(* The entry that append makes continues the chain.                        *)
LEMMA NewEntryContinues ==
  ASSUME TrailInvariant, NEW event \in Events
  PROVE  LET e == NewEntry(entries, now, event)
         IN  /\ IsEntry(e)
             /\ e.seq = Len(entries)
             /\ e.entry_hash = DigestOf(e)
             /\ e.prev_hash = IF Len(entries) = 0 THEN Genesis
                                ELSE entries[Len(entries)].entry_hash
<1>1. Len(entries) \in Nat /\ now \in Nat /\ (entries = <<>> <=> Len(entries) = 0)
  BY LogProperties DEF TrailInvariant
<1> QED BY <1>1 DEF NewEntry, IsEntry, DigestOf, Digest, LastHash

LEMMA LogKeepsInvariant ==
  ASSUME TrailInvariant, NEW event \in Events, Log(event)
  PROVE  TrailInvariant'
<1> DEFINE e == NewEntry(entries, now, event)
<1>1. PICK written \in BOOLEAN :
        /\ entries' = Append(entries, e)
        /\ disk' = IF written THEN Append(disk, e) ELSE disk
        /\ now' = now
  BY DEF Log, AppendEntry
<1>2. PICK n \in Nat, m \in Nat : n = Len(entries) /\ m = Len(disk)
  BY LogProperties DEF TrailInvariant
<1>3. /\ IsEntry(e) /\ e.seq = n /\ e.entry_hash = DigestOf(e)
      /\ e.prev_hash = IF n = 0 THEN Genesis ELSE entries[n].entry_hash
  BY <1>2, NewEntryContinues
<1> HIDE DEF e
<1>4. /\ entries' \in Seq(Range(entries'))
      /\ Len(entries') = n + 1
      /\ entries'[n + 1] = e
      /\ \A i \in 1..n : entries'[i] = entries[i]
  BY <1>1, <1>2, AppendedLog DEF TrailInvariant
<1>5. MemoryIsChained'
  <2> SUFFICES ASSUME NEW i \in 1..(n + 1)
               PROVE  IsEntry(entries'[i]) /\ entries'[i].seq = i - 1
                         /\ Verifies(entries', i)
    BY <1>4 DEF MemoryIsChained, IsEntry
  <2>1. CASE i = n + 1
    <3>1. n # 0 => n \in 1..n
      OBVIOUS
    <3> QED BY <1>3, <1>4, <2>1, <3>1 DEF Verifies, LinksBack
  <2>2. CASE i \in 1..n
    <3>1. IsEntry(entries[i]) /\ entries[i].seq = i - 1 /\ Verifies(entries, i)
      BY <1>2, <2>2 DEF TrailInvariant, MemoryIsChained
    <3>2. i # 1 => i - 1 \in 1..n
      BY <2>2
    <3> QED BY <1>4, <2>2, <3>1, <3>2 DEF Verifies, LinksBack
  <2> QED BY <2>1, <2>2
(* What the file held still agrees with the memory.                        *)
<1>6. ASSUME NEW i \in 1..m
      PROVE  /\ disk[i].seq \in 0..(n - 1)
             /\ disk[i] = entries'[disk[i].seq + 1]
             /\ \A j \in 1..(i - 1) : disk[j].seq < disk[i].seq
  <2>1. /\ disk[i].seq \in 0..(n - 1)
        /\ disk[i] = entries[disk[i].seq + 1]
        /\ \A j \in 1..(i - 1) : disk[j].seq < disk[i].seq
    BY <1>2 DEF TrailInvariant, FileIsFromMemory
  <2>2. disk[i].seq + 1 \in 1..n
    BY <2>1
  <2> QED BY <1>4, <2>1, <2>2
<1>7. CASE ~written
  <2>1. UNCHANGED disk
    BY <1>1, <1>7
  <2>2. FileIsFromMemory'
    <3> SUFFICES ASSUME NEW i \in 1..m
                 PROVE  /\ disk[i].seq \in 0..n
                        /\ disk[i] = entries'[disk[i].seq + 1]
                        /\ \A j \in 1..(i - 1) : disk[j].seq < disk[i].seq
      BY <1>2, <1>4, <2>1 DEF FileIsFromMemory
    <3> QED BY <1>6
  <2>3. GapsShow'
    BY <2>1 DEF TrailInvariant, GapsShow, GapBefore
  <2> QED BY <1>1, <1>4, <1>5, <2>1, <2>2, <2>3 DEF TrailInvariant
<1>8. CASE written
  <2>1. /\ disk' \in Seq(Range(disk'))
        /\ Len(disk') = m + 1
        /\ disk'[m + 1] = e
        /\ \A i \in 1..m : disk'[i] = disk[i]
    BY <1>1, <1>2, <1>8, AppendedLog DEF TrailInvariant
  <2>2. FileIsFromMemory'
    <3> SUFFICES ASSUME NEW i \in 1..(m + 1)
                 PROVE  /\ disk'[i].seq \in 0..n
                        /\ disk'[i] = entries'[disk'[i].seq + 1]
                        /\ \A j \in 1..(i - 1) : disk'[j].seq < disk'[i].seq
      BY <1>4, <2>1 DEF FileIsFromMemory
    <3>1. CASE i = m + 1
      <4>1. ASSUME NEW j \in 1..m  PROVE disk'[j].seq < n
        BY <1>6, <2>1
      <4> QED BY <1>3, <1>4, <2>1, <3>1, <4>1
    <3>2. CASE i \in 1..m
      <4>1. \A j \in 1..(i - 1) : j \in 1..m
        BY <3>2
      <4> QED BY <1>6, <2>1, <3>2, <4>1
    <3> QED BY <3>1, <3>2
  <2>3. GapsShow'
    <3>1. ASSUME \A i \in 1..m : disk[i].seq = i - 1, e.seq = m
          PROVE  \A i \in 1..Len(disk') : disk'[i].seq = i - 1
      <4> SUFFICES ASSUME NEW i \in 1..(m + 1)
                   PROVE  disk'[i].seq = i - 1
        BY <2>1
      <4>1. CASE i = m + 1
        BY <2>1, <3>1, <4>1
      <4>2. CASE i \in 1..m
        BY <2>1, <3>1, <4>2
      <4> QED BY <4>1, <4>2
    <3>2. ASSUME \A i \in 1..m : disk[i].seq = i - 1, e.seq # m
          PROVE  GapBefore(m + 1)'
      <4>1. m # 0 => m \in 1..m /\ disk'[m].seq = m - 1
        BY <2>1, <3>2
      <4> QED BY <2>1, <3>2, <4>1 DEF GapBefore
    <3>3. ASSUME NEW i \in 1..m, GapBefore(i)
          PROVE  GapBefore(i)'
      <4>1. i # 1 => i - 1 \in 1..m
        OBVIOUS
      <4> QED BY <2>1, <3>3, <4>1 DEF GapBefore
    <3>4. \/ \A i \in 1..m : disk[i].seq = i - 1
          \/ \E i \in 1..m : GapBefore(i)
      BY <1>2 DEF TrailInvariant, GapsShow
    <3>5. m + 1 \in 1..Len(disk') /\ \A i \in 1..m : i \in 1..Len(disk')
      BY <2>1
    <3> QED BY <3>1, <3>2, <3>3, <3>4, <3>5 DEF GapsShow
  <2> QED BY <1>1, <1>4, <1>5, <2>1, <2>2, <2>3 DEF TrailInvariant
<1> QED BY <1>7, <1>8

(* A log is a chain in memory, and its file is a part of it in order.      *)
THEOREM TrailInvariantHolds == TrailSpec => []TrailInvariant
<1>1. TrailInit => TrailInvariant
  BY EmptyTrail DEF TrailInit, AuditInit
<1>2. TrailInvariant /\ [TrailNext]_trailVars => TrailInvariant'
  <2> SUFFICES ASSUME TrailInvariant, [TrailNext]_trailVars
               PROVE  TrailInvariant'
    OBVIOUS
  <2>1. ASSUME NEW event \in Events, Log(event)  PROVE TrailInvariant'
    BY <2>1, LogKeepsInvariant
  <2>2. CASE Restart
    <3>1. now' \in Nat /\ entries' = <<>> /\ disk' = <<>>
      BY <2>2 DEF Restart, TrailInvariant
    <3>2. /\ Len(entries') = 0 /\ Len(disk') = 0
          /\ entries' \in Seq(Range(entries')) /\ disk' \in Seq(Range(disk'))
      BY <3>1, EmptySeq
    <3> QED
      BY <3>1, <3>2 DEF TrailInvariant, MemoryIsChained, FileIsFromMemory, GapsShow
  <2>3. CASE Pass
    BY <2>3
    DEF Pass, auditVars, TrailInvariant, MemoryIsChained, FileIsFromMemory,
        GapsShow, GapBefore, Verifies, LinksBack
  <2>4. CASE UNCHANGED trailVars
    BY <2>4
    DEF trailVars, TrailInvariant, MemoryIsChained, FileIsFromMemory, GapsShow,
        GapBefore, Verifies, LinksBack
  <2> QED BY <2>1, <2>2, <2>3, <2>4 DEF TrailNext
<1> QED BY <1>1, <1>2, PTL DEF TrailSpec

(***************************************************************************)
(* What verify_chain says of a file.                                       *)
(***************************************************************************)
LEMMA IntactIsReported ==
  ASSUME NEW log
  PROVE  VerifyChain(log).intact <=> Intact(log)
BY DEF VerifyChain

(* The entry named is the first one that fails.                            *)
LEMMA FirstBrokenIsReported ==
  ASSUME NEW log, Len(log) \in Nat, NEW i \in 1..Len(log), ~Verifies(log, i),
         \A j \in 1..(i - 1) : Verifies(log, j)
  PROVE  VerifyChain(log) = [intact |-> FALSE, entries_checked |-> log[i].seq + 1,
                             broken_at |-> log[i].seq]
<1> DEFINE First(k) == ~Verifies(log, k) /\ \A j \in 1..(k - 1) : Verifies(log, j)
<1>1. First(i)
  OBVIOUS
<1>2. FirstBroken(log) = CHOOSE k \in 1..Len(log) : First(k)
  BY DEF FirstBroken
<1>3. ASSUME NEW k \in 1..Len(log), First(k)  PROVE k = i
  <2>1. ~(k < i)
    BY <1>3
  <2>2. ~(i < k)
    BY <1>3
  <2> QED BY <2>1, <2>2
<1>4. FirstBroken(log) = i
  <2> HIDE DEF First
  <2> QED BY <1>1, <1>2, <1>3
<1> QED BY <1>4 DEF VerifyChain, Intact

(* A file that verifies numbers its entries from 0 on.                     *)
LEMMA IntactFileHasNoGap ==
  ASSUME TrailInvariant, Intact(disk)
  PROVE  \A i \in 1..Len(disk) : disk[i].seq = i - 1
<1> SUFFICES ASSUME NEW i \in 1..Len(disk), GapBefore(i)
             PROVE  FALSE
  BY DEF TrailInvariant, GapsShow
<1>1. Len(disk) \in Nat
  BY LogProperties DEF TrailInvariant
<1>2. /\ disk[i].seq \in Nat
      /\ disk[i].seq = 0 => disk[i].prev_hash = Genesis
      /\ disk[i].seq > 0 =>
           \E e : disk[i].prev_hash = DigestOf(e) /\ e.seq = disk[i].seq - 1
  BY FileLinkTellsNumber
<1>3. disk[i].prev_hash = IF i = 1 THEN Genesis ELSE disk[i - 1].entry_hash
  BY DEF Intact, Verifies, LinksBack
<1>4. CASE i = 1
  BY <1>2, <1>3, <1>4, DigestsDiffer DEF GapBefore
<1>5. CASE i # 1
  <2>1. i - 1 \in 1..Len(disk)
    BY <1>1, <1>5
  <2>2. disk[i].prev_hash = DigestOf(disk[i - 1])
    BY <1>3, <1>5, <2>1, FileLinkTellsNumber
  <2>3. disk[i].seq > 0
    BY <1>2, <2>2, DigestsDiffer
  <2>4. disk[i - 1].seq = disk[i].seq - 1
    BY <1>2, <2>2, <2>3, DigestsDiffer
  <2> QED BY <1>2, <1>5, <2>4 DEF GapBefore
<1> QED BY <1>4, <1>5

LEMMA IntactFileIsPrefix ==
  ASSUME TrailInvariant
  PROVE  Intact(disk) <=> IsPrefix(disk, entries)
<1>1. PICK n \in Nat, m \in Nat : n = Len(entries) /\ m = Len(disk)
  BY LogProperties DEF TrailInvariant
<1> DEFINE S == Range(entries) \cup Range(disk)
<1>2. entries \in Seq(S) /\ disk \in Seq(S)
  BY SeqMonotonic DEF TrailInvariant
<1> HIDE DEF S
<1>3. SubSeq(disk, 1, m) = disk
  BY <1>1, <1>2, SubSeqFull
<1>4. ASSUME m \leq n
      PROVE  LET part == SubSeq(entries, 1, m)
             IN  /\ part \in Seq(S) /\ Len(part) = m
                 /\ \A i \in 1..m : part[i] = entries[i]
  <2>1. \A i \in 1..m : entries[i] \in S
    BY <1>1, <1>2, <1>4, ElementOfSeq
  <2>2. /\ SubSeq(entries, 1, m) \in Seq(S)
        /\ Len(SubSeq(entries, 1, m)) = IF 1 \leq m THEN m - 1 + 1 ELSE 0
        /\ \A i \in 1..(m - 1 + 1) : SubSeq(entries, 1, m)[i] = entries[1 + i - 1]
    BY <2>1, SubSeqProperties
  <2> QED BY <2>2
<1>5. ASSUME Intact(disk)
      PROVE  IsPrefix(disk, entries)
  <2>1. ASSUME NEW i \in 1..m
        PROVE  i \leq n /\ disk[i] = entries[i]
    <3>1. /\ disk[i].seq \in 0..(n - 1)
          /\ disk[i] = entries[disk[i].seq + 1]
      BY <1>1 DEF TrailInvariant, FileIsFromMemory
    <3>2. disk[i].seq = i - 1
      BY <1>1, <1>5, IntactFileHasNoGap
    <3>3. (i - 1) + 1 = i
      OBVIOUS
    <3> QED BY <3>1, <3>2, <3>3
  <2>2. m \leq n
    BY <2>1
  <2>3. SubSeq(entries, 1, m) = disk
    BY <1>1, <1>2, <1>4, <2>1, <2>2, SeqEqual
  <2> QED BY <1>1, <1>3, <2>2, <2>3 DEF IsPrefix
<1>6. ASSUME IsPrefix(disk, entries)
      PROVE  Intact(disk)
  <2>1. m \leq n /\ disk = SubSeq(entries, 1, m)
    BY <1>1, <1>3, <1>6 DEF IsPrefix
  <2>2. \A i \in 1..m : disk[i] = entries[i]
    BY <1>4, <2>1
  <2> SUFFICES ASSUME NEW i \in 1..m
               PROVE  Verifies(disk, i)
    BY <1>1 DEF Intact
  <2>3. Verifies(entries, i)
    BY <1>1, <2>1 DEF TrailInvariant, MemoryIsChained
  <2>4. i # 1 => i - 1 \in 1..m
    OBVIOUS
  <2> QED BY <2>2, <2>3, <2>4 DEF Verifies, LinksBack
<1> QED BY <1>5, <1>6

(* A change to a recorded entry leaves its links alone and shows in its    *)
(* digest.                                                                 *)
LEMMA EditShows ==
  ASSUME NEW d, IsEntry(d), NEW e \in Edits(d), e # d
  PROVE  /\ e.prev_hash = d.prev_hash
         /\ e.entry_hash = d.entry_hash
         /\ DigestOf(e) # DigestOf(d)
         /\ Rehashed(e).prev_hash = d.prev_hash
         /\ Rehashed(e).entry_hash = DigestOf(e)
         /\ DigestOf(Rehashed(e)) = DigestOf(e)
<1>1. d = [seq |-> d.seq, ts |-> d.ts, event |-> d.event,
           prev_hash |-> d.prev_hash, entry_hash |-> d.entry_hash]
  BY DEF IsEntry
<1>2. PICK seq, ts, event :
        e = [seq |-> seq, ts |-> ts, event |-> event,
             prev_hash |-> d.prev_hash, entry_hash |-> d.entry_hash]
  BY <1>1 DEF Edits
<1>3. DigestOf(e) # DigestOf(d)
  BY <1>1, <1>2, DigestsDiffer
<1>4. Rehashed(e) = [seq |-> seq, ts |-> ts, event |-> event,
                     prev_hash |-> d.prev_hash, entry_hash |-> DigestOf(e)]
  BY <1>2 DEF Rehashed
<1>5. DigestOf(Rehashed(e)) = DigestOf(e)
  BY <1>2, <1>4 DEF DigestOf
<1> QED BY <1>2, <1>3, <1>4, <1>5

(* Every entry of the file is an entry of the memory.                      *)
LEMMA FileHoldsEntries ==
  ASSUME TrailInvariant, NEW i \in 1..Len(disk)
  PROVE  IsEntry(disk[i]) /\ disk[i].entry_hash = DigestOf(disk[i])
<1>1. Len(entries) \in Nat
  BY LogProperties DEF TrailInvariant
<1>2. /\ disk[i].seq + 1 \in 1..Len(entries)
      /\ disk[i] = entries[disk[i].seq + 1]
  BY <1>1 DEF TrailInvariant, FileIsFromMemory
<1>3. IsEntry(entries[disk[i].seq + 1])
  BY <1>2 DEF TrailInvariant, MemoryIsChained
<1> QED BY <1>2, <1>3, FileLinkTellsNumber

LEMMA EditBreaksFile ==
  ASSUME TrailInvariant, Intact(disk),
         NEW i \in 1..Len(disk), NEW e \in Edits(disk[i]), e # disk[i]
  PROVE  VerifyChain([disk EXCEPT ![i] = e]) =
           [intact |-> FALSE, entries_checked |-> e.seq + 1, broken_at |-> e.seq]
<1> DEFINE log == [disk EXCEPT ![i] = e]
<1>1. Len(disk) \in Nat /\ disk \in Seq(Range(disk))
  BY LogProperties DEF TrailInvariant
<1>2. /\ Len(log) = Len(disk)
      /\ log[i] = e
      /\ \A j \in 1..Len(disk) : j # i => log[j] = disk[j]
  BY <1>1, ChangedLog
<1> HIDE DEF log
<1>3. e.entry_hash = disk[i].entry_hash /\ DigestOf(e) # disk[i].entry_hash
  BY FileHoldsEntries, EditShows
<1>4. ~Verifies(log, i)
  BY <1>2, <1>3 DEF Verifies
<1>5. ASSUME NEW j \in 1..(i - 1)  PROVE Verifies(log, j)
  <2>1. j \in 1..Len(disk) /\ j # i /\ (j # 1 => j - 1 \in 1..Len(disk) /\ j - 1 # i)
    BY <1>1
  <2>2. Verifies(disk, j)
    BY <2>1 DEF Intact
  <2> QED BY <1>2, <2>1, <2>2 DEF Verifies, LinksBack
<1>6. VerifyChain(log) = [intact |-> FALSE, entries_checked |-> log[i].seq + 1,
                          broken_at |-> log[i].seq]
  BY <1>1, <1>2, <1>4, <1>5, FirstBrokenIsReported
<1> QED BY <1>2, <1>6 DEF log

LEMMA RehashedEditBreaksFile ==
  ASSUME TrailInvariant, Intact(disk),
         NEW i \in 1..(Len(disk) - 1), NEW e \in Edits(disk[i]), e # disk[i]
  PROVE  VerifyChain([disk EXCEPT ![i] = Rehashed(e)]).broken_at = disk[i + 1].seq
<1> DEFINE log == [disk EXCEPT ![i] = Rehashed(e)]
<1>1. /\ Len(disk) \in Nat /\ disk \in Seq(Range(disk))
      /\ i \in 1..Len(disk) /\ i + 1 \in 1..Len(disk) /\ i + 1 # i
  BY LogProperties DEF TrailInvariant
<1>2. /\ Len(log) = Len(disk)
      /\ log[i] = Rehashed(e)
      /\ \A j \in 1..Len(disk) : j # i => log[j] = disk[j]
  BY <1>1, ChangedLog
<1> HIDE DEF log
<1>3. /\ disk[i].entry_hash = DigestOf(disk[i])
      /\ DigestOf(e) # DigestOf(disk[i])
      /\ Rehashed(e).prev_hash = disk[i].prev_hash
      /\ Rehashed(e).entry_hash = DigestOf(e)
      /\ DigestOf(Rehashed(e)) = DigestOf(e)
  BY <1>1, FileHoldsEntries, EditShows
<1>4. ASSUME NEW j \in 1..i  PROVE Verifies(log, j)
  <2>1. j \in 1..Len(disk) /\ (j # 1 => j - 1 \in 1..Len(disk) /\ j - 1 # i)
    BY <1>1
  <2>2. Verifies(disk, j)
    BY <2>1 DEF Intact
  <2>3. CASE j = i
    BY <1>2, <1>3, <2>1, <2>2, <2>3 DEF Verifies, LinksBack
  <2>4. CASE j # i
    BY <1>2, <2>1, <2>2, <2>4 DEF Verifies, LinksBack
  <2> QED BY <2>3, <2>4
<1>5. ~Verifies(log, i + 1)
  <2>1. disk[i + 1].prev_hash = disk[i].entry_hash
    BY <1>1 DEF Intact, Verifies, LinksBack
  <2>2. log[i + 1].prev_hash # log[i].entry_hash
    BY <1>1, <1>2, <1>3, <2>1
  <2> QED BY <2>2 DEF Verifies, LinksBack
<1>6. VerifyChain(log) = [intact |-> FALSE, entries_checked |-> log[i + 1].seq + 1,
                          broken_at |-> log[i + 1].seq]
  <2>1. \A j \in 1..((i + 1) - 1) : Verifies(log, j)
    BY <1>4
  <2> QED BY <1>1, <1>2, <1>5, <2>1, FirstBrokenIsReported
<1> QED BY <1>1, <1>2, <1>6 DEF log

(* An entry one place too early does not link to what stands before it.    *)
LEMMA MisplacedEntryFails ==
  ASSUME TrailInvariant, NEW i \in 1..(Len(disk) - 1), NEW log,
         log[i] = disk[i + 1], i # 1 => log[i - 1] = disk[i - 1]
  PROVE  ~Verifies(log, i)
<1>1. /\ Len(disk) \in Nat
      /\ i \in 1..Len(disk) /\ i + 1 \in 1..Len(disk) /\ i \in 1..((i + 1) - 1)
      /\ i # 1 => i - 1 \in 1..Len(disk) /\ i - 1 \in 1..(i - 1)
  BY LogProperties DEF TrailInvariant
<1>2. /\ disk[i].seq \in Nat
      /\ disk[i].seq < disk[i + 1].seq
      /\ i # 1 => disk[i - 1].seq < disk[i].seq
  BY <1>1, FileLinkTellsNumber DEF TrailInvariant, FileIsFromMemory
<1>3. disk[i + 1].seq \in Nat /\ disk[i + 1].seq > 0
  <2>1. disk[i + 1].seq \in Nat
    BY <1>1, FileLinkTellsNumber
  <2> QED BY <1>2, <2>1
<1>4. PICK e : disk[i + 1].prev_hash = DigestOf(e) /\ e.seq = disk[i + 1].seq - 1
  BY <1>1, <1>3, FileLinkTellsNumber
<1>5. CASE i = 1
  BY <1>4, <1>5, DigestsDiffer DEF Verifies, LinksBack
<1>6. CASE i # 1
  <2>1. disk[i - 1].entry_hash = DigestOf(disk[i - 1]) /\ disk[i - 1].seq \in Nat
    BY <1>1, <1>6, FileLinkTellsNumber
  <2>2. disk[i - 1].seq # e.seq
    BY <1>2, <1>3, <1>4, <1>6, <2>1
  <2>3. DigestOf(e) # DigestOf(disk[i - 1])
    BY <2>2, DigestsDiffer
  <2> QED BY <1>4, <1>6, <2>1, <2>3 DEF Verifies, LinksBack
<1> QED BY <1>5, <1>6

LEMMA RemovalBreaksFile ==
  ASSUME TrailInvariant, NEW i \in 1..(Len(disk) - 1)
  PROVE  ~Intact(Without(disk, i)) /\ ~Intact(Swapped(disk, i))
<1>1. PICK m \in Nat : m = Len(disk)
  BY LogProperties DEF TrailInvariant
<1> DEFINE S == Range(disk)
<1>2. disk \in Seq(S) /\ i \in 1..m /\ i + 1 \in 1..m /\ i \in 1..(m - 1)
  BY <1>1 DEF TrailInvariant
<1>3. \A j \in 1..m : disk[j] \in S
  BY <1>1, <1>2, ElementOfSeq
<1> HIDE DEF S
<1>4. ~Intact(Without(disk, i))
  <2> DEFINE front == SubSeq(disk, 1, i - 1)
             back == SubSeq(disk, i + 1, m)
             log == front \o back
  <2>1. /\ front \in Seq(S) /\ Len(front) = i - 1
        /\ \A j \in 1..(i - 1) : front[j] = disk[j]
    <3>1. \A j \in 1..(i - 1) : disk[j] \in S
      BY <1>2, <1>3
    <3>2. /\ front \in Seq(S)
          /\ Len(front) = IF 1 \leq i - 1 THEN (i - 1) - 1 + 1 ELSE 0
          /\ \A j \in 1..((i - 1) - 1 + 1) : front[j] = disk[1 + j - 1]
      BY <3>1, SubSeqProperties
    <3> QED BY <3>2
  <2>2. /\ back \in Seq(S) /\ Len(back) = m - i
        /\ \A j \in 1..(m - i) : back[j] = disk[i + j]
    <3>1. \A j \in (i + 1)..m : disk[j] \in S
      BY <1>2, <1>3
    <3>2. /\ back \in Seq(S)
          /\ Len(back) = IF i + 1 \leq m THEN m - (i + 1) + 1 ELSE 0
          /\ \A j \in 1..(m - (i + 1) + 1) : back[j] = disk[(i + 1) + j - 1]
      BY <3>1, SubSeqProperties
    <3> QED BY <1>2, <3>2
  <2> HIDE DEF front, back
  <2>3. /\ Len(log) = (i - 1) + (m - i)
        /\ \A j \in 1..((i - 1) + (m - i)) :
             log[j] = IF j \leq i - 1 THEN front[j] ELSE back[j - (i - 1)]
    <3>1. /\ Len(log) = Len(front) + Len(back)
          /\ \A j \in 1..(Len(front) + Len(back)) :
               log[j] = IF j \leq Len(front) THEN front[j] ELSE back[j - Len(front)]
      BY <2>1, <2>2, ConcatProperties
    <3> HIDE DEF log
    <3> QED BY <2>1, <2>2, <3>1
  <2> HIDE DEF log
  <2>4. i \in 1..Len(log) /\ log[i] = disk[i + 1]
    BY <1>2, <2>2, <2>3
  <2>5. i # 1 => log[i - 1] = disk[i - 1]
    BY <1>2, <2>1, <2>3
  <2>6. ~Verifies(log, i)
    BY <2>4, <2>5, MisplacedEntryFails
  <2>7. Without(disk, i) = log
    BY <1>1 DEF Without, log, front, back
  <2> QED BY <2>4, <2>6, <2>7 DEF Intact
<1>5. ~Intact(Swapped(disk, i))
  <2> DEFINE half == [disk EXCEPT ![i] = disk[i + 1]]
             log == [half EXCEPT ![i + 1] = disk[i]]
  <2>1. /\ half \in Seq(S) /\ Len(half) = m
        /\ \A j \in 1..m : half[j] = IF j = i THEN disk[i + 1] ELSE disk[j]
    BY <1>1, <1>2, <1>3, ExceptSeq
  <2> HIDE DEF half
  <2>2. /\ Len(log) = m
        /\ \A j \in 1..m : log[j] = IF j = i + 1 THEN disk[i] ELSE half[j]
    BY <1>2, <1>3, <2>1, ExceptSeq
  <2> HIDE DEF log
  <2>3. i \in 1..Len(log) /\ log[i] = disk[i + 1]
    BY <1>2, <2>1, <2>2
  <2>4. i # 1 => log[i - 1] = disk[i - 1]
    BY <1>2, <2>1, <2>2
  <2>5. ~Verifies(log, i)
    BY <2>3, <2>4, MisplacedEntryFails
  <2>6. Swapped(disk, i) = log
    BY DEF Swapped, log, half
  <2> QED BY <2>3, <2>5, <2>6 DEF Intact
<1> QED BY <1>4, <1>5

(***************************************************************************)
(* The theorems.                                                           *)
(***************************************************************************)
(* verify_chain passes a file nobody touched exactly if no entry is        *)
(* missing from it before one that was written (audit_log.py, append and   *)
(* verify_chain).                                                          *)
THEOREM GapsAreFoundAlways == TrailSpec => []GapsAreFound
<1>1. TrailInvariant => GapsAreFound
  BY IntactIsReported, IntactFileIsPrefix DEF GapsAreFound
<1> QED BY <1>1, TrailInvariantHolds, PTL

(* verify_chain names the entry that was changed.                          *)
THEOREM EditIsFoundAlways == TrailSpec => []EditIsFound
<1>1. TrailInvariant => EditIsFound
  BY IntactIsReported, EditBreaksFile DEF EditIsFound
<1> QED BY <1>1, TrailInvariantHolds, PTL

(* verify_chain names the successor of an entry that was changed and       *)
(* digested again.                                                         *)
THEOREM RehashedEditIsFoundAlways == TrailSpec => []RehashedEditIsFound
<1>1. TrailInvariant => RehashedEditIsFound
  BY IntactIsReported, RehashedEditBreaksFile DEF RehashedEditIsFound
<1> QED BY <1>1, TrailInvariantHolds, PTL

(* verify_chain fails on a file that lacks an entry before the last or has *)
(* two neighbours exchanged.                                               *)
THEOREM RemovalIsFoundAlways == TrailSpec => []RemovalIsFound
<1>1. TrailInvariant => RemovalIsFound
  BY IntactIsReported, RemovalBreaksFile DEF RemovalIsFound
<1> QED BY <1>1, TrailInvariantHolds, PTL
=============================================================================
