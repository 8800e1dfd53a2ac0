----------------------------- MODULE AuditTrail -----------------------------
(***************************************************************************)
(* The audit log on its own: entries are appended and the proxy restarts.  *)
(* The properties say which changes to the file verify_chain notices, for  *)
(* every file the log can have produced.                                   *)
(***************************************************************************)
EXTENDS AuditLog, SequencesExt

CONSTANTS
  Events,          (* event types with their payloads                       *)
  MaxEntries,      (* bound: length of the log                              *)
  MaxTime          (* bound: the clock stops here                           *)

ASSUME TrailAssumption == MaxEntries \in Nat /\ MaxTime \in Nat

VARIABLE now

trailVars == <<entries, disk, now>>

TrailInit == AuditInit /\ now = 0

(* Any write may raise.                                                    *)
Log(event) ==
  /\ Len(entries) < MaxEntries
  /\ \E written \in BOOLEAN : AppendEntry(now, event, written)
  /\ UNCHANGED now

Restart ==
  /\ entries' = <<>>
  /\ disk' = <<>>
  /\ UNCHANGED now

Pass ==
  /\ now < MaxTime
  /\ now' = now + 1
  /\ UNCHANGED auditVars

TrailNext ==
  \/ \E event \in Events : Log(event)
  \/ Restart
  \/ Pass

TrailSpec == TrailInit /\ [][TrailNext]_trailVars
-----------------------------------------------------------------------------
(* The ways to change a recorded entry and leave its hash alone.           *)
Edits(e) ==
  {[e EXCEPT !.event = event] : event \in Events}
    \cup {[e EXCEPT !.ts = ts] : ts \in 0..MaxTime}
    \cup {[e EXCEPT !.seq = seq] : seq \in 0..MaxEntries}

Rehashed(e) == [e EXCEPT !.entry_hash = DigestOf(e)]

Without(log, i) == SubSeq(log, 1, i - 1) \o SubSeq(log, i + 1, Len(log))

Swapped(log, i) == [log EXCEPT ![i] = log[i + 1], ![i + 1] = log[i]]

(* A file nobody touched verifies exactly if no entry it lacks, because a  *)
(* write raised, was followed by one that was written.                     *)
GapsAreFound == VerifyChain(disk).intact <=> IsPrefix(disk, entries)

(* In a file that verifies, an entry whose fields are changed is found, and *)
(* it is the one named.                                                    *)
EditIsFound ==
  VerifyChain(disk).intact =>
  \A i \in 1..Len(disk) : \A e \in Edits(disk[i]) :
    e # disk[i] =>
      VerifyChain([disk EXCEPT ![i] = e]) =
        [intact |-> FALSE, entries_checked |-> e.seq + 1, broken_at |-> e.seq]

(* Recomputing the hash of a changed entry does not help: the next entry   *)
(* still names the old one and is reported.  (There is a next entry for    *)
(* every entry but the last.)                                              *)
RehashedEditIsFound ==
  VerifyChain(disk).intact =>
  \A i \in 1..(Len(disk) - 1) : \A e \in Edits(disk[i]) :
    e # disk[i] =>
      VerifyChain([disk EXCEPT ![i] = Rehashed(e)]).broken_at = disk[i + 1].seq

(* An entry that is missing from, or out of order in, the file is found,   *)
(* unless it is the last one that is missing.                              *)
RemovalIsFound ==
  \A i \in 1..(Len(disk) - 1) :
    /\ ~VerifyChain(Without(disk, i)).intact
    /\ ~VerifyChain(Swapped(disk, i)).intact
-----------------------------------------------------------------------------
(***************************************************************************)
(* Why they hold: the invariant that is inductive.                         *)
(***************************************************************************)
IsEntry(e) ==
  e \in [seq: Nat, ts: Nat, event: Events,
         prev_hash: {e.prev_hash}, entry_hash: {e.entry_hash}]

(* The memory is a chain without gaps.                                     *)
MemoryIsChained ==
  \A i \in 1..Len(entries) :
    IsEntry(entries[i]) /\ entries[i].seq = i - 1 /\ Verifies(entries, i)

(* The file holds some of the entries of the memory, in their order.       *)
FileIsFromMemory ==
  \A i \in 1..Len(disk) :
    /\ disk[i].seq \in 0..(Len(entries) - 1)
    /\ disk[i] = entries[disk[i].seq + 1]
    /\ \A j \in 1..(i - 1) : disk[j].seq < disk[i].seq

(* Where the number of an entry does not follow from the one before it.    *)
GapBefore(i) == disk[i].seq # IF i = 1 THEN 0 ELSE disk[i - 1].seq + 1

(* Either the file numbers its entries from 0 on or it shows a gap.        *)
GapsShow ==
  \/ \A i \in 1..Len(disk) : disk[i].seq = i - 1
  \/ \E i \in 1..Len(disk) : GapBefore(i)

TrailInvariant ==
  /\ now \in Nat
  /\ entries \in Seq(Range(entries))
  /\ disk \in Seq(Range(disk))
  /\ MemoryIsChained
  /\ FileIsFromMemory
  /\ GapsShow
=============================================================================
