------------------------------ MODULE AuditLog ------------------------------
(***************************************************************************)
(* The hash-chained audit log (proxy/audit_log.py), in memory and mirrored *)
(* to a file, and the verification of a log (verify_chain, which           *)
(* scripts/verify_audit_log.py runs on the file).  SHA-256 is taken to be  *)
(* free of collisions: the digest of an entry is the tuple it digests.     *)
(***************************************************************************)
EXTENDS Integers, Sequences

VARIABLES
  entries,    (* AuditLog._entries                                          *)
  disk        (* the lines of the file it mirrors to                        *)

auditVars == <<entries, disk>>

Genesis == <<>>

Digest(seq, ts, event, prevHash) == <<seq, ts, event, prevHash>>

DigestOf(e) == Digest(e.seq, e.ts, e.event, e.prev_hash)

(* A bug: every entry links to the first one.                              *)
FirstHash(log) == IF log = <<>> THEN Genesis ELSE log[1].entry_hash

LastHash(log) == IF log = <<>> THEN Genesis ELSE log[Len(log)].entry_hash

(* seq starts at 0 and the first entry links to the genesis hash.          *)
NewEntry(log, ts, event) ==
  [seq |-> Len(log), ts |-> ts, event |-> event, prev_hash |-> LastHash(log),
   entry_hash |-> Digest(Len(log), ts, event, LastHash(log))]

(* A start of the process empties the file.                                *)
AuditInit ==
  /\ entries = <<>>
  /\ disk = <<>>

(***************************************************************************)
(* append: the entry is in the memory before the file is written, and      *)
(* stays there when the write raises.                                      *)
(***************************************************************************)
AppendEntry(ts, event, written) ==
  LET e == NewEntry(entries, ts, event)
  IN  /\ entries' = Append(entries, e)
      /\ disk' = IF written THEN Append(disk, e) ELSE disk

(***************************************************************************)
(* verify_chain.                                                           *)
(***************************************************************************)
(* Bugs: the link is not compared, the digest is not.                      *)
LinksAnywhere(log, i) == TRUE

LinksBack(log, i) ==
  log[i].prev_hash = IF i = 1 THEN Genesis ELSE log[i - 1].entry_hash

OnlyLinks(log, i) == LinksBack(log, i)

Verifies(log, i) ==
  /\ LinksBack(log, i)
  /\ DigestOf(log[i]) = log[i].entry_hash

Intact(log) == \A i \in 1..Len(log) : Verifies(log, i)

(* broken_at_seq is the seq recorded in the first entry that fails.        *)
FirstBroken(log) ==
  CHOOSE i \in 1..Len(log) :
    /\ ~Verifies(log, i)
    /\ \A j \in 1..(i - 1) : Verifies(log, j)

VerifyChain(log) ==
  IF Intact(log)
    THEN [intact |-> TRUE, entries_checked |-> Len(log), broken_at |-> -1]
    ELSE LET e == log[FirstBroken(log)]
         IN  [intact |-> FALSE, entries_checked |-> e.seq + 1,
              broken_at |-> e.seq]
=============================================================================
