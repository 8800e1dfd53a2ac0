-------------------------- MODULE ObservedSentinel --------------------------
(***************************************************************************)
(* The addon together with its two observers.  Every hook of Sentinel      *)
(* leaves in "report" what it handed to them; here it reaches the          *)
(* dashboard and the audit log, in the order of the code: the dashboard    *)
(* first, then the audit entry, and after a write that raises nothing any  *)
(* more.                                                                   *)
(***************************************************************************)
EXTENDS Sentinel, AuditLog, Dashboard, SequencesExt

CONSTANTS
  MaxEntries,    (* bound: entries of the audit log, and restarts           *)
  BlockCost,     (* bound: one for a request blocked early counts as many   *)
  RestartCost    (* bound: a restart counts as many                         *)

ASSUME LogBoundAssumption ==
  MaxEntries \in Nat /\ BlockCost \in Nat \ {0} /\ RestartCost \in Nat

observerVars == <<auditVars, dashboardVars>>

ObservedInit == Init /\ AuditInit /\ DashboardInit

(* The outcome of the decision reported, PASS exactly for the reason "ok". *)
OutcomeOf(rep) == IF rep.reason = "ok" THEN "PASS" ELSE "BLOCK"

Event(type, rep) ==
  [type |-> type, token |-> rep.token, reason |-> rep.reason, risk |-> rep.risk]

(* Bugs: the decision after a passed challenge is not logged; an issuance  *)
(* is not.                                                                 *)
EventsWithoutSteppedUpPass(rep) ==
  IF rep.kind = "none" THEN <<>> ELSE <<Event(rep.kind, rep)>>

EventsWithoutIssuance(rep) ==
  IF rep.kind \in {"none", "issuance"} THEN <<>>
  ELSE IF rep.kind = "challenge_passed"
    THEN <<Event("challenge_passed", rep), Event("decision", rep)>>
    ELSE <<Event(rep.kind, rep)>>

(* The audit entries a hook makes when nothing goes wrong.                 *)
EventsOf(rep) ==
  IF rep.kind = "none" THEN <<>>
  ELSE IF rep.kind = "challenge_passed"
    THEN <<Event("challenge_passed", rep), Event("decision", rep)>>
    ELSE <<Event(rep.kind, rep)>>

Smaller(m, n) == IF m < n THEN m ELSE n

(***************************************************************************)
(* The appends of one hook, up to and including the one that raises: that  *)
(* one is in the memory but not in the file.                               *)
(***************************************************************************)
AuditReport(rep) ==
  LET events == EventsOf(rep)
      reached == SubSeq(events, 1, Smaller(rep.written + 1, Len(events)))
      memory == FoldLeft(LAMBDA log, event :
                           Append(log, NewEntry(log, now, event)),
                         entries, reached)
  IN  /\ entries' = memory
      /\ disk' = disk \o SubSeq(memory, Len(entries) + 1,
                                Smaller(Len(entries) + rep.written,
                                        Len(memory)))

(* A bug: the decision is shown before the challenge is written down.      *)
ShowReportEarly(rep) ==
  CASE rep.kind = "block" -> RecordRawBlock(rep.reason, rep.token)
    [] rep.kind \in {"decision", "challenge_passed"} ->
         RecordDecision(OutcomeOf(rep), rep.reason, rep.risk, rep.token)
    [] rep.kind = "issuance" -> RecordIssuance(rep.token)
    [] rep.kind = "rate_limited" -> RecordRateLimited
    [] rep.kind = "challenge_issued" -> RecordChallengeIssued
    [] OTHER -> UNCHANGED dashboardVars

(* The decision after a passed challenge is recorded only once the entry   *)
(* "challenge_passed" has been written.                                    *)
ShowReport(rep) ==
  CASE rep.kind = "block" -> RecordRawBlock(rep.reason, rep.token)
    [] \/ rep.kind = "decision"
       \/ rep.kind = "challenge_passed" /\ rep.written >= 1 ->
         RecordDecision(OutcomeOf(rep), rep.reason, rep.risk, rep.token)
    [] rep.kind = "issuance" -> RecordIssuance(rep.token)
    [] rep.kind = "rate_limited" -> RecordRateLimited
    [] rep.kind = "challenge_issued" -> RecordChallengeIssued
    [] OTHER -> UNCHANGED dashboardVars

(* A restarted proxy has a new dashboard and empties the file.             *)
Observe ==
  IF restarts' # restarts
    THEN /\ entries' = <<>>
         /\ disk' = <<>>
         /\ rows' = <<>>
         /\ issuances' = <<>>
         /\ counts' = [c \in DOMAIN counts |-> 0]
    ELSE /\ AuditReport(report')
         /\ ShowReport(report')

(* Where in the log the entries of a type are.                             *)
Logged(type) == {i \in 1..Len(entries) : entries[i].event.type = type}

ObservedNext ==
  /\ Next
  /\ Observe
  /\ Len(entries') + (BlockCost - 1) * Cardinality(Logged("block"))'
       + RestartCost * restarts' <= MaxEntries

ObservedSpec == ObservedInit /\ [][ObservedNext]_<<vars, observerVars>>
-----------------------------------------------------------------------------
Decided == Logged("block") \cup Logged("decision")

Passed == {i \in Decided : entries[i].event.reason = "ok"}

(* What the table shows of the i-th entry of the log.                      *)
RowOf(i) ==
  LET event == entries[i].event
  IN  Row(OutcomeOf(event), event.reason,
          IF event.type = "block" THEN None ELSE event.risk, event.token)

DecidedAfter(i) == {j \in Decided : j > i}

(* The counters and the table of the dashboard say what the audit log      *)
(* says, whichever hooks ran and whichever writes failed: the counters of  *)
(* all entries, the table of the newest ones.                              *)
DashboardAgreesWithLog ==
  /\ counts.total = Cardinality(Decided)
  /\ counts.passed = Cardinality(Passed)
  /\ counts.blocked = counts.total - counts.passed
  /\ counts.rate_limited = Cardinality(Logged("rate_limited"))
  /\ counts.challenges_issued = Cardinality(Logged("challenge_issued"))
  /\ Len(rows) = Smaller(MaxRows, counts.total)
  /\ \A i \in Decided :
       LET newer == Cardinality(DecidedAfter(i))
       IN  newer < MaxRows => rows[Len(rows) - newer] = RowOf(i)

(* Challenges whose being passed could not be written to the file.         *)
UnwrittenPasses ==
  {i \in Logged("challenge_passed") :
     \A j \in 1..Len(disk) : disk[j] # entries[i]}

(* Every request let pass since the proxy started has its PASS entry, and  *)
(* no other request has one, but for a passed challenge whose own entry    *)
(* could not be written: that hook ended before its decision was logged.   *)
PassesAreLogged ==
  restarts = 0 =>
    Cardinality(admitted) = Cardinality(Passed) + Cardinality(UnwrittenPasses)

(* The story of a token in the log: a decision about it comes after its    *)
(* issuance, and after its revocation nothing passes.                      *)
StoriesAreInOrder ==
  \A i \in 1..Len(entries) :
    LET e == entries[i].event
    IN  /\ e.type = "decision" =>
             \E j \in 1..(i - 1) :
               entries[j].event.type = "issuance" /\ entries[j].event.token = e.token
        /\ e.type = "revocation" =>
             \A j \in (i + 1)..Len(entries) :
               entries[j].event.token = e.token =>
                 entries[j].event.reason # "ok"

(* Every challenge that is passed was issued for that token, at most       *)
(* ChallengeTTL earlier, and is the answer to the last one issued.         *)
ChallengesAreAnswered ==
  \A i \in 1..Len(entries) :
    entries[i].event.type = "challenge_passed" =>
      \E j \in 1..(i - 1) :
        /\ entries[j].event.type = "challenge_issued"
        /\ entries[j].event.token = entries[i].event.token
        /\ entries[i].ts - entries[j].ts <= ChallengeTTL
        /\ \A k \in (j + 1)..(i - 1) :
             entries[k].event.type \in {"challenge_passed", "challenge_issued"} =>
               entries[k].event.token # entries[i].event.token
-----------------------------------------------------------------------------
(***************************************************************************)
(* Why they hold: the invariants that are inductive.                       *)
(***************************************************************************)

(* A token that is bound has its issuance in the log, and one whose        *)
(* revocation is in the log can never be bound again.                      *)
StoryInvariant ==
  /\ entries \in Seq(Range(entries))
  /\ StoriesAreInOrder
  /\ \A t \in Tokens :
       bindings[t] # None =>
         \E j \in Logged("issuance") : entries[j].event.token = t
  /\ \A i \in Logged("revocation") :
       entries[i].event.token \in Tokens /\ OutOfUse(entries[i].event.token)

(* A challenge that is outstanding is the last word of the log about it.   *)
ChallengeInvariant ==
  /\ ChallengesAreAnswered
  /\ \A t \in Tokens :
       challenges[t] # None =>
         \E j \in Logged("challenge_issued") :
           /\ entries[j].event.token = t
           /\ entries[j].ts = challenges[t].issued_at
           /\ \A k \in Logged("challenge_issued") \cup Logged("challenge_passed") :
                k > j => entries[k].event.token # t

(* The memory numbers its entries; the file has some of them.              *)
LogInvariant ==
  /\ disk \in Seq(Range(disk))
  /\ rows \in Seq(Range(rows))
  /\ counts \in Counters
  /\ \A i \in 1..Len(entries) : entries[i].seq = i - 1
  /\ \A j \in 1..Len(disk) : \E i \in 1..Len(entries) : disk[j] = entries[i]
  /\ IsFiniteSet(admitted)
=============================================================================
