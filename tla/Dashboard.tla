----------------------------- MODULE Dashboard ------------------------------
(***************************************************************************)
(* The state of the dashboard (proxy/dashboard.py) that the terminal table *)
(* and the snapshot for a new web client show: the newest decisions, the   *)
(* newest issuances, and five counters.  The log lines are added by the    *)
(* module of the web dashboard; the rendering is left out.                 *)
(***************************************************************************)
EXTENDS Identities, Integers, Sequences

CONSTANT MaxRows    (* MAX_ROWS, the maxlen of both deques                  *)

ASSUME MaxRowsAssumption == MaxRows \in Nat \ {0}

VARIABLES
  rows,         (* _rows, oldest first                                      *)
  issuances,    (* _issuances, oldest first                                 *)
  counts        (* _total, _passed, _blocked, _rate_limited,                *)
                (* _challenges_issued                                       *)

dashboardVars == <<rows, issuances, counts>>

Counters ==
  [total: Nat, passed: Nat, blocked: Nat, rate_limited: Nat,
   challenges_issued: Nat]

(* A row for a request blocked before the engine has no risk, None.        *)
Row(outcome, reason, risk, story) ==
  [outcome |-> outcome, reason |-> reason, risk |-> risk, story_id |-> story]

DashboardInit ==
  /\ rows = <<>>
  /\ issuances = <<>>
  /\ counts = [total |-> 0, passed |-> 0, blocked |-> 0, rate_limited |-> 0,
               challenges_issued |-> 0]

(* Appending to a full deque drops its oldest element.                     *)
PushedOn(deque, x) ==
  LET all == Append(deque, x)
  IN  IF Len(all) > MaxRows THEN Tail(all) ELSE all

Counted(outcome) ==
  [counts EXCEPT !.total = @ + 1,
                 !.passed = IF outcome = "PASS" THEN @ + 1 ELSE @,
                 !.blocked = IF outcome = "PASS" THEN @ ELSE @ + 1]

RecordRow(row) ==
  /\ counts' = Counted(row.outcome)
  /\ rows' = PushedOn(rows, row)
  /\ UNCHANGED issuances

RecordDecision(outcome, reason, risk, story) ==
  RecordRow(Row(outcome, reason, risk, story))

RecordRawBlock(reason, story) == RecordRow(Row("BLOCK", reason, None, story))

RecordIssuance(story) ==
  /\ issuances' = PushedOn(issuances, story)
  /\ UNCHANGED <<rows, counts>>

RecordRateLimited ==
  /\ counts' = [counts EXCEPT !.rate_limited = @ + 1]
  /\ UNCHANGED <<rows, issuances>>

RecordChallengeIssued ==
  /\ counts' = [counts EXCEPT !.challenges_issued = @ + 1]
  /\ UNCHANGED <<rows, issuances>>
=============================================================================
