------------------------------- MODULE MCDemo -------------------------------
(***************************************************************************)
(* The demo: two runs of script A, so that one may overwrite the session   *)
(* of the other while it is read, and runs of what uses the session.  A    *)
(* configuration picks the runs.                                           *)
(***************************************************************************)
EXTENDS DemoScripts, TLC

CONSTANTS t1, t2, httpx, curl, plain, altered, curls

DemoScriptOf ==
  [r \in Runs |->
     IF r \in {"a1", "a2"} THEN "a"
     ELSE IF r \in {"replay", "replay_same_key"} THEN "replay"
     ELSE r]
DemoCasts ==
  {{"a1", "a2", "e"}, {"a1", "f"}, {"a1", "b", "c"},
   {"a1", "replay_same_key"}, {"a1", "replay"}}
StepUpCasts == {{"a1", "f"}}
DemoStackOf == [r \in Runs |-> IF r \in {"b", "replay_same_key"} THEN curl ELSE httpx]
DemoHeadersSent ==
  [r \in Runs |-> IF r = "c" THEN altered
                  ELSE IF DemoStackOf[r] = curl THEN curls ELSE plain]
DemoOwnKey == [r \in Runs |-> r]
DemoConns == Runs \X Places
DemoConnIP == [c \in DemoConns |-> c[2]]
DemoHelloOf == [c \in DemoConns |-> {DemoStackOf[c[1]]}]
DemoHeadersOf == [c \in DemoConns |-> {DemoHeadersSent[c[1]]}]
DemoProofJtis == Runs \X AskingSteps
DemoTemplates == [jti: DemoProofJtis, jkt: Runs, htu: Paths, signed: {TRUE}]

ASSUME DemoIsStaged == Rehearsed
=============================================================================
