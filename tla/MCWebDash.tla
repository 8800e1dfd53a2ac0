----------------------------- MODULE MCWebDash ------------------------------
(***************************************************************************)
(* A small instance of WebDash: uses of tokens that pass, that are over    *)
(* the threshold, and that a hard signal blocks.                           *)
(***************************************************************************)
EXTENDS WebDash

CONSTANTS t1, k1, a1, a2, h1, h2, i1, i2, b1

Bound == [jkt |-> k1, ja4 |-> a1, ja4h |-> h1, source_ip |-> i1, revoked |-> FALSE]

UseOf(story, ja4, source_ip, ja4h) ==
  [story |-> story, binding |-> Bound, ja4 |-> ja4,
   dpop |-> [valid |-> TRUE, jkt |-> k1], source_ip |-> source_ip, ja4h |-> ja4h]

DemoUses ==
  {UseOf(t1, a1, i2, h1), UseOf(t1, a1, i1, h2), UseOf(t1, a2, i1, h1)}
=============================================================================
