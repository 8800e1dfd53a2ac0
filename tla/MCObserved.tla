----------------------------- MODULE MCObserved -----------------------------
(***************************************************************************)
(* Small instances of Sentinel with its observers, in the clients' worlds  *)
(* of MCSentinel.                                                          *)
(***************************************************************************)
EXTENDS MCSentinel, ObservedSentinel
=============================================================================
