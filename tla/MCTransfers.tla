---------------------------- MODULE MCTransfers -----------------------------
(***************************************************************************)
(* A small bank: one client with two accounts, another one with a third,   *)
(* as in backend/mock_data.py, and a pool of three threads.                *)
(***************************************************************************)
EXTENDS Transfers, TLC

CONSTANTS demo, other, checking, savings, external

DemoOwners == (checking :> demo) @@ (savings :> demo) @@ (external :> other)

DemoBalances == (checking :> 2) @@ (savings :> 1) @@ (external :> 0)

(* Threads are interchangeable.                                            *)
WorkerSymmetry == Permutations(Workers)
=============================================================================
