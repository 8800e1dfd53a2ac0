----------------------------- MODULE Identities -----------------------------
(***************************************************************************)
(* The values the proxy, the backend and their clients exchange.  What the *)
(* code passes around as strings (a thumbprint, a fingerprint, a uuid) is  *)
(* an element of a set here: the code only ever compares them.             *)
(***************************************************************************)

CONSTANTS
  Tokens,      (* jti claims of access tokens; a token is named by its jti  *)
  Keys,        (* RFC 7638 thumbprints (jkt) of the clients' DPoP keys      *)
  JA4s,        (* TLS ClientHello fingerprints                              *)
  JA4Hs,       (* HTTP header fingerprints                                  *)
  IPs,         (* client addresses (flow.client_conn.peername[0])           *)
  ProofJtis,   (* jti claims of DPoP proofs                                 *)
  None         (* Python's None; also stands for the rate-limit key         *)
               (* "unknown", which no real fingerprint equals               *)

ASSUME NoneAssumption ==
  None \notin Tokens \cup Keys \cup JA4s \cup JA4Hs \cup IPs \cup ProofJtis

Optional(S) == S \cup {None}

(***************************************************************************)
(* The two kinds of proxied endpoints: the token endpoint and everything   *)
(* under /api.  The revocation endpoint never leaves the proxy.            *)
(***************************************************************************)
Paths == {"token", "api"}
=============================================================================
