----------------------------- MODULE MCSentinel -----------------------------
(***************************************************************************)
(* Small instances of Sentinel.  The model values below are the clients'   *)
(* world; a configuration picks the connections and the proofs that are in *)
(* play and leaves the rest unused.                                        *)
(***************************************************************************)
EXTENDS Sentinel, TLC

CONSTANTS t1, t2, k1, k2, a1, a2, h1, h2, i1, i2, c1, c2, c3, p1, p2, p3, p4

Mint(jti, jkt, htu) == [jti |-> jti, jkt |-> jkt, htu |-> htu, signed |-> TRUE]

InPlay(templates) == {m \in templates : m.jti \in ProofJtis}

(* Two clients: each with its key; the second one's TLS stack is another,  *)
(* or sends a ClientHello that does not parse.  Either may obtain a token, *)
(* the first one signs two requests to use it.                             *)
TwoClientsIP == (c1 :> i1) @@ (c2 :> i1)
TwoClientsHello == (c1 :> {a1}) @@ (c2 :> {a2, None})
TwoClientsHeaders == (c1 :> {h1}) @@ (c2 :> {h1})
TwoClientsProofs ==
  InPlay({Mint(p1, k1, "token"), Mint(p2, k1, "api"), Mint(p3, k1, "api"),
          Mint(p4, k2, "token")})

(* One client that roams: same key and TLS stack from two addresses, and   *)
(* from the second one through something that may alter its headers, when  *)
(* a configuration has a second header fingerprint.                        *)
RoamingIP == (c1 :> i1) @@ (c2 :> i2)
RoamingHello == (c1 :> {a1}) @@ (c2 :> {a1})
RoamingHeaders == (c1 :> {h1}) @@ (c2 :> JA4Hs)
RoamingProofs ==
  InPlay({Mint(p1, k1, "token"), Mint(p2, k1, "api"), Mint(p3, k1, "api"),
          Mint(p4, k1, "api")})

(* One client on one connection that obtains several tokens.               *)
OneClientIP == c1 :> i1
OneClientHello == c1 :> {a1}
OneClientHeaders == c1 :> {h1}
OneClientProofs ==
  InPlay({Mint(p1, k1, "token"), Mint(p2, k1, "token"), Mint(p3, k1, "api")})

(* Tokens are interchangeable: no constant and no property names one.  So  *)
(* are proofs of one key for one path.                                     *)
OneClientSymmetry == Permutations(Tokens) \cup Permutations({p1, p2})

TwoClientsSymmetry == Permutations({p2, p3})

RoamingSymmetry == Permutations(ProofJtis \ {p1})
=============================================================================
