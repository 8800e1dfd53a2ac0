---------------------------- MODULE Fingerprints ----------------------------
(***************************************************************************)
(* The fingerprints: JA4 (proxy/ja4.py), which decides, the older JA3      *)
(* (proxy/ja3.py), which is only shown, and JA4H (proxy/ja4h.py), a soft   *)
(* signal taken from the headers of a request.  A ClientHello is a record  *)
(*   legacy      the version of the handshake message                      *)
(*   versions    the list in supported_versions, empty without it          *)
(*   sni, alpn   the name is there; the protocols offered, each a sequence *)
(*               of letters                                                *)
(*   ciphers, extensions, groups, formats    lists of code points          *)
(* A fingerprint is what gets hashed: two of them are equal if that is.    *)
(***************************************************************************)
EXTENDS Integers, FiniteSets, SequencesExt

CONSTANTS
  GREASE_VALUES,    (* reserved code points, put in at random               *)
  CountCap,         (* the counts of a JA4 have two digits: 99              *)
  KnownVersions,    (* those that have a JA4 code                           *)
  SniExtension, AlpnExtension,
  Hellos,           (* the ClientHellos to be fingerprinted                 *)
  VOLATILE_HEADERS, (* those that vary per request, not per client          *)
  ClientHeaders,    (* what clients send of their own with every request    *)
  Occasions         (* what the clients request                             *)

SansGrease(list) ==
  LET Real(x) == x \notin GREASE_VALUES IN SelectSeq(list, Real)

(* The highest version in supported_versions, else the legacy one; "00"    *)
(* (here 0) for a version without a code.                                  *)
TlsVersionCode(hello) ==
  LET offered == ToSet(SansGrease(hello.versions))
      best == IF offered = {} THEN hello.legacy ELSE Max(offered)
  IN  IF best \in KnownVersions THEN best ELSE 0

Count(list) == IF Len(list) < CountCap THEN Len(list) ELSE CountCap

(* First and last letter of the protocol offered first, else "00".         *)
FirstAlpn(hello) ==
  IF hello.alpn = <<>> \/ hello.alpn[1] = <<>>
    THEN <<"0", "0">> ELSE <<Head(hello.alpn[1]), Last(hello.alpn[1])>>

Sorted(list) == SortSeq(list, LAMBDA x, y : x < y)

(* A bug: the lists go into the hash as they were sent.                    *)
Ja4ComponentsInOrder(hello) ==
  [version_code |-> TlsVersionCode(hello), sni_char |-> hello.sni,
   cipher_count |-> Count(SansGrease(hello.ciphers)),
   ext_count    |-> Count(SansGrease(hello.extensions)),
   alpn_code    |-> FirstAlpn(hello),
   ciphers      |-> SansGrease(hello.ciphers),
   extensions   |-> SansGrease(hello.extensions)]

(* SNI and ALPN are counted among the extensions and not listed.           *)
Ja4Components(hello) ==
  LET ciphers == SansGrease(hello.ciphers)
      extensions == SansGrease(hello.extensions)
      Listed(x) == x \notin {SniExtension, AlpnExtension}
  IN  [version_code |-> TlsVersionCode(hello), sni_char |-> hello.sni,
       cipher_count |-> Count(ciphers), ext_count |-> Count(extensions),
       alpn_code    |-> FirstAlpn(hello),
       ciphers      |-> Sorted(ciphers),
       extensions   |-> Sorted(SelectSeq(extensions, Listed))]

(* A bug: the lists are compared by their lengths, which are there anyway. *)
DiffJa4WithoutLists(a, b) ==
  LET differing == {field \in DOMAIN a \ {"ciphers", "extensions"} :
                      a[field] # b[field]}
  IN  [field \in differing |-> <<a[field], b[field]>>]

(* The fields in which two of them differ: (bound, presented).             *)
DiffJa4(a, b) ==
  LET differing == {field \in DOMAIN a : a[field] # b[field]}
  IN  [field \in differing |-> <<a[field], b[field]>>]

Ja3(hello) ==
  [version |-> hello.legacy, ciphers |-> SansGrease(hello.ciphers),
   ext_types |-> SansGrease(hello.extensions),
   curves |-> SansGrease(hello.groups), point_formats |-> hello.formats]

(* Of a request: its HTTP version and its headers, each the lower-case     *)
(* name, how it was written and whether it has a value.                    *)
VersionCode(version) ==
  CASE version = "2" -> "20" [] version = "1.0" -> "10" [] OTHER -> "11"

(* A bug: Content-Type counts, though only requests with a body have it.   *)
ClientNamesAndContentType(headers) ==
  LET Kept(h) == h.name \notin VOLATILE_HEADERS \ {"content-type"}
      names == SelectSeq(headers, Kept)
  IN  [i \in DOMAIN names |-> names[i].written]

ClientNames(headers) ==
  LET Kept(h) == h.name \notin VOLATILE_HEADERS
      names == SelectSeq(headers, Kept)
  IN  [i \in DOMAIN names |-> names[i].written]

Ja4h(request) ==
  LET names == ClientNames(request.headers)
  IN  [version_code |-> VersionCode(request.version),
       cookie_present |-> \E h \in ToSet(request.headers) :
                            h.name = "cookie" /\ h.value,
       header_count |-> Count(names), names |-> names]

Ja4Of == [hello \in Hellos |-> Ja4Components(hello)]

Ja3Of == [hello \in Hellos |-> Ja3(hello)]
-----------------------------------------------------------------------------
(***************************************************************************)
(* Which ClientHellos come from the same TLS stack: those that offer the   *)
(* same things, each as often, in whatever order and with whatever GREASE. *)
(***************************************************************************)
Occurrences(list, x) == Cardinality({i \in DOMAIN list : list[i] = x})

SameOffer(r, s) ==
  \A x \in (ToSet(r) \cup ToSet(s)) \ GREASE_VALUES :
    Occurrences(r, x) = Occurrences(s, x)

SpokenVersion(hello) ==
  LET Real == ToSet(hello.versions) \ GREASE_VALUES
      best == CHOOSE v \in Real \cup {hello.legacy} :
                /\ Real = {} => v = hello.legacy
                /\ Real # {} => v \in Real /\ \A w \in Real : w <= v
  IN  {best} \cap KnownVersions

SameStack(g, h) ==
  /\ SpokenVersion(g) = SpokenVersion(h)
  /\ g.sni = h.sni
  /\ (g.alpn = <<>>) = (h.alpn = <<>>)
  /\ g.alpn # <<>> => Head(g.alpn) = Head(h.alpn)
  /\ SameOffer(g.ciphers, h.ciphers)
  /\ SameOffer(g.extensions, h.extensions)

(* The ClientHellos a fingerprint takes for this one.                      *)
SameJa4(g) == {h \in Hellos : Ja4Of[h] = Ja4Of[g]}

SameJa3(g) == {h \in Hellos : Ja3Of[h] = Ja3Of[g]}

StackOf(g) == {h \in Hellos : SameStack(g, h)}

(* Where JA3 does not look.                                                *)
Alike(g, h) == g.versions = h.versions /\ g.alpn = h.alpn /\ g.sni = h.sni

ExtensionsReversed(g) ==
  {h \in Hellos : /\ h = [g EXCEPT !.extensions = Reverse(@)]
                  /\ Cardinality(ToSet(SansGrease(h.extensions))) > 1}

(* The stack and the JA4 are the same question; JA3 tells no fewer apart   *)
(* and, unlike JA4, changes with the mere order of the extensions.         *)
ToldApart(g) ==
  /\ SameJa4(g) = StackOf(g)
  /\ {h \in SameJa3(g) : Alike(g, h)} \subseteq SameJa4(g)
  /\ ExtensionsReversed(g) \subseteq SameJa4(g) \ SameJa3(g)

(***************************************************************************)
(* What makes a client one client to JA4H: a library puts the headers of   *)
(* the request at hand before and behind those it always sends.            *)
(***************************************************************************)
Sent(client, occasion) ==
  [version |-> client.version,
   headers |-> occasion.before \o client.headers \o occasion.behind]

Ja4hOf == [client \in ClientHeaders, occasion \in Occasions |->
             Ja4h(Sent(client, occasion))]

ConfusedClients ==
  {client \in ClientHeaders :
     \E other \in ClientHeaders, o, p \in Occasions :
       (Ja4hOf[client, o] = Ja4hOf[other, p]) # (client = other)}

MistakenHellos == {hello \in Hellos : ~ToldApart(hello)}
=============================================================================
