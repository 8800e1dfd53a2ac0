----------------------------- MODULE MCTlsFront -----------------------------
(***************************************************************************)
(* A small world of ClientHellos: code points 90 and 91 are GREASE, SNI is *)
(* extension 0, ALPN 16, supported_versions 43, and 10 lists the groups.   *)
(***************************************************************************)
EXTENDS TlsFront

Hello(legacy, versions, ciphers, extensions, alpn, groups) ==
  [legacy |-> legacy, versions |-> versions, sni |-> Contains(extensions, 0),
   alpn |-> alpn, ciphers |-> ciphers, extensions |-> extensions,
   groups |-> groups, formats |-> <<0>>]

WellFormed(hello) ==
  /\ hello.versions # <<>> <=> Contains(hello.extensions, 43)
  /\ hello.alpn # <<>> <=> Contains(hello.extensions, 16)
  /\ hello.groups # <<>> <=> Contains(hello.extensions, 10)

H2 == <<"h", "2">>
Http11 == <<"h", "t", "t", "p", "1">>

SomeHellos ==
  {hello \in
     {Hello(legacy, versions, ciphers, extensions, alpn, groups) :
        legacy \in {11, 12},
        versions \in {<<>>, <<13, 12>>, <<90, 12, 13>>, <<14>>},
        ciphers \in {<<1>>, <<1, 2, 3>>, <<90, 3, 2, 1>>, <<1, 1, 2>>, <<1, 2, 2>>},
        extensions \in {<<0, 10>>, <<43, 10>>, <<10, 91, 43>>, <<0, 43, 16, 10>>,
                        <<10, 16, 43, 0>>, <<16, 43, 0, 91>>, <<0, 43>>},
        alpn \in {<<>>, <<H2, Http11>>, <<H2>>, <<Http11>>},
        groups \in {<<>>, <<29>>}} : WellFormed(hello)}

Httpx == Hello(12, <<13, 12>>, <<1, 2, 3>>, <<0, 43, 16, 10>>, <<H2, Http11>>, <<29>>)
HttpxShuffled ==
  Hello(12, <<90, 12, 13>>, <<90, 3, 2, 1>>, <<10, 16, 43, 0>>, <<H2>>, <<29>>)
Curl == Hello(12, <<13, 12>>, <<1, 2, 3>>, <<0, 43>>, <<>>, <<>>)
OldStack == Hello(12, <<>>, <<1>>, <<0, 10>>, <<>>, <<29>>)

DialledHellos == {Httpx, HttpxShuffled, Curl, OldStack}

DialledJA4s == {Ja4Components(hello) : hello \in DialledHellos}

Header(name, written) == [name |-> name, written |-> written, value |-> TRUE]

Own ==
  {Header("accept", "Accept"), Header("accept", "accept"),
   Header("user-agent", "User-Agent"), Header("user-agent", "user-agent"),
   Header("cookie", "Cookie"), [Header("cookie", "Cookie") EXCEPT !.value = FALSE]}

SomeClients ==
  {client \in [version: {"1.0", "1.1", "2"},
               headers: UNION {[1..n -> Own] : n \in 0..2}] :
     \A i, j \in DOMAIN client.headers :
       i # j => client.headers[i].name # client.headers[j].name}

SomeOccasions ==
  [before: {<<>>, <<Header("host", "Host")>>},
   behind: {<<>>,
            <<Header("content-length", "Content-Length"),
              Header("content-type", "Content-Type"), Header("dpop", "DPoP")>>,
            <<Header("authorization", "authorization"), Header("dpop", "dpop")>>}]
=============================================================================
