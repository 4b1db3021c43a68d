-------------------------- MODULE MCHttpConnection --------------------------
(* Clients of HttpConnection: one message of each kind the parser tells     *)
(* apart, after and before a plain one.                                     *)
EXTENDS HttpConnection

Start(id, version) == <<<<Token("method", id), Space>>, <<Token("line", version)>> \o CRLF>>
Header(kind, v)    == <<<<Token(kind, v)>> \o CRLF>>
EndOfHeaders       == <<CRLF>>
Data(n)            == [i \in 1..n |-> Token("data", 0)]

Size(n)   == <<<<Token("size", n)>> \o CRLF>>
Chunk(n)  == Size(n) \o <<Data(n) \o CRLF>>
LastChunk == Size(0) \o <<CRLF>>
Many(kind, v, n) == <<[i \in 1..n |-> Token(kind, v)]>>

Message(id, pieces, body, verdict) ==
  [id |-> id, pieces |-> pieces, body |-> body, verdict |-> verdict]

Plain(id) == Message(id, Start(id, 11) \o EndOfHeaders, 0, "request")

Sized(id) ==
  Message(id, Start(id, 11) \o Header("length", 2) \o EndOfHeaders \o <<Data(2)>>, 2, "request")

Requests(id) ==
  { Plain(id), Sized(id),
    Message(id, Start(id, 10) \o Header("header", 0) \o Header("length", 0) \o EndOfHeaders,
            0, "request"),
    Message(id, Start(id, 11) \o Header("coding", 1) \o EndOfHeaders \o Chunk(1) \o Chunk(1)
                  \o LastChunk, 2, "request"),
    Message(id, Start(id, 11) \o Header("length", 2) \o Header("expect", 1) \o EndOfHeaders
                  \o <<Data(2)>>, 2, "request") }

RefusedOne(id) ==
  { Message(id, Start(id, 11) \o Header("expect", 1) \o Header("length", 3) \o EndOfHeaders,
            0, "refused") }

Chunked(id) == Start(id, 11) \o Header("coding", 1) \o EndOfHeaders

Fatal(id) ==
  { Message(id, pieces, 0, "fatal") : pieces \in
      { <<<<Token("method", 0), Space>>>>,
        Many("method", id, 3),
        <<<<Token("method", id), Space>>, <<Token("line", 0)>> \o CRLF>>,
        <<<<Token("method", id), Space>>>> \o Many("line", 11, 6),
        Start(id, 11) \o Many("header", 0, 6),
        Start(id, 11) \o Header("length", -1) \o EndOfHeaders,
        Start(id, 11) \o Header("length", 3) \o EndOfHeaders,
        Start(id, 11) \o Header("coding", 0) \o EndOfHeaders,
        Start(id, 10) \o Header("length", 1) \o Header("expect", 1) \o EndOfHeaders,
        Start(id, 11) \o Header("coding", 1) \o Header("expect", 1) \o EndOfHeaders,
        Chunked(id) \o Chunk(3),
        Chunked(id) \o Many("size", 1, 4),
        Chunked(id) \o Size(1) \o <<Data(3)>>,
        Chunked(id) \o Size(0) \o <<Data(2)>> } }

MCScripts ==
  {<<m, n>> : m \in Requests(1) \cup RefusedOne(1), n \in {Plain(2), Sized(2)} \cup Fatal(2)}
    \cup {<<Plain(1), m>> : m \in Requests(2)}
    \cup {<<Sized(1), Plain(2), Sized(3)>>, <<Plain(1), Plain(2), Plain(3), Plain(4)>>}

\* The clients meet the condition of the theorems about them.
ASSUME ClientsSpeakWell == \A s \in MCScripts : WellSpoken(s)
=============================================================================
