----------------------------- MODULE MCMessages -----------------------------
(***************************************************************************)
(* What goes over the wire and how it is read, part by part: responses,    *)
(* files, a client's requests, the text encodings, the header of trusted   *)
(* proxies, an array from the database; and the loop that puts a CacheMap  *)
(* entry into the wheels.  The parts share no state, so a behaviour is one *)
(* of one part, chosen at the start, while the others stay as they begin.  *)
(***************************************************************************)
EXTENDS InsertEntryLoop, ResponseRender, StaticFiles, RealIp, RequestWire

CONSTANT None

VARIABLES
  part,         \* the one that runs
  bytes, urlSafe, padded, lowerCase,
  array, text, pos, found

codecState == <<bytes, urlSafe, padded, lowerCase>>
arrayState == <<array, text, pos, found>>

-----------------------------------------------------------------------------
OneBody == {<<"b">>}
OneObject == {<<"j", "j">>}
Names == {<<"a">>, <<"b">>}
CookieTexts == {<<"c", "=">>, <<"d", " ">>}

\* Keys, values and paths with the characters that mean something.
RequestTexts ==
  {<<>>, <<"a", "?">>, <<"&", "a">>, <<" ">>, <<"=", "+">>, <<"?", "b", "?">>}
EscapeOf == [c \in {"&", "=", " ", "+", "?"} |->
               CASE c = "&" -> "%26" [] c = "=" -> "%3D" [] c = " " -> "+"
                 [] c = "+" -> "%2B" [] OTHER -> "%3F"]
\* Zero, space, "%", "+", a letter, and the largest byte.
Codecs == INSTANCE TextCodecs WITH Bytes <- {0, 32, 37, 43, 65, 255}, MaxBytes <- 4

\* Texts that the database quotes, and some that it does not; not all can be read.
ArrayTexts ==
  {<<>>, <<"NULL">>, <<"a">>, <<"\"", ",">>, <<"\\", "}">>, <<"'", "a">>, <<"a", ";">>}
Arrays == INSTANCE ArrayParser WITH Elements <- ArrayTexts, MaxElements <- 3, MaxRows <- 3

\* A block 10** and the address 0101; "p" and "q" are trusted, "c" and "d" are not.
AddressOfText == [s \in {"p", "q", "c", "d", "x"} |->
                    CASE s = "p" -> 10 [] s = "q" -> 5 [] s = "c" -> 4 [] s = "d" -> 12
                      [] OTHER -> 16]
TrustedBlocks == {[addr |-> 9, prefix |-> 2], [addr |-> 5, prefix |-> 4]}
PowersOfTwo == [i \in 0..4 |-> 2 ^ i]

\* Three wheels of four buckets, and delays up to well beyond what they hold.
PowersOfFour == [l \in 0..3 |-> 4 ^ l]

-----------------------------------------------------------------------------
(* Two locations, one of which ignores case and one of which has filters; a *)
(* file that is rewritten beside one that is not.                           *)

Location(uriOf, aliasOf, cs, all, rec, fil) ==
  [uri |-> uriOf, alias |-> aliasOf, caseSensitive |-> cs, allowAll |-> all,
   recursive |-> rec, filtered |-> fil]
TwoLocations ==
  <<Location(<<"/", "S", "/">>, <<"root", "/", "v", "/">>, FALSE, FALSE, FALSE, FALSE),
    Location(<<"/", "f", "/">>, <<"root", "/">>, TRUE, TRUE, TRUE, TRUE)>>
FilePaths ==
  { <<"/", "S", "/", "a", ".h">>, <<"/", "s", "/", "a", ".h">>,
    <<"/", "s", "/", "d", "/", "a", ".h">>,
    <<"/", "s", "/", "d">>, <<"/", "f", "/", "v">>, <<"/", "f", "/", "v", "/", "a", ".h">>,
    <<"/", "..", "/", "s", "/", "a", ".h">>, <<"/", "v", "/", "a", ".h">> }
PathPieces == {"/", "S", "s", "f", "v", "a", "d", ".h", "..", "root", "index"}
LowerPiece == [p \in PathPieces |-> IF p = "S" THEN "s" ELSE p]
Rewritten == <<"root", "/", "v", "/", "a", ".h">>

ServedFiles == {Rewritten, <<"root", "/", "v", "/", "d", "/", "index", ".h">>}
Directories == {<<"root", "/", "v">>, <<"root", "/", "v", "/", "d">>}
RootPath    == <<"root">>
IndexPath   == <<"/", "index", ".h">>

-----------------------------------------------------------------------------
PartNames == {"response", "files", "request", "codecs", "realIp", "array", "insert"}

MessagesInit ==
  /\ part \in PartNames
  /\ ResponseInit
  /\ StaticInit
  /\ WireInit
  /\ Codecs!CodecInit
  /\ RealIpInit
  /\ Arrays!ArrayInit
  /\ InsertInit
  /\ part # "files" => zipped
  /\ part # "request" => ~upload
  /\ part # "codecs" => ~urlSafe /\ ~padded /\ ~lowerCase
  /\ part # "realIp" => trustCIDRs = {} /\ peer = 5 /\ ~forwarded
  /\ part # "insert" => asked = 1 /\ start = 0

OthersStay ==
  /\ UNCHANGED part
  /\ IF part = "response" THEN TRUE ELSE UNCHANGED respVars
  /\ IF part = "files" THEN TRUE ELSE UNCHANGED staticVars
  /\ IF part = "request" THEN TRUE ELSE UNCHANGED wireVars
  /\ IF part = "codecs" THEN TRUE ELSE UNCHANGED codecState
  /\ IF part = "realIp" THEN TRUE ELSE UNCHANGED realIpVars
  /\ IF part = "array" THEN TRUE ELSE UNCHANGED arrayState
  /\ IF part = "insert" THEN TRUE ELSE UNCHANGED insertVars

MessagesNext ==
  \/ part = "response" /\ ResponseNext /\ OthersStay
  \/ part = "files" /\ StaticNext /\ OthersStay
  \/ part = "request" /\ WireNext /\ OthersStay
  \/ part = "codecs" /\ Codecs!AppendByte /\ OthersStay
  \/ part = "realIp" /\ Extend /\ OthersStay
  \/ part = "array" /\ Arrays!ArrayNext /\ OthersStay
  \/ part = "insert" /\ InsertNext /\ OthersStay

MessagesSpec ==
  MessagesInit
  /\ [][MessagesNext]_<<part, respVars, staticVars, wireVars, codecState, realIpVars,
                       arrayState, insertVars>>

-----------------------------------------------------------------------------
(* The properties of the other parts are those of their modules.           *)

\* Every encoding is undone by its decoding, in the space reserved for it.
CodecsExact == part = "codecs" => Codecs!CodecsExact

=============================================================================
