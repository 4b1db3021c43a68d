----------------------------- MODULE TextCodecs -----------------------------
(***************************************************************************)
(* The text encodings of Utilities.cpp: hexadecimal, base64 and URL        *)
(* encoding, and splitting.  A text is a sequence of character codes.      *)
(***************************************************************************)
EXTENDS Integers, Sequences, FiniteSets, SequencesExt

CONSTANTS
  Bytes,      \* the bytes that texts are made of
  MaxBytes    \* bound of the model: the length of a text

VARIABLES
  bytes,      \* a text
  urlSafe,    \* flags of base64Encode
  padded,
  lowerCase   \* flag of binaryStringToHex

codecVars == <<bytes, urlSafe, padded, lowerCase>>

Digits == 48..57
Uppers == 65..90
Lowers == 97..122
Alnum == Digits \cup Uppers \cup Lowers
CodesOf(a, n) == [i \in 1..n |-> a + i - 1]

-----------------------------------------------------------------------------
(* Hexadecimal *)

HexDigit(v, lower) == IF v < 10 THEN 48 + v ELSE IF lower THEN 87 + v ELSE 55 + v

binaryStringToHex(s, lower) ==
  [i \in 1..(2 * Len(s)) |->
     LET byte == s[(i + 1) \div 2]
     IN  HexDigit(IF i % 2 = 1 THEN byte \div 16 ELSE byte % 16, lower)]

IsHex(c) == c \in Digits \cup 65..70 \cup 97..102
HexValue(c) ==
  CASE c \in Digits -> c - 48
    [] c \in 97..102 -> c - 97 + 10
    [] OTHER -> c - 65 + 10

\* Nothing comes of a text with another character.
hexToBinaryString(s) ==
  IF \E i \in 1..(2 * (Len(s) \div 2)) : ~IsHex(s[i]) THEN << >>
  ELSE [i \in 1..(Len(s) \div 2) |-> HexValue(s[2 * i - 1]) * 16 + HexValue(s[2 * i])]

-----------------------------------------------------------------------------
(* Base64 *)

base64Chars == CodesOf(65, 26) \o CodesOf(97, 26) \o CodesOf(48, 10) \o <<43, 47>>
urlBase64Chars == CodesOf(65, 26) \o CodesOf(97, 26) \o CodesOf(48, 10) \o <<45, 95>>

isBase64(c) == c \in Alnum \cup {43, 47, 45, 95}

\* base64CharMap: either alphabet, and -1 (0xff) for the zero byte that pads a group
getIndex(c) ==
  CASE c = 0 -> 255
    [] c \in {43, 45} -> 62
    [] c \in {47, 95} -> 63
    [] OTHER -> (CHOOSE i \in 1..62 : base64Chars[i] = c) - 1

\* char_array_4 of char_array_3
Sextets(b) == << b[1] \div 4, (b[1] % 4) * 16 + (b[2] \div 16),
                 (b[2] % 16) * 4 + (b[3] \div 64), b[3] % 64 >>

\* char_array_3 of char_array_4, each truncated to a byte
Octets(q) == << (q[1] * 4 + ((q[2] % 64) \div 16)) % 256,
                ((q[2] % 16) * 16 + ((q[3] % 64) \div 4)) % 256,
                ((q[3] % 4) * 64 + q[4]) % 256 >>

Padded(s, n, fill) == s \o [i \in 1..(n - Len(s)) |-> fill]

\* Mutant: of a last group one character too few is written.
TailCharsShort(n) == n
\* A last group of n bytes is n + 1 characters.
TailChars(n) == n + 1

base64Encode(s, url, pad) ==
  LET Chars == IF url THEN urlBase64Chars ELSE base64Chars
      Text(six) == [j \in DOMAIN six |-> Chars[six[j] + 1]]
      whole == Len(s) \div 3
      tail == SubSeq(s, 3 * whole + 1, Len(s))
      chars[k \in 0..whole] ==
        IF k = 0 THEN << >> ELSE chars[k - 1] \o Text(Sextets(SubSeq(s, 3 * k - 2, 3 * k)))
      last == SubSeq(Text(Sextets(Padded(tail, 3, 0))), 1, TailChars(Len(tail)))
  IN  chars[whole] \o (IF tail = << >> THEN << >>
                       ELSE IF pad THEN Padded(last, 4, 61) ELSE last)

\* The text up to its first "=", without the characters of no alphabet.
UsedChars(s) ==
  LET Ends == {i \in DOMAIN s : s[i] = 61}
      upto == IF Ends = {} THEN Len(s) ELSE (CHOOSE i \in Ends : \A j \in Ends : i <= j) - 1
  IN  SelectSeq(SubSeq(s, 1, upto), isBase64)

base64Decode(s) ==
  LET used == UsedChars(s)
      whole == Len(used) \div 4
      tail == SubSeq(used, 4 * whole + 1, Len(used))
      Index(q) == [j \in DOMAIN q |-> getIndex(q[j])]
      out[k \in 0..whole] ==
        IF k = 0 THEN << >> ELSE out[k - 1] \o Octets(Index(SubSeq(used, 4 * k - 3, 4 * k)))
  IN  out[whole] \o (IF tail = << >> THEN << >>
                     ELSE SubSeq(Octets(Index(Padded(tail, 4, 0))), 1, Len(tail) - 1))

base64EncodedLength(n, pad) == IF pad THEN ((n + 2) \div 3) * 4 ELSE (n * 8 + 5) \div 6
base64DecodedLength(n) == (n * 3) \div 4

-----------------------------------------------------------------------------
(* URL encoding *)

charToHex(c) == <<HexDigit(c \div 16, FALSE), HexDigit(c % 16, FALSE)>>

\* "-_.!~*()", and for urlEncode also "'&=/\?"
Marks == {45, 95, 46, 33, 126, 42, 40, 41}
PathMarks == Marks \cup {39, 38, 61, 47, 92, 63}

UrlChar(c, Kept) ==
  IF c = 32 THEN <<43>> ELSE IF c \in Alnum \cup Kept THEN <<c>> ELSE <<37>> \o charToHex(c)

UrlText(s, Kept) ==
  LET text[i \in 0..Len(s)] == IF i = 0 THEN << >> ELSE text[i - 1] \o UrlChar(s[i], Kept)
  IN  text[Len(s)]
urlEncodeComponent(s) == UrlText(s, Marks)
urlEncode(s) == UrlText(s, PathMarks)

needUrlDecoding(s) == \E i \in DOMAIN s : s[i] \in {43, 37}

EscapeAt(s, i) == i + 2 <= Len(s) /\ IsHex(s[i + 1]) /\ IsHex(s[i + 2])

urlDecode(s) ==
  LET from[i \in 1..(Len(s) + 3)] ==
        IF i > Len(s) THEN << >>
        ELSE IF s[i] = 43 THEN <<32>> \o from[i + 1]
        ELSE IF s[i] = 37 /\ EscapeAt(s, i)
        THEN <<HexValue(s[i + 1]) * 16 + HexValue(s[i + 2])>> \o from[i + 3]
        ELSE <<s[i]>> \o from[i + 1]
  IN  from[1]

-----------------------------------------------------------------------------
(* splitStringToSet, at one character *)

\* The first other character from i on
Past(s, sep, i) ==
  LET Other == {k \in i..Len(s) : s[k] # sep}
  IN  IF Other = {} THEN Len(s) + 1 ELSE CHOOSE k \in Other : \A m \in Other : k <= m

\* The loop: items end at a separator that has something in front of it; separators in a
\* row count as one.
splitStringToSet(s, sep) ==
  LET next(i) == LET At == {k \in i..Len(s) : s[k] = sep}
                 IN  IF At = {} THEN 0 ELSE CHOOSE k \in At : \A m \in At : k <= m
      from[i \in 1..(Len(s) + 1)] ==
        IF next(i) = 0 THEN IF i <= Len(s) THEN {SubSeq(s, i, Len(s))} ELSE {}
        ELSE (IF next(i) = 1 THEN {} ELSE {SubSeq(s, i, next(i) - 1)})
             \cup from[Past(s, sep, next(i) + 1)]
  IN  from[1]

-----------------------------------------------------------------------------
CodecInit ==
  /\ bytes = << >>
  /\ urlSafe \in BOOLEAN /\ padded \in BOOLEAN /\ lowerCase \in BOOLEAN
AppendByte ==
  /\ Len(bytes) < MaxBytes
  /\ \E b \in Bytes : bytes' = Append(bytes, b)
  /\ UNCHANGED <<urlSafe, padded, lowerCase>>

CodecSpec == CodecInit /\ [][AppendByte]_codecVars

\* What was written in hexadecimal is read back, and small letters are small.
HexExact ==
  LET text == binaryStringToHex(bytes, lowerCase)
  IN  /\ hexToBinaryString(text) = bytes
      /\ \A i \in DOMAIN text : text[i] \in Uppers => ~lowerCase

\* base64Encode is the bits of the bytes taken six at a time, the last ones filled with
\* zeros, and has the length that is reserved for it.
Base64Bits ==
  LET text == base64Encode(bytes, urlSafe, padded)
      Bit(i) == (bytes[(i - 1) \div 8 + 1] \div 2^(7 - ((i - 1) % 8))) % 2
      At(i) == IF i <= 8 * Len(bytes) THEN Bit(i) ELSE 0
      Six(k) == 32 * At(6 * k - 5) + 16 * At(6 * k - 4) + 8 * At(6 * k - 3)
                + 4 * At(6 * k - 2) + 2 * At(6 * k - 1) + At(6 * k)
      n == (8 * Len(bytes) + 5) \div 6
  IN  /\ Len(text) = base64EncodedLength(Len(bytes), padded)
      /\ \A k \in 1..n : getIndex(text[k]) = Six(k)
      /\ \A k \in (n + 1)..Len(text) : text[k] = 61

\* It is read back in either alphabet, padded or not, also when it was broken into lines,
\* and what is read fits in what is reserved for it.
Base64Exact ==
  LET text == base64Encode(bytes, urlSafe, padded)
  IN  \A i \in 0..Len(text) :
        LET broken == SubSeq(text, 1, i) \o <<10>> \o SubSeq(text, i + 1, Len(text))
        IN  base64Decode(broken) = bytes /\ Len(bytes) <= base64DecodedLength(Len(text))

\* An encoded URL part is decoded to what it was; that of a component has no character
\* that means something in a query.
UrlExact ==
  /\ urlDecode(urlEncode(bytes)) = bytes
  /\ urlDecode(urlEncodeComponent(bytes)) = bytes
  /\ Range(urlEncodeComponent(bytes)) \cap {38, 61, 47, 63, 35} = {}
  /\ needUrlDecoding(urlEncode(bytes)) \/ urlEncode(bytes) = bytes

\* The items are the longest runs without a separator.
SplitExact ==
  \A sep \in Bytes :
    splitStringToSet(bytes, sep) =
      {SubSeq(bytes, r[1], r[2]) :
         r \in {q \in (DOMAIN bytes) \X (DOMAIN bytes) :
                  /\ q[1] <= q[2]
                  /\ \A k \in q[1]..q[2] : bytes[k] # sep
                  /\ q[1] = 1 \/ bytes[q[1] - 1] = sep
                  /\ q[2] = Len(bytes) \/ bytes[q[2] + 1] = sep}}

\* Every encoding is undone by its decoding, in the space reserved for it.
CodecsExact == HexExact /\ Base64Bits /\ Base64Exact /\ UrlExact /\ SplitExact
=============================================================================
