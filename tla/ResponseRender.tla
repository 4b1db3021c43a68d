--------------------------- MODULE ResponseRender ---------------------------
(***************************************************************************)
(* A response (HttpResponseImpl): what its setters leave, the header       *)
(* string kept apart from it, and the two ways to bring it to the wire.    *)
(* A response with an expiry (expriedTime_ >= 0) is kept in a cache of its *)
(* loop and rendered again and again: the bytes of the first time are      *)
(* kept, and only their date is brought up to date.                        *)
(*                                                                         *)
(* Bodies are sequences, so that they have a length.  What is rendered is  *)
(* a record: length is the content-length announced, or Unset.              *)
(***************************************************************************)
EXTENDS Integers, Sequences

CONSTANTS
  Bodies,         \* what setBody() is given
  JsonTexts,      \* the serialized forms of what setJsonObject() is given
  Codes,          \* status codes
  NoLength,       \* those for which contentLengthIsAllowed() is false
  SendDate,       \* sendDateHeader()
  MaxSeconds,     \* bound of the model: seconds
  MaxSetters,     \* bound of the model: setters called
  Unset           \* an empty pointer, or no value

ASSUME ResponseAssumption == MaxSetters \in Nat /\ Unset \notin Bodies

VARIABLES
  second,         \* the second the date is in
  resp,           \* the fields of the response
  fullHeader,     \* fullHeaderString_, or Unset
  httpString,     \* httpString_, or Unset
  datePos,        \* datePos_ is set
  stringDate,     \* httpStringDate_
  sets,           \* setters called so far
  rendered        \* what the last render gave, and when

respVars == <<second, resp, fullHeader, httpString, datePos, stringDate, sets, rendered>>

\* The response as HttpResponse::newHttpResponse makes it
NewResponse ==
  [code |-> CHOOSE c \in Codes \ NoLength : TRUE, body |-> Unset, json |-> Unset,
   serialized |-> TRUE, lengthHeader |-> Unset, stream |-> FALSE,
   sendfile |-> Unset, passThrough |-> FALSE, close |-> FALSE, expires |-> FALSE]

ResponseInit ==
  /\ second = 0
  /\ resp = NewResponse
  /\ fullHeader = Unset
  /\ httpString = Unset
  /\ datePos = FALSE
  /\ stringDate = -1
  /\ sets = 0
  /\ rendered = Unset

-----------------------------------------------------------------------------
(* The setters of handlers, advices and the framework, at any time. *)

SetField(r) ==
  /\ sets < MaxSetters
  /\ sets' = sets + 1
  /\ resp' = r
  /\ UNCHANGED <<second, httpString, stringDate, rendered>>
SetOnly(r) == SetField(r) /\ UNCHANGED <<fullHeader, datePos>>

setStatusCode == \E c \in Codes : SetOnly([resp EXCEPT !.code = c])
setVersion10 == SetOnly([resp EXCEPT !.close = TRUE])
setPassThrough == SetOnly([resp EXCEPT !.passThrough = TRUE])
setStreamCallback == SetOnly([resp EXCEPT !.stream = TRUE])
setSendfile == \E n \in 1..2 : SetOnly([resp EXCEPT !.sendfile = n])

\* setBody: with passThrough the length becomes a header.
WithBody(r, b) ==
  [r EXCEPT !.body = b, !.lengthHeader = IF r.passThrough THEN Len(b) ELSE @]

setBody ==
  \E b \in Bodies :
    /\ SetField(WithBody(resp, b))
    /\ fullHeader' = IF resp.passThrough THEN Unset ELSE fullHeader
    /\ UNCHANGED datePos

\* setJsonObject, of newHttpJsonResponse only: a body set later gives way to the object.
setJsonObject ==
  /\ resp = NewResponse
  /\ \E text \in JsonTexts :
       /\ SetField([resp EXCEPT !.json = text, !.serialized = FALSE])
       /\ UNCHANGED <<fullHeader, datePos>>

\* generateBodyFromJson, once per object: what getBodyData() and the header call.
Generated(r) ==
  IF r.json = Unset \/ r.serialized THEN r
  ELSE [r EXCEPT !.body = r.json, !.serialized = TRUE]
getBodyData == SetOnly(Generated(resp))

\* setExpiredTime(>= 0) and (-1)
setExpiredTime ==
  \E on \in BOOLEAN :
    /\ SetField([resp EXCEPT !.expires = on])
    /\ datePos' = FALSE
    /\ fullHeader' = IF ~on /\ resp.close THEN Unset ELSE fullHeader

\* addHeader, removeHeader of a header without a meaning here
addHeader ==
  /\ SetField(resp)
  /\ fullHeader' = Unset
  /\ UNCHANGED datePos

-----------------------------------------------------------------------------
(* Rendering. *)

Allowed(r) == r.code \notin NoLength
LengthOf(b) == IF b = Unset THEN 0 ELSE Len(b)

\* makeHeaderString: the length of a body, or of the range of a file; a stream goes in
\* chunks unless the connection ends it.
Header(r) ==
  [code |-> r.code,
   length |-> IF ~Allowed(r) \/ r.passThrough THEN r.lengthHeader
              ELSE IF r.stream THEN Unset
              ELSE IF r.sendfile # Unset THEN r.sendfile ELSE LengthOf(Generated(r).body),
   chunked |-> ~r.passThrough /\ r.stream /\ ~r.close /\ Allowed(r)]

\* makeHeaderString(), which its callers leave to a response that is complete: its
\* string is kept, and no setter but those of headers would drop it.
makeHeaderString ==
  /\ fullHeader = Unset
  /\ resp' = Generated(resp)
  /\ fullHeader' = Header(resp)
  /\ sets' = MaxSetters
  /\ UNCHANGED <<second, httpString, datePos, stringDate, rendered>>

HeaderNow == IF fullHeader = Unset THEN Header(resp) ELSE fullHeader
AfterHeader == IF fullHeader = Unset THEN Generated(resp) ELSE resp
DateNow == IF ~resp.passThrough /\ SendDate THEN second ELSE Unset

\* What goes out: a header, a date and a body; and the response it was made of.
Output(header, date, body, by) ==
  [header |-> header, date |-> date, body |-> body, of |-> AfterHeader, by |-> by]

\* Mutant: the body goes out whatever the status says.
BodyAlways(r) == r.body

\* bodyPtr_ && contentLengthIsAllowed()
BodyToSend(r) == IF Allowed(r) THEN r.body ELSE Unset

Rendered(out) == rendered' = [out |-> out, at |-> second]

\* renderToBuffer(buffer) of a response that is not kept
RenderInto ==
  /\ ~resp.expires
  /\ resp' = AfterHeader
  /\ Rendered(Output(HeaderNow, DateNow, BodyToSend(resp'), "into"))
  /\ UNCHANGED <<second, fullHeader, httpString, datePos, stringDate, sets>>

isDateChanged == second # stringDate

\* Mutant: the string is made anew.
RedatedAnew(string) == Output(HeaderNow, second, resp.body, "whole")

\* memcpy over the date
Redated(string) == [string EXCEPT !.date = second]

\* renderToBuffer(): the string that is kept, its date rewritten once a second on a copy
RenderKept ==
  /\ resp.expires
  /\ IF ~resp.passThrough /\ SendDate THEN datePos ELSE httpString # Unset
  /\ IF ~resp.passThrough /\ SendDate /\ isDateChanged
     THEN /\ httpString' = Redated(httpString)
          /\ stringDate' = second
     ELSE UNCHANGED <<httpString, stringDate>>
  /\ UNCHANGED resp
  /\ Rendered(httpString')
  /\ UNCHANGED <<second, fullHeader, datePos, sets>>

\* ... and the first time, or for a response that is not kept (the parser's own ones):
\* this variant sends the body whatever the status is.
RenderFirst ==
  /\ \/ ~resp.expires
     \/ IF ~resp.passThrough /\ SendDate THEN ~datePos ELSE httpString = Unset
  /\ resp' = AfterHeader
  /\ datePos' = (datePos \/ DateNow # Unset)
  /\ LET out == Output(HeaderNow, DateNow, resp'.body, "whole")
     IN  /\ httpString' = IF resp.expires THEN out ELSE httpString
         /\ Rendered(out)
  /\ UNCHANGED <<second, fullHeader, stringDate, sets>>

\* renderHeaderForHeadMethod
RenderHead ==
  /\ resp' = AfterHeader
  /\ Rendered(Output(HeaderNow, DateNow, "head", "head"))
  /\ UNCHANGED <<second, fullHeader, httpString, datePos, stringDate, sets>>

ResponseTick ==
  /\ second < MaxSeconds
  /\ second' = second + 1
  /\ UNCHANGED <<resp, fullHeader, httpString, datePos, stringDate, sets, rendered>>

\* clear(): httpString_, passThrough_, closeConnection_ and flagForSerializingJson_ stay.
clear ==
  /\ rendered # Unset
  /\ resp' = [NewResponse EXCEPT !.passThrough = resp.passThrough, !.close = resp.close,
                           !.serialized = resp.serialized, !.code = Unset]
  /\ fullHeader' = Unset
  /\ datePos' = FALSE
  /\ rendered' = Unset
  /\ UNCHANGED <<second, httpString, stringDate, sets>>

ResponseNext ==
  \/ setStatusCode \/ setVersion10 \/ setPassThrough \/ setStreamCallback \/ setSendfile
  \/ setBody \/ setJsonObject \/ getBodyData \/ setExpiredTime \/ addHeader
  \/ makeHeaderString \/ RenderInto \/ RenderKept \/ RenderFirst \/ RenderHead
  \/ ResponseTick \/ clear

ResponseSpec == ResponseInit /\ [][ResponseNext]_respVars

-----------------------------------------------------------------------------
Simple(r) == ~r.stream /\ r.sendfile = Unset

\* Whatever is set in whichever order and how often it is rendered, the length announced
\* is that of the body that follows; with a status without a length no body follows,
\* unless renderToBuffer() makes the string (it sends the body all the same).  What is
\* passed through has the length its user gave; made of JSON, that of another body.
LengthsExact ==
  rendered # Unset /\ rendered.out.body # "head" /\ Simple(rendered.out.of) =>
    LET out == rendered.out
    IN  \/ out.header.length = LengthOf(out.body)
        \/ ~Allowed(out.of) /\ (out.body = Unset \/ out.by = "whole")
        \/ out.of.passThrough /\ out.header.length = Unset
        \/ out.of.passThrough /\ out.of.json # Unset

\* A HEAD answer announces what the GET would have sent.
HeadAsGet ==
  rendered # Unset /\ rendered.out.body = "head" /\ Simple(rendered.out.of) =>
    \/ rendered.out.header.length = LengthOf(rendered.out.of.body)
    \/ ~Allowed(rendered.out.of)
    \/ rendered.out.of.passThrough

\* However often and however late a kept response is rendered, its date is the second
\* it is rendered in (one that is passed through after it was kept, keeps its date too).
DateCurrent ==
  rendered # Unset /\ rendered.out.date # Unset /\ ~resp.passThrough => rendered.out.date = rendered.at

\* The bytes that are kept do not change but for the date, until the expiry is set again.
KeptBytesStay ==
  [][httpString # Unset /\ datePos /\ datePos' /\ resp.expires =>
       /\ httpString'.header = httpString.header
       /\ httpString'.body = httpString.body]_respVars

\* Whatever is rendered, in whichever way, fits the response and the second.
ResponseExact == LengthsExact /\ HeadAsGet /\ DateCurrent
=============================================================================
