-------------------------- MODULE WebSocketReceive --------------------------
(***************************************************************************)
(* The receiving half of a server's WebSocketConnectionImpl: the message   *)
(* parser, and onNewMessage, which runs it over the bytes of a delivery    *)
(* (lib/src/WebSocketConnectionImpl.cpp and .h).                           *)
(*                                                                         *)
(* A byte of the model is a token: the first two bytes of a frame, its     *)
(* extended length, its masking key, or one byte of its payload, which     *)
(* carries the number of the message it belongs to.                        *)
(***************************************************************************)
EXTENDS Integers, Sequences, SequencesExt

CONSTANTS
  Frames,       \* what clients send: sequences of frames
  MaxMessage    \* getClientMaxWebSocketMessageSize(), in payload tokens

ASSUME MaxMessageAssumption == MaxMessage \in Nat

ASSUME FramesAssumption ==
  \A s \in Frames :
    s \in Seq([op : STRING, fin : BOOLEAN, payload : Seq(Nat), long : BOOLEAN])

VARIABLES
  frames,       \* the frames of this client
  stream,       \* tokens sent and not yet received
  buf,          \* the MsgBuffer
  message,      \* message_
  type,         \* type_, which nothing initialises ("none"); a client that starts
                \* with a continuation frame would make the parser read it
  turn,         \* "wait" or "parse": the loop thread is inside onNewMessage
  sound,        \* FALSE once onNewMessage has shut the connection down
  delivered,    \* what messageCallback_ has been given
  pongs         \* what send has been given as pongs

receiveVars == <<frames, stream, buf, message, type, turn, sound, delivered, pongs>>

Types == [op \in {"text", "binary", "close", "ping", "pong"} |-> op]
Controls == {"close", "ping", "pong"}

\* A frame: opcode, FIN bit, payload, and how its length is written.
Frame(op, fin, payload, long) ==
  [op |-> op, fin |-> fin, payload |-> payload, long |-> long]

Token(kind, value) == [kind |-> kind, value |-> value]

\* The bytes of a masked frame (the client's half of the protocol).
Encode(f) ==
  <<[kind |-> "op", value |-> f.op, fin |-> f.fin],
    Token("size", IF f.long THEN 126 ELSE Len(f.payload))>>
  \o (IF f.long THEN <<Token("long", Len(f.payload))>> ELSE <<>>)
  \o <<Token("mask", 0)>>
  \o [i \in 1..Len(f.payload) |-> Token("data", f.payload[i])]

-----------------------------------------------------------------------------
(* WebSocketMessageParser::parse on the buffer. *)

Op      == buf[1].value
Fin     == buf[1].fin
Known   == Op \in {"continuation"} \cup DOMAIN Types
Control == Op \in Controls
Long    == buf[2].value = 126

\* indexFirstMask, and the length once it can be read
FirstMask == IF Long THEN 3 ELSE 2
HasLength == ~ Long \/ Len(buf) >= 3
Length    == IF Long THEN buf[3].value ELSE buf[2].value

\* type_ is set as soon as the opcode is there; a continuation leaves it.
TypeAfter == IF Op = "continuation" THEN type ELSE Types[Op]

\* return false; with a maximum below 127 the code refuses a long length by its first
\* byte already, before the others are there.
Bad ==
  \/ ~ Known
  \/ Control /\ ~ Fin
  \/ Long /\ HasLength /\ Control
  \/ HasLength /\ Length > MaxMessage

Whole == HasLength /\ Len(buf) >= FirstMask + 1 + Length

Payload ==
  [i \in 1..Length |-> buf[FirstMask + 1 + i].value]

Left == SubSeq(buf, FirstMask + Length + 2, Len(buf))

-----------------------------------------------------------------------------
(* onNewMessage, one iteration of its loop per step. *)

Receive(n) ==
  /\ turn = "wait" /\ sound
  /\ n \in 1..Len(stream)
  /\ buf' = buf \o SubSeq(stream, 1, n)
  /\ stream' = SubSeq(stream, n + 1, Len(stream))
  /\ turn' = "parse"
  /\ UNCHANGED <<frames, message, type, sound, delivered, pongs>>

\* Nothing, or not enough, is left: parse returns true, gotAll() is false.
Incomplete ==
  /\ turn = "parse"
  /\ \/ Len(buf) < 2 /\ UNCHANGED type
     \/ Len(buf) >= 2 /\ ~ Bad /\ ~ Whole /\ type' = TypeAfter
  /\ turn' = "wait"
  /\ UNCHANGED <<frames, stream, buf, message, sound, delivered, pongs>>

\* "Websock error!"
Reject ==
  /\ turn = "parse" /\ Len(buf) >= 2 /\ Bad
  /\ turn' = "wait" /\ sound' = FALSE
  /\ type' = IF Known THEN TypeAfter ELSE type
  /\ buf' = IF Known /\ ~ (Control /\ ~ Fin) /\ ~ (Long /\ Control) THEN <<>> ELSE buf
  /\ UNCHANGED <<frames, stream, message, delivered, pongs>>

\* A frame without FIN is added to the message, and onNewMessage returns.
TakeFragment ==
  /\ turn = "parse" /\ Len(buf) >= 2 /\ ~ Bad /\ Whole /\ ~ Fin
  /\ message' = message \o Payload
  /\ type' = TypeAfter
  /\ buf' = Left
  /\ turn' = "wait"
  /\ UNCHANGED <<frames, stream, sound, delivered, pongs>>

\* Mutants: the message is copied out and stays; the loop stops after one message;
\* every control frame is answered.
TakeFinalCopies ==
  /\ turn = "parse" /\ Len(buf) >= 2 /\ ~ Bad /\ Whole /\ Fin
  /\ delivered' = Append(delivered, [type |-> TypeAfter, payload |-> message \o Payload])
  /\ message' = message \o Payload
  /\ type' = TypeAfter
  /\ buf' = Left
  /\ turn' = IF Left = <<>> THEN "wait" ELSE "parse"
  /\ pongs' = IF TypeAfter = "ping" THEN Append(pongs, message \o Payload) ELSE pongs
  /\ sound' = (sound /\ TypeAfter # "close")
  /\ UNCHANGED <<frames, stream>>

TakeFinalOnce ==
  /\ turn = "parse" /\ Len(buf) >= 2 /\ ~ Bad /\ Whole /\ Fin
  /\ delivered' = Append(delivered, [type |-> TypeAfter, payload |-> message \o Payload])
  /\ message' = <<>>
  /\ type' = TypeAfter
  /\ buf' = Left
  /\ turn' = "wait"
  /\ pongs' = IF TypeAfter = "ping" THEN Append(pongs, message \o Payload) ELSE pongs
  /\ sound' = (sound /\ TypeAfter # "close")
  /\ UNCHANGED <<frames, stream>>

TakeFinalAnswersAll ==
  /\ turn = "parse" /\ Len(buf) >= 2 /\ ~ Bad /\ Whole /\ Fin
  /\ delivered' = Append(delivered, [type |-> TypeAfter, payload |-> message \o Payload])
  /\ message' = <<>>
  /\ type' = TypeAfter
  /\ buf' = Left
  /\ turn' = IF Left = <<>> THEN "wait" ELSE "parse"
  /\ pongs' = IF TypeAfter \in Controls THEN Append(pongs, message \o Payload) ELSE pongs
  /\ sound' = (sound /\ TypeAfter # "close")
  /\ UNCHANGED <<frames, stream>>

\* A frame with FIN ends the message, of the type of the latest opcode: a ping is
\* answered, a close shuts the connection down, and the callback is called.
TakeFinal ==
  /\ turn = "parse" /\ Len(buf) >= 2 /\ ~ Bad /\ Whole /\ Fin
  /\ delivered' = Append(delivered, [type |-> TypeAfter, payload |-> message \o Payload])
  /\ message' = <<>>
  /\ type' = TypeAfter
  /\ buf' = Left
  /\ turn' = IF Left = <<>> THEN "wait" ELSE "parse"
  /\ pongs' = IF TypeAfter = "ping" THEN Append(pongs, message \o Payload) ELSE pongs
  /\ sound' = (sound /\ TypeAfter # "close")
  /\ UNCHANGED <<frames, stream>>

ReceiveInit ==
  /\ frames \in Frames
  /\ stream = FlattenSeq([i \in 1..Len(frames) |-> Encode(frames[i])])
  /\ buf = <<>> /\ message = <<>> /\ turn = "wait"
  /\ type = "none"
  /\ sound = TRUE /\ delivered = <<>> /\ pongs = <<>>

ReceiveStep == Incomplete \/ Reject \/ TakeFragment \/ TakeFinal

-----------------------------------------------------------------------------
(* Properties. *)

\* What RFC 6455 makes of the frames: control frames are messages by themselves,
\* wherever they come; the others make a message up to the one with FIN.  A frame
\* that is malformed ends the conversation.
Malformed(f) ==
  \/ f.op \notin {"continuation"} \cup DOMAIN Types
  \/ f.op \in Controls /\ (~ f.fin \/ f.long)
  \/ Len(f.payload) > MaxMessage

Message(t, p) == [type |-> t, payload |-> p]

Listen(acc, f) ==
  LET t == IF f.op = "continuation" THEN acc.type ELSE f.op
      p == acc.payload \o f.payload
  IN  IF acc.over \/ Malformed(f) THEN [acc EXCEPT !.over = TRUE]
      ELSE IF f.op \in Controls THEN [acc EXCEPT !.out = Append(@, Message(f.op, f.payload))]
      ELSE IF f.fin THEN [acc EXCEPT !.out = Append(@, Message(t, p)), !.payload = <<>>]
      ELSE [acc EXCEPT !.type = t, !.payload = p]

\* What has been heard after each of the frames.
Heard ==
  LET heard[k \in 0..Len(frames)] ==
        IF k = 0 THEN [out |-> <<>>, payload |-> <<>>, type |-> "text", over |-> FALSE]
        ELSE Listen(heard[k - 1], frames[k])
  IN  heard

Meaning == Heard[Len(frames)].out

\* What a client does whose messages arrive as it meant them: a length below 126 in one
\* byte, a continuation only of a fragment, and a control frame only between messages.
Clean(s) ==
  \A i \in 1..Len(s) :
    /\ ~ s[i].long => Len(s[i].payload) < 126
    /\ s[i].op = "continuation" => i > 1 /\ ~ s[i - 1].fin
    /\ s[i].op \in Controls => i = 1 \/ s[i - 1].fin

\* ... and no fragment is empty.
Spoken(s) == \A i \in 1..Len(s) : ~ s[i].fin => s[i].payload # <<>>

\* However the bytes are cut into deliveries, the callback is given the messages
\* the client sent, whole and in order.
MessagesExact == IsPrefix(delivered, Meaning)

\* The payloads of the pings among some messages.
PingsIn(messages) ==
  LET upTo[n \in 0..Len(messages)] ==
        IF n = 0 THEN <<>>
        ELSE IF messages[n].type = "ping" THEN Append(upTo[n - 1], messages[n].payload)
        ELSE upTo[n - 1]
  IN  upTo[Len(messages)]

\* Pongs answer the pings the client sent, wherever it sent them: in order, each with the
\* payload of its ping, and each by the time the loop is back with no fragment in hand.
PongsExact ==
  /\ IsPrefix(pongs, PingsIn(Meaning))
  /\ turn = "wait" /\ stream = <<>> /\ sound /\ message = <<>> => pongs = PingsIn(Meaning)

\* When everything has arrived and the loop is back, every message is delivered.
NothingHeldBack ==
  turn = "wait" /\ stream = <<>> /\ sound => delivered = Meaning

\* ... except for what a fragment left behind in the same delivery.
HeldOnlyByFragment ==
  turn = "wait" /\ stream = <<>> /\ sound /\ message = <<>> => delivered = Meaning
=============================================================================
