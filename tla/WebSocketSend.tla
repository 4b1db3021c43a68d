---------------------------- MODULE WebSocketSend ----------------------------
(***************************************************************************)
(* The sending half of WebSocketConnectionImpl: any thread may send.  The  *)
(* frames of a client are masked with a random number, taken from a cache  *)
(* of the connection (masks_) that one thread at a time uses; a thread     *)
(* that finds it in use makes a number of its own.                         *)
(*                                                                         *)
(* A random number is the n-th one that was generated.                     *)
(***************************************************************************)
EXTENDS Integers, Sequences

CONSTANTS
  Senders,         \* threads
  Lengths,         \* of messages, in bytes
  CacheSize,       \* 16
  MaxSent,         \* bound of the model: messages
  NoMask

\* A length has 64 bits.
ASSUME SendAssumption ==
  /\ CacheSize \in Nat \ {0} /\ NoMask \notin Int
  /\ \A n \in Lengths : n \in Nat /\ (((n \div 65536) \div 65536) \div 65536) \div 65536 = 0

VARIABLES
  isServer,        \* isServer_
  usingMask,       \* usingMask_
  masks,           \* masks_
  generated,       \* random numbers generated so far
  at,              \* where each thread is in sendWsData
  mask,            \* random, of each thread
  length,          \* len, of each thread
  sent             \* the frames sent, in order

sendVars == <<isServer, usingMask, masks, generated, at, mask, length, sent>>

SendInit ==
  /\ isServer \in BOOLEAN
  /\ usingMask = FALSE
  /\ masks = << >>
  /\ generated = 0
  /\ at = [t \in Senders |-> "rest"]
  /\ mask = [t \in Senders |-> NoMask]
  /\ length = [t \in Senders |-> 0]
  /\ sent = << >>

\* The length as it is written: one byte, or a mark and two or eight bytes.
BytesOf(n, count) ==
  LET shifted[k \in 0..count] == IF k = 0 THEN n ELSE shifted[k - 1] \div 256
  IN  [i \in 1..count |-> shifted[count - i] % 256]
Header(n) ==
  IF n <= 125 THEN <<n>>
  ELSE IF n <= 65535 THEN <<126>> \o BytesOf(n, 2)
  ELSE <<127>> \o BytesOf(n, 8)

Go(t, to) == at' = [at EXCEPT ![t] = to]

Send(t) ==
  /\ at[t] = "rest" /\ Len(sent) < MaxSent
  /\ \E n \in Lengths : length' = [length EXCEPT ![t] = n]
  /\ Go(t, IF isServer THEN "write" ELSE "try")
  /\ UNCHANGED <<isServer, usingMask, masks, generated, mask, sent>>

\* Mutant: the flag is not looked at.
AcquiresAlways == TRUE
\* !usingMask_.exchange(true)
Acquires == ~usingMask

\* Whoever has the flag uses the cache, the others generate a number each.
Try(t) ==
  /\ at[t] = "try"
  /\ \/ /\ Acquires
        /\ usingMask' = TRUE
        /\ Go(t, "cache")
        /\ UNCHANGED <<generated, mask>>
     \/ /\ ~Acquires
        /\ generated' = generated + 1
        /\ mask' = [mask EXCEPT ![t] = generated']
        /\ Go(t, "write")
        /\ UNCHANGED usingMask
  /\ UNCHANGED <<isServer, masks, length, sent>>

\* masks_.resize(16) and secureRandomBytes, when it is empty
Refill(t) ==
  /\ at[t] = "cache"
  /\ \/ /\ masks = << >>
        /\ masks' = [i \in 1..CacheSize |-> generated + i]
        /\ generated' = generated + CacheSize
     \/ /\ masks # << >>
        /\ UNCHANGED <<masks, generated>>
  /\ Go(t, "back")
  /\ UNCHANGED <<isServer, usingMask, mask, length, sent>>

\* masks_.back()
Back(t) ==
  /\ at[t] = "back"
  /\ mask' = [mask EXCEPT ![t] = masks[Len(masks)]]
  /\ Go(t, "pop")
  /\ UNCHANGED <<isServer, usingMask, masks, generated, length, sent>>

\* masks_.pop_back()
Pop(t) ==
  /\ at[t] = "pop"
  /\ masks' = SubSeq(masks, 1, Len(masks) - 1)
  /\ Go(t, "release")
  /\ UNCHANGED <<isServer, usingMask, generated, mask, length, sent>>

\* usingMask_.store(false)
Release(t) ==
  /\ at[t] = "release"
  /\ usingMask' = FALSE
  /\ Go(t, "write")
  /\ UNCHANGED <<isServer, masks, generated, mask, length, sent>>

Write(t) ==
  /\ at[t] = "write"
  /\ sent' = Append(sent, [header |-> Header(length[t]), mask |-> mask[t], length |-> length[t]])
  /\ mask' = [mask EXCEPT ![t] = NoMask]
  /\ Go(t, "rest")
  /\ UNCHANGED <<isServer, usingMask, masks, generated, length>>

SendNext ==
  \E t \in Senders :
    Send(t) \/ Try(t) \/ Refill(t) \/ Back(t) \/ Pop(t) \/ Release(t) \/ Write(t)

SendSpec == SendInit /\ [][SendNext]_sendVars

-----------------------------------------------------------------------------
InCache == {"cache", "back", "pop", "release"}

\* RFC 6455: the mask of a frame is not to be foreseen from others.  No number masks two
\* frames, however many threads send at once.
MaskOnce ==
  /\ \A i, j \in DOMAIN sent : i # j /\ sent[i].mask # NoMask => sent[i].mask # sent[j].mask
  /\ \A t, u \in Senders : t # u /\ mask[t] # NoMask => mask[t] # mask[u]
  /\ \A t \in Senders, i \in DOMAIN sent : mask[t] # NoMask => mask[t] # sent[i].mask

\* The last element is read of a cache that has one, by one thread.
CacheGuarded ==
  \A t, u \in Senders :
    /\ at[t] \in {"back", "pop"} => masks # << >>
    /\ at[t] \in InCache /\ at[u] \in InCache => t = u

\* What the parser makes of a header: WebSocketMessageParser::parse
Read(header) ==
  LET value[i \in 1..Len(header)] == IF i = 1 THEN 0 ELSE value[i - 1] * 256 + header[i]
  IN  IF header[1] \in {126, 127} THEN value[Len(header)] ELSE header[1]
\* The receiver reads the length that was sent.
LengthRead == \A i \in DOMAIN sent : Read(sent[i].header) = sent[i].length

\* Every frame has a mask of its own, if any, and the length of its message.
FramesSound == MaskOnce /\ CacheGuarded /\ LengthRead
=============================================================================
