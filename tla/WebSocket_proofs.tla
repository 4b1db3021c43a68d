-------------------------- MODULE WebSocket_proofs --------------------------
(***************************************************************************)
(* Proofs about WebSocket connections.                                     *)
(*                                                                         *)
(* Sending: no random number masks two frames of a client, its cache of    *)
(* them is read by one thread at a time and only while it has one, and     *)
(* the receiver reads the length of every frame, for any number of         *)
(* threads, any size of the cache and any length of 64 bits.  A number is  *)
(* in one place: not generated yet, in the cache, held by a thread, or in  *)
(* a frame that was sent.  The one exception is the last of the cache      *)
(* between back() and pop_back(), which the thread that has the flag is    *)
(* about to remove.  The length is read back by induction over the bytes   *)
(* it was written in.                                                      *)
(*                                                                         *)
(* Pings: none runs unaccounted for, for any number of timers, of calls    *)
(* from other threads and any frames received meanwhile.                   *)
(*                                                                         *)
(* Receiving: whatever the frames are and however their bytes are cut      *)
(* into deliveries, messages arrive whole and in order.  The invariant     *)
(* says where the parser stands: behind the first k frames, with what is   *)
(* heard of them delivered or in message_, and with the bytes of all the   *)
(* others, from the first on, in the buffer and in the stream together.    *)
(***************************************************************************)
EXTENDS WebSocketConnection, WebSocketSend, SequenceInduction, SequenceTheorems, TLAPS

-----------------------------------------------------------------------------
(* Sending: the masks. *)

Places == {"rest", "try", "write"} \cup InCache
Numbers == Nat \cup {NoMask}
Messages == Lengths \cup {0}
FramesSent ==
  {[header |-> Header(n), mask |-> m, length |-> n] : n \in Messages, m \in Numbers}

Typed ==
  /\ usingMask \in BOOLEAN
  /\ generated \in Nat
  /\ masks \in Seq(Nat)
  /\ at \in [Senders -> Places]
  /\ mask \in [Senders -> Numbers]
  /\ length \in [Senders -> Messages]
  /\ sent \in Seq(FramesSent)

\* No number is used before it is generated.
Generated ==
  /\ \A i \in 1..Len(masks) : masks[i] <= generated
  /\ \A t \in Senders : mask[t] # NoMask => mask[t] <= generated
  /\ \A i \in 1..Len(sent) : sent[i].mask # NoMask => sent[i].mask <= generated

\* A number of the cache is there once and nowhere else, but for the one about to go.
CacheApart ==
  /\ \A i, j \in 1..Len(masks) : i # j => masks[i] # masks[j]
  /\ \A i \in 1..Len(masks), t \in Senders :
       mask[t] = masks[i] => at[t] = "pop" /\ i = Len(masks)
  /\ \A i \in 1..Len(masks), j \in 1..Len(sent) : sent[j].mask # masks[i]

PlacesExact ==
  \A t \in Senders :
    /\ at[t] \in InCache => usingMask
    /\ at[t] = "pop" => mask[t] = masks[Len(masks)]
    /\ at[t] \in {"rest", "try", "cache", "back"} => mask[t] = NoMask

IInv == Typed /\ Generated /\ CacheApart /\ PlacesExact /\ MaskOnce /\ CacheGuarded

-----------------------------------------------------------------------------
LEMMA InitEstablishes == SendInit => IInv
<1> SUFFICES ASSUME SendInit PROVE IInv
  OBVIOUS
<1> USE DEF SendInit
<1>1. Typed
  <2>1. /\ at \in [Senders -> Places] /\ mask \in [Senders -> Numbers]
        /\ length \in [Senders -> Messages]
    BY DEF Places, Numbers, Messages
  <2>2. masks \in Seq(Nat) /\ sent \in Seq(FramesSent)
    BY EmptySeq
  <2> QED BY <2>1, <2>2 DEF Typed
<1>2. Len(masks) = 0 /\ Len(sent) = 0 /\ DOMAIN sent = {}
  OBVIOUS
<1>3. Generated /\ CacheApart /\ PlacesExact /\ MaskOnce /\ CacheGuarded
  BY <1>2 DEF Generated, CacheApart, PlacesExact, MaskOnce, CacheGuarded, InCache
<1> QED BY <1>1, <1>3 DEF IInv

\* A frame that was sent has a mask that is a number, or none.
LEMMA SentFrames ==
  ASSUME Typed
  PROVE  /\ Len(sent) \in Nat /\ DOMAIN sent = 1..Len(sent)
         /\ \A i \in 1..Len(sent) : sent[i].mask \in Numbers
<1>1. Len(sent) \in Nat /\ DOMAIN sent = 1..Len(sent)
  BY DEF Typed
<1>2. \A i \in 1..Len(sent) : sent[i] \in FramesSent
  BY DEF Typed
<1>3. \A f \in FramesSent : f.mask \in Numbers
  BY DEF FramesSent
<1> QED BY <1>1, <1>2, <1>3

LEMMA SendStep ==
  ASSUME IInv, NEW t \in Senders, Send(t)
  PROVE  IInv'
<1>1. PICK n \in Lengths : length' = [length EXCEPT ![t] = n]
  BY DEF Send
<1>2. /\ at[t] = "rest"
      /\ at' = [at EXCEPT ![t] = IF isServer THEN "write" ELSE "try"]
      /\ UNCHANGED <<usingMask, masks, generated, mask, sent>>
  BY DEF Send, Go
<1>3. Typed'
  BY <1>1, <1>2 DEF IInv, Typed, Places, Messages
<1>4. /\ at'[t] \in {"write", "try"}
      /\ \A u \in Senders : u # t => at'[u] = at[u]
  BY <1>2 DEF IInv, Typed
<1>5. mask[t] = NoMask
  BY <1>2 DEF IInv, PlacesExact
<1>6. Generated' /\ MaskOnce'
  BY <1>2 DEF IInv, Generated, MaskOnce
<1>7. \A i \in 1..Len(masks) : masks[i] \in Nat
  BY DEF IInv, Typed
<1>8. CacheApart'
  BY <1>2, <1>4, <1>5, <1>7, SendAssumption DEF IInv, CacheApart
<1>9. PlacesExact' /\ CacheGuarded'
  BY <1>2, <1>4, <1>5 DEF IInv, PlacesExact, CacheGuarded, InCache
<1> QED BY <1>3, <1>6, <1>8, <1>9 DEF IInv

\* Who finds the flag set makes a number that is nowhere yet.
LEMMA TryStep ==
  ASSUME IInv, NEW t \in Senders, Try(t)
  PROVE  IInv'
<1>1. at[t] = "try" /\ UNCHANGED <<masks, length, sent>>
  BY DEF Try
<1>2. mask[t] = NoMask
  BY <1>1 DEF IInv, PlacesExact
<1>3. \A i \in 1..Len(masks) : masks[i] \in Nat
  BY DEF IInv, Typed
<1>4. CASE ~usingMask /\ usingMask' = TRUE /\ Go(t, "cache") /\ UNCHANGED <<generated, mask>>
  <2>1. /\ at'[t] = "cache"
        /\ \A u \in Senders : u # t => at'[u] = at[u]
    BY <1>4 DEF Go, IInv, Typed
  <2>2. Typed'
    BY <1>1, <1>4 DEF IInv, Typed, Go, Places, InCache
  <2>3. \A u \in Senders : at[u] \notin InCache
    BY <1>4 DEF IInv, PlacesExact
  <2>4. Generated' /\ MaskOnce'
    BY <1>1, <1>4 DEF IInv, Generated, MaskOnce
  <2>5. CacheApart'
    BY <1>1, <1>2, <1>3, <1>4, <2>1, SendAssumption DEF IInv, CacheApart
  <2>6. PlacesExact' /\ CacheGuarded'
    BY <1>1, <1>2, <1>4, <2>1, <2>3 DEF IInv, PlacesExact, CacheGuarded, InCache
  <2> QED BY <2>2, <2>4, <2>5, <2>6 DEF IInv
<1>5. CASE /\ generated' = generated + 1
           /\ mask' = [mask EXCEPT ![t] = generated']
           /\ Go(t, "write")
           /\ UNCHANGED usingMask
  <2>1. /\ at'[t] = "write" /\ mask'[t] = generated + 1
        /\ \A u \in Senders : u # t => at'[u] = at[u] /\ mask'[u] = mask[u]
    BY <1>5 DEF Go, IInv, Typed
  <2>2. generated \in Nat /\ \A u \in Senders : mask[u] \in Numbers
    BY DEF IInv, Typed
  <2>3. Typed'
    BY <1>1, <1>5, <2>2 DEF IInv, Typed, Go, Places, Numbers
  <2>4. Generated'
    BY <1>1, <1>3, <1>5, <2>1, <2>2, SentFrames DEF IInv, Generated, Numbers
  <2>5. CacheApart'
    BY <1>1, <1>3, <2>1, <2>2 DEF IInv, CacheApart, Generated
  <2>6. MaskOnce'
    <3>1. \A i \in DOMAIN sent : sent[i].mask # generated + 1
      BY <2>2, SentFrames, SendAssumption DEF IInv, Generated, Numbers
    <3>2. \A u \in Senders : mask[u] # generated + 1
      <4>1. \A u \in Senders : mask[u] = NoMask \/ (mask[u] \in Nat /\ mask[u] <= generated)
        BY <2>2 DEF IInv, Generated, Numbers
      <4>2. generated + 1 \in Int /\ \A n \in Nat : n <= generated => n # generated + 1
        BY <2>2
      <4>3. NoMask # generated + 1
        BY <4>2, SendAssumption
      <4> QED BY <4>1, <4>2, <4>3
    <3> QED BY <1>1, <2>1, <3>1, <3>2 DEF IInv, MaskOnce
  <2>7. PlacesExact' /\ CacheGuarded'
    BY <1>1, <1>5, <2>1 DEF IInv, PlacesExact, CacheGuarded, InCache
  <2> QED BY <2>3, <2>4, <2>5, <2>6, <2>7 DEF IInv
<1> QED BY <1>4, <1>5 DEF Try, Acquires

\* The thread that has the flag is the only one in the cache.
LEMMA AloneInCache ==
  ASSUME IInv, NEW t \in Senders, at[t] \in InCache
  PROVE  \A u \in Senders : u # t => at[u] \notin InCache
BY DEF IInv, CacheGuarded

LEMMA RefillStep ==
  ASSUME IInv, NEW t \in Senders, Refill(t)
  PROVE  IInv'
<1>1. at[t] = "cache" /\ UNCHANGED <<usingMask, mask, length, sent>>
      /\ at' = [at EXCEPT ![t] = "back"]
  BY DEF Refill, Go
<1>2. at[t] \in InCache /\ \A u \in Senders : u # t => at[u] \notin InCache
  BY <1>1, AloneInCache DEF InCache
<1>3. /\ at'[t] = "back" /\ mask[t] = NoMask /\ usingMask
      /\ \A u \in Senders : u # t => at'[u] = at[u]
  BY <1>1, <1>2 DEF IInv, Typed, PlacesExact
<1>4. generated \in Nat /\ CacheSize \in Nat \ {0}
      /\ \A u \in Senders : mask[u] \in Numbers
  BY SendAssumption DEF IInv, Typed
<1>5. CASE /\ masks' = [i \in 1..CacheSize |-> generated + i]
           /\ generated' = generated + CacheSize
  <2>1. /\ masks' \in Seq(Nat) /\ Len(masks') = CacheSize /\ masks' # << >>
        /\ \A i \in 1..CacheSize : masks'[i] = generated + i
    <3>1. masks' \in [1..CacheSize -> Nat]
      BY <1>4, <1>5
    <3>2. masks' \in Seq(Nat) /\ Len(masks') = CacheSize
      BY <1>4, <3>1
    <3> QED BY <1>4, <1>5, <3>2, EmptySeq
  <2>2. Typed'
    BY <1>1, <1>4, <1>5, <2>1 DEF IInv, Typed, Places, InCache
  <2>3. Generated'
    BY <1>1, <1>4, <1>5, <2>1, SentFrames DEF IInv, Generated, Numbers
  <2>4. CacheApart'
    <3>1. \A i \in 1..CacheSize, u \in Senders : mask'[u] # masks'[i]
      BY <1>1, <1>4, <2>1, SendAssumption DEF IInv, Generated, Numbers
    <3>2. \A i \in 1..CacheSize, j \in 1..Len(sent) : sent'[j].mask # masks'[i]
      BY <1>1, <1>4, <2>1, SentFrames, SendAssumption DEF IInv, Generated, Numbers
    <3>3. \A i, j \in 1..CacheSize : i # j => masks'[i] # masks'[j]
      BY <1>4, <2>1
    <3> QED BY <1>1, <2>1, <3>1, <3>2, <3>3 DEF CacheApart
  <2>5. MaskOnce'
    BY <1>1 DEF IInv, MaskOnce
  <2>6. PlacesExact' /\ CacheGuarded'
    BY <1>1, <1>2, <1>3, <2>1 DEF IInv, PlacesExact, CacheGuarded, InCache
  <2> QED BY <2>2, <2>3, <2>4, <2>5, <2>6 DEF IInv
<1>6. CASE masks # << >> /\ UNCHANGED <<masks, generated>>
  <2>1. Typed'
    BY <1>1, <1>6 DEF IInv, Typed, Places, InCache
  <2>2. Generated' /\ MaskOnce'
    BY <1>1, <1>6 DEF IInv, Generated, MaskOnce
  <2>3. \A i \in 1..Len(masks) : masks[i] \in Nat
    BY DEF IInv, Typed
  <2>4. CacheApart'
    BY <1>1, <1>3, <1>6, <2>3, SendAssumption DEF IInv, CacheApart
  <2>5. PlacesExact' /\ CacheGuarded'
    BY <1>1, <1>2, <1>3, <1>6 DEF IInv, PlacesExact, CacheGuarded, InCache
  <2> QED BY <2>1, <2>2, <2>4, <2>5 DEF IInv
<1> QED BY <1>5, <1>6 DEF Refill

LEMMA BackStep ==
  ASSUME IInv, NEW t \in Senders, Back(t)
  PROVE  IInv'
<1>1. /\ at[t] = "back" /\ UNCHANGED <<usingMask, masks, generated, length, sent>>
      /\ mask' = [mask EXCEPT ![t] = masks[Len(masks)]]
      /\ at' = [at EXCEPT ![t] = "pop"]
  BY DEF Back, Go
<1>2. at[t] \in InCache /\ \A u \in Senders : u # t => at[u] \notin InCache
  BY <1>1, AloneInCache DEF InCache
<1>3. masks # << >> /\ usingMask
  BY <1>1, <1>2 DEF IInv, CacheGuarded, PlacesExact
<1>4. /\ masks \in Seq(Nat) /\ Len(masks) \in 1..Len(masks)
      /\ masks[Len(masks)] \in Nat
  BY <1>3, EmptySeq DEF IInv, Typed
<1>5. /\ at'[t] = "pop" /\ mask'[t] = masks[Len(masks)]
      /\ \A u \in Senders : u # t => at'[u] = at[u] /\ mask'[u] = mask[u]
  BY <1>1 DEF IInv, Typed
<1>6. Typed'
  BY <1>1, <1>4 DEF IInv, Typed, Places, InCache, Numbers
<1>7. Generated'
  BY <1>1, <1>4, <1>5 DEF IInv, Generated
<1>8. CacheApart'
  BY <1>1, <1>4, <1>5 DEF IInv, CacheApart
<1>9. MaskOnce'
  <2>1. \A u \in Senders : u # t => mask[u] # masks[Len(masks)]
    BY <1>2, <1>4 DEF IInv, CacheApart, InCache
  <2>2. \A j \in DOMAIN sent : sent[j].mask # masks[Len(masks)]
    BY <1>4, SentFrames DEF IInv, CacheApart
  <2> QED BY <1>1, <1>5, <2>1, <2>2 DEF IInv, MaskOnce
<1>10. PlacesExact' /\ CacheGuarded'
  BY <1>1, <1>2, <1>3, <1>5 DEF IInv, PlacesExact, CacheGuarded, InCache
<1> QED BY <1>6, <1>7, <1>8, <1>9, <1>10 DEF IInv

\* pop_back()
LEMMA WithoutLast ==
  ASSUME NEW s \in Seq(Nat), s # << >>
  PROVE  /\ SubSeq(s, 1, Len(s) - 1) \in Seq(Nat)
         /\ Len(SubSeq(s, 1, Len(s) - 1)) = Len(s) - 1
         /\ \A i \in 1..Len(SubSeq(s, 1, Len(s) - 1)) :
              SubSeq(s, 1, Len(s) - 1)[i] = s[i] /\ i \in 1..Len(s) /\ i # Len(s)
<1> DEFINE n == Len(s) - 1
<1>1. n \in Nat /\ n + 1 = Len(s)
  BY EmptySeq
<1>2. \A i \in 1..n : s[i] \in Nat
  BY <1>1
<1> HIDE DEF n
<1>3. /\ SubSeq(s, 1, n) \in Seq(Nat)
      /\ Len(SubSeq(s, 1, n)) = IF 1 <= n THEN n - 1 + 1 ELSE 0
      /\ \A i \in 1..(n - 1 + 1) : SubSeq(s, 1, n)[i] = s[1 + i - 1]
  BY <1>1, <1>2, SubSeqProperties
<1>4. Len(SubSeq(s, 1, n)) = n
  BY <1>1, <1>3
<1>5. \A i \in 1..n : SubSeq(s, 1, n)[i] = s[i] /\ i \in 1..(n + 1) /\ i # n + 1
  BY <1>1, <1>3
<1>6. SubSeq(s, 1, n) = SubSeq(s, 1, Len(s) - 1) /\ n = Len(s) - 1
  BY DEF n
<1> QED BY <1>1, <1>3, <1>4, <1>5, <1>6

LEMMA PopStep ==
  ASSUME IInv, NEW t \in Senders, Pop(t)
  PROVE  IInv'
<1>1. /\ at[t] = "pop" /\ UNCHANGED <<usingMask, generated, mask, length, sent>>
      /\ masks' = SubSeq(masks, 1, Len(masks) - 1)
      /\ at' = [at EXCEPT ![t] = "release"]
  BY DEF Pop, Go
<1>2. at[t] \in InCache /\ \A u \in Senders : u # t => at[u] \notin InCache
  BY <1>1, AloneInCache DEF InCache
<1>3. masks # << >> /\ usingMask /\ mask[t] = masks[Len(masks)]
  BY <1>1, <1>2 DEF IInv, CacheGuarded, PlacesExact
<1>4. masks \in Seq(Nat) /\ Len(masks) \in Nat \ {0}
  BY <1>3, EmptySeq DEF IInv, Typed
<1>5. /\ masks' \in Seq(Nat) /\ Len(masks') = Len(masks) - 1
      /\ \A i \in 1..Len(masks') : masks'[i] = masks[i] /\ i \in 1..Len(masks) /\ i # Len(masks)
  BY <1>1, <1>3, <1>4, WithoutLast
<1>6. /\ at'[t] = "release"
      /\ \A u \in Senders : u # t => at'[u] = at[u]
  BY <1>1 DEF IInv, Typed
<1>7. Typed'
  BY <1>1, <1>5 DEF IInv, Typed, Places, InCache
<1>8. Generated' /\ MaskOnce'
  BY <1>1, <1>5 DEF IInv, Generated, MaskOnce
<1>9. CacheApart'
  <2>1. \A i, j \in 1..Len(masks') : i # j => masks'[i] # masks'[j]
    BY <1>5 DEF IInv, CacheApart
  <2>2. \A i \in 1..Len(masks'), u \in Senders : mask'[u] # masks'[i]
    BY <1>1, <1>5 DEF IInv, CacheApart
  <2>3. \A i \in 1..Len(masks'), j \in 1..Len(sent') : sent'[j].mask # masks'[i]
    BY <1>1, <1>5 DEF IInv, CacheApart
  <2> QED BY <2>1, <2>2, <2>3 DEF CacheApart
<1>10. PlacesExact' /\ CacheGuarded'
  BY <1>1, <1>2, <1>3, <1>6 DEF IInv, PlacesExact, CacheGuarded, InCache
<1> QED BY <1>7, <1>8, <1>9, <1>10 DEF IInv

LEMMA ReleaseStep ==
  ASSUME IInv, NEW t \in Senders, Release(t)
  PROVE  IInv'
<1>1. /\ at[t] = "release" /\ UNCHANGED <<masks, generated, mask, length, sent>>
      /\ usingMask' = FALSE
      /\ at' = [at EXCEPT ![t] = "write"]
  BY DEF Release, Go
<1>2. at[t] \in InCache /\ \A u \in Senders : u # t => at[u] \notin InCache
  BY <1>1, AloneInCache DEF InCache
<1>3. /\ at'[t] = "write"
      /\ \A u \in Senders : u # t => at'[u] = at[u]
  BY <1>1 DEF IInv, Typed
<1>4. Typed'
  BY <1>1 DEF IInv, Typed, Places
<1>5. Generated' /\ MaskOnce'
  BY <1>1 DEF IInv, Generated, MaskOnce
<1>6. CacheApart'
  BY <1>1, <1>3 DEF IInv, CacheApart
<1>7. PlacesExact' /\ CacheGuarded'
  BY <1>1, <1>2, <1>3 DEF IInv, PlacesExact, CacheGuarded, InCache
<1> QED BY <1>4, <1>5, <1>6, <1>7 DEF IInv

\* The number moves from the thread into the frame.
LEMMA WriteStep ==
  ASSUME IInv, NEW t \in Senders, Write(t)
  PROVE  IInv'
<1> DEFINE frame == [header |-> Header(length[t]), mask |-> mask[t], length |-> length[t]]
<1>1. /\ at[t] = "write" /\ UNCHANGED <<usingMask, masks, generated, length>>
      /\ sent' = Append(sent, frame)
      /\ mask' = [mask EXCEPT ![t] = NoMask]
      /\ at' = [at EXCEPT ![t] = "rest"]
  BY DEF Write, Go
<1>2. frame \in FramesSent /\ frame.mask = mask[t]
  BY DEF FramesSent, IInv, Typed
<1> HIDE DEF frame
<1>3. sent \in Seq(FramesSent)
  BY DEF IInv, Typed
<1>4. /\ sent' \in Seq(FramesSent) /\ Len(sent') = Len(sent) + 1 /\ Len(sent) \in Nat
      /\ DOMAIN sent' = 1..Len(sent') /\ DOMAIN sent = 1..Len(sent)
      /\ \A i \in 1..Len(sent) : sent'[i] = sent[i]
      /\ sent'[Len(sent')] = frame
  BY <1>1, <1>2, <1>3, AppendProperties
<1>5. /\ at'[t] = "rest" /\ mask'[t] = NoMask
      /\ \A u \in Senders : u # t => at'[u] = at[u] /\ mask'[u] = mask[u]
  BY <1>1 DEF IInv, Typed
<1>6. \A i \in 1..Len(sent') : i \in 1..Len(sent) \/ i = Len(sent')
  BY <1>4
<1>7. Typed'
  BY <1>1, <1>4 DEF IInv, Typed, Places, Numbers
<1>8. Generated'
  BY <1>1, <1>2, <1>4, <1>5, <1>6 DEF IInv, Generated
<1>9. CacheApart'
  <2>1. \A i \in 1..Len(masks) : masks[i] \in Nat /\ mask[t] # masks[i]
    BY <1>1 DEF IInv, Typed, CacheApart
  <2>2. \A i \in 1..Len(masks), u \in Senders :
          mask'[u] = masks[i] => at'[u] = "pop" /\ i = Len(masks)
    BY <1>5, <2>1, SendAssumption DEF IInv, CacheApart
  <2>3. \A i \in 1..Len(masks), j \in 1..Len(sent') : sent'[j].mask # masks[i]
    BY <1>2, <1>4, <1>6, <2>1 DEF IInv, CacheApart
  <2> QED BY <1>1, <2>2, <2>3 DEF IInv, CacheApart
<1>10. MaskOnce'
  <2>1. \A i, j \in DOMAIN sent' : i # j /\ sent'[i].mask # NoMask => sent'[i].mask # sent'[j].mask
    <3>1. \A i \in 1..Len(sent) : mask[t] # NoMask => mask[t] # sent[i].mask
      BY <1>4 DEF IInv, MaskOnce
    <3>2. \A i \in 1..Len(sent) : sent[i].mask # NoMask => sent[i].mask # mask[t]
      BY <3>1
    <3> QED BY <1>2, <1>4, <1>6, <3>1, <3>2 DEF IInv, MaskOnce
  <2>2. \A u, v \in Senders : u # v /\ mask'[u] # NoMask => mask'[u] # mask'[v]
    BY <1>5 DEF IInv, MaskOnce
  <2>3. \A u \in Senders, i \in DOMAIN sent' : mask'[u] # NoMask => mask'[u] # sent'[i].mask
    BY <1>2, <1>4, <1>5, <1>6 DEF IInv, MaskOnce
  <2> QED BY <2>1, <2>2, <2>3 DEF MaskOnce
<1>11. PlacesExact' /\ CacheGuarded'
  BY <1>1, <1>5 DEF IInv, PlacesExact, CacheGuarded, InCache
<1> QED BY <1>7, <1>8, <1>9, <1>10, <1>11 DEF IInv

-----------------------------------------------------------------------------
LEMMA StepKeeps == IInv /\ [SendNext]_sendVars => IInv'
<1> SUFFICES ASSUME IInv, [SendNext]_sendVars PROVE IInv'
  OBVIOUS
<1>1. CASE UNCHANGED sendVars
  BY <1>1 DEF sendVars, IInv, Typed, Generated, CacheApart, PlacesExact, MaskOnce, CacheGuarded
<1> QED
  BY <1>1, SendStep, TryStep, RefillStep, BackStep, PopStep, ReleaseStep, WriteStep
     DEF SendNext

-----------------------------------------------------------------------------
(* Sending: the length in the header. *)

\* A number without its last bytes, one more each time
Shifts(f, n, count) ==
  /\ f \in [0..count -> Nat] /\ f[0] = n
  /\ \A k \in 1..count : f[k] = f[k - 1] \div 256

LEMMA BytesAre ==
  ASSUME NEW n \in Nat, NEW count \in Nat
  PROVE  \E f : /\ Shifts(f, n, count)
                /\ BytesOf(n, count) = [i \in 1..count |-> f[count - i] % 256]
<1> DEFINE step == [k \in 1..count |-> [x \in Nat |-> x \div 256]]
           Shifted(g) == [k \in 0..count |-> IF k = 0 THEN n ELSE g[k - 1] \div 256]
<1>1. step \in [1..count -> [Nat -> Nat]]
  OBVIOUS
<1>2. PICK f : Iterates(f, count, Nat, n, step)
  <2> HIDE DEF step
  <2> QED BY <1>1, RecursionExists
<1>3. \A k \in 1..count : f[k - 1] \in Nat /\ f[k] = f[k - 1] \div 256
  <2> SUFFICES ASSUME NEW k \in 1..count PROVE f[k - 1] \in Nat /\ f[k] = f[k - 1] \div 256
    OBVIOUS
  <2>1. k - 1 \in 0..count
    OBVIOUS
  <2> QED BY <1>2, <2>1 DEF Iterates
<1> HIDE DEF step
<1>4. f = Shifted(f)
  <2> SUFFICES ASSUME NEW k \in 0..count PROVE f[k] = Shifted(f)[k]
    BY <1>2 DEF Iterates
  <2>1. k = 0 \/ k \in 1..count
    OBVIOUS
  <2> QED BY <1>2, <1>3, <2>1 DEF Iterates
<1> DEFINE g == CHOOSE h : h = Shifted(h)
<1>5. g = Shifted(g)
  BY <1>4
<1>6. BytesOf(n, count) = [i \in 1..count |-> g[count - i] % 256]
  BY DEF BytesOf
<1> HIDE DEF g
<1>7. \A k \in 0..count : g[k] = f[k]
  <2>1. DOMAIN g = 0..count /\ \A k \in 0..count : g[k] = Shifted(g)[k]
    BY <1>5
  <2>2. g[0] = n /\ \A k \in 1..count : g[k] = g[k - 1] \div 256
    <3>1. \A k \in 1..count : k \in 0..count /\ k # 0
      OBVIOUS
    <3> QED BY <2>1, <3>1
  <2>3. GoOnAlike(g, f, count)
    BY <1>2, <1>3, <2>2 DEF GoOnAlike, Iterates
  <2> QED BY <2>3, RecursionUnique
<1>8. \A i \in 1..count : count - i \in 0..count
  OBVIOUS
<1>9. BytesOf(n, count) = [i \in 1..count |-> f[count - i] % 256]
  BY <1>6, <1>7, <1>8
<1>10. Shifts(f, n, count)
  BY <1>2, <1>3 DEF Shifts, Iterates
<1> QED BY <1>9, <1>10

\* Reading the bytes from the first on undoes the shifts, from the last on.
LEMMA ReadsBack ==
  ASSUME NEW n \in Nat, NEW count \in Nat \ {0}, NEW mark \in {126, 127},
         NEW f, Shifts(f, n, count), f[count] = 0,
         BytesOf(n, count) = [i \in 1..count |-> f[count - i] % 256]
  PROVE  Read(<<mark>> \o BytesOf(n, count)) = n
<1> DEFINE bytes == BytesOf(n, count)
           header == <<mark>> \o bytes
           N == count + 1
<1>1. \A k \in 0..count : f[k] \in Nat
  BY DEF Shifts
<1>2. /\ bytes \in Seq(Nat) /\ Len(bytes) = count
      /\ \A i \in 1..count : bytes[i] = f[count - i] % 256
  <2>1. \A i \in 1..count : count - i \in 0..count /\ f[count - i] % 256 \in Nat
    BY <1>1
  <2> QED BY <2>1
<1> HIDE DEF bytes
<1>3. /\ Len(header) = N /\ header[1] = mark
      /\ \A j \in 2..N : header[j] = f[N - j] % 256
  <2>1. <<mark>> \in Seq(Nat) /\ Len(<<mark>>) = 1 /\ <<mark>>[1] = mark
    OBVIOUS
  <2>2. IsSeq(<<mark>>) /\ IsSeq(bytes)
    BY <2>1, <1>2, SeqIsSeq
  <2>3. /\ Len(header) = 1 + count /\ header[1] = mark
        /\ \A i \in 1..count : header[1 + i] = bytes[i]
    BY <2>1, <2>2, <1>2, ConcatIs
  <2>4. ASSUME NEW j \in 2..N PROVE header[j] = f[N - j] % 256
    <3>1. j - 1 \in 1..count /\ 1 + (j - 1) = j /\ count - (j - 1) = N - j
      OBVIOUS
    <3> QED BY <3>1, <2>3, <1>2
  <2> QED BY <2>3, <2>4
<1> HIDE DEF header
<1> DEFINE Reading(g) == [i \in 1..Len(header) |-> IF i = 1 THEN 0 ELSE g[i - 1] * 256 + header[i]]
           V == [i \in 1..N |-> f[N - i]]
           value == CHOOSE g : g = Reading(g)
<1>4. ASSUME NEW j \in 2..N PROVE V[j - 1] * 256 + header[j] = V[j]
  <2>1. /\ j - 1 \in 1..N /\ N - (j - 1) \in 1..count /\ N - (j - 1) - 1 = N - j
        /\ N - j \in 0..count
    OBVIOUS
  <2>2. f[N - (j - 1)] = f[N - j] \div 256 /\ f[N - j] \in Nat
    BY <2>1, <1>1 DEF Shifts
  <2> HIDE DEF N
  <2>3. V[j - 1] = f[N - j] \div 256 /\ V[j] = f[N - j]
    BY <2>1, <2>2
  <2> QED BY <2>2, <2>3, <1>3
<1>5. V = Reading(V)
  <2>1. V[1] = 0 /\ \A j \in 1..N : j = 1 \/ j \in 2..N
    <3>1. 1 \in 1..N /\ N - 1 = count
      OBVIOUS
    <3> QED BY <3>1
  <2> HIDE DEF N
  <2>2. Len(header) = N
    BY <1>3
  <2>3. ASSUME NEW j \in 1..N PROVE V[j] = Reading(V)[j]
    <3> HIDE DEF V
    <3> QED BY <2>1, <2>2, <1>4
  <2>4. V = [j \in 1..N |-> V[j]]
    OBVIOUS
  <2>5. Reading(V) = [j \in 1..N |-> Reading(V)[j]]
    BY <2>2
  <2> HIDE DEF V, Reading
  <2>6. [j \in 1..N |-> V[j]] = [j \in 1..N |-> Reading(V)[j]]
    BY <2>3, ZenonT(40)
  <2> QED BY <2>4, <2>5, <2>6, Zenon
<1>6. value = Reading(value)
  BY <1>5, SMTT(40)
<1>7. Read(header) = value[N]
  BY <1>3 DEF Read
<1> HIDE DEF value
<1>8. value[N] = V[N]
  <2>1. value[1] = 0 /\ \A j \in 2..N : value[j] = value[j - 1] * 256 + header[j]
    <3>1. \A j \in 1..N : value[j] = IF j = 1 THEN 0 ELSE value[j - 1] * 256 + header[j]
      BY <1>3, <1>6
    <3>2. 1 \in 1..N /\ \A j \in 2..N : j \in 1..N /\ j # 1
      OBVIOUS
    <3> QED BY <3>1, <3>2
  <2>2. V[1] = 0
    <3>1. 1 \in 1..N /\ N - 1 = count
      OBVIOUS
    <3> QED BY <3>1
  <2> HIDE DEF V
  <2> DEFINE g == [k \in 0..count |-> value[k + 1]]
             h == [k \in 0..count |-> V[k + 1]]
  <2>3. g[0] = h[0]
    <3>1. 0 \in 0..count /\ 0 + 1 = 1
      OBVIOUS
    <3> QED BY <3>1, <2>1, <2>2
  <2>4. ASSUME NEW k \in 1..count, g[k - 1] = h[k - 1] PROVE g[k] = h[k]
    <3>1. k - 1 \in 0..count /\ (k - 1) + 1 = k /\ k \in 0..count /\ k + 1 \in 2..N /\ (k + 1) - 1 = k
      OBVIOUS
    <3>2. value[k] = V[k]
      BY <2>4, <3>1
    <3>3. value[k + 1] = value[k] * 256 + header[k + 1]
      BY <2>1, <3>1
    <3>4. V[k + 1] = V[k] * 256 + header[k + 1]
      BY <1>4, <3>1
    <3> QED BY <3>1, <3>2, <3>3, <3>4
  <2>5. g[count] = h[count]
    <3> HIDE DEF g, h
    <3>1. GoOnAlike(g, h, count)
      BY <2>3, <2>4 DEF GoOnAlike
    <3>2. count \in 0..count
      OBVIOUS
    <3> QED BY <3>1, <3>2, RecursionUnique
  <2> QED BY <2>5
<1>9. V[N] = n
  <2>1. N \in 1..N /\ N - N = 0
    OBVIOUS
  <2> QED BY <2>1 DEF Shifts
<1> QED BY <1>7, <1>8, <1>9 DEF header, bytes

\* The parser makes of a header the length it was written for.
LEMMA HeaderReads ==
  ASSUME NEW n \in Messages
  PROVE  Read(Header(n)) = n
<1>0. n \in Nat /\ 2 \in Nat \ {0} /\ 2 \in Nat /\ 8 \in Nat \ {0} /\ 8 \in Nat
  BY SendAssumption DEF Messages
<1>1. n \in Nat /\ (((n \div 65536) \div 65536) \div 65536) \div 65536 = 0
  BY SendAssumption DEF Messages
<1>2. CASE n <= 125
  <2>1. <<n>>[1] = n /\ n \notin {126, 127}
    BY <1>1, <1>2
  <2> QED BY <1>2, <2>1 DEF Read, Header
<1>3. CASE 125 < n /\ n <= 65535
  <2>1. PICK f : /\ Shifts(f, n, 2)
                 /\ BytesOf(n, 2) = [i \in 1..2 |-> f[2 - i] % 256]
    BY <1>0, BytesAre, Zenon
  <2>2. f[0] = n /\ f[1] = f[0] \div 256 /\ f[2] = f[1] \div 256
    BY <2>1, 1 \in 1..2, 2 \in 1..2 DEF Shifts
  <2>3. f[2] = 0
    BY <1>1, <1>3, <2>2
  <2>4. Read(<<126>> \o BytesOf(n, 2)) = n
    BY <1>0, <2>1, <2>3, ReadsBack, 126 \in {126, 127}, Zenon
  <2> QED BY <1>1, <1>3, <2>4 DEF Header
<1>4. CASE 65535 < n
  <2>1. PICK f : /\ Shifts(f, n, 8)
                 /\ BytesOf(n, 8) = [i \in 1..8 |-> f[8 - i] % 256]
    BY <1>0, BytesAre, Zenon
  <2>2. ASSUME NEW k \in {0, 2, 4, 6} PROVE f[k] \in Nat /\ f[k + 2] = f[k] \div 65536
    <3>1. /\ k \in 0..8 /\ k + 1 \in 1..8 /\ k + 2 \in 1..8
          /\ (k + 1) - 1 = k /\ (k + 2) - 1 = k + 1
      OBVIOUS
    <3>2. f[k] \in Nat /\ f[k + 1] = f[k] \div 256 /\ f[k + 2] = f[k + 1] \div 256
      BY <2>1, <3>1 DEF Shifts
    <3>3. \A x \in Nat : (x \div 256) \div 256 = x \div 65536
      OBVIOUS
    <3> QED BY <3>2, <3>3
  <2>3. f[8] = (((n \div 65536) \div 65536) \div 65536) \div 65536
    <3>1. f[0] = n
      BY <2>1 DEF Shifts
    <3>2. f[2] = n \div 65536
      BY <3>1, <2>2, 0 + 2 = 2
    <3>3. f[4] = f[2] \div 65536
      BY <2>2, 2 + 2 = 4
    <3>4. f[6] = f[4] \div 65536
      BY <2>2, 4 + 2 = 6
    <3>5. f[8] = f[6] \div 65536
      BY <2>2, 6 + 2 = 8
    <3> QED BY <3>2, <3>3, <3>4, <3>5
  <2>4. f[8] = 0
    BY <1>1, <2>3
  <2>5. Read(<<127>> \o BytesOf(n, 8)) = n
    BY <1>0, <2>1, <2>4, ReadsBack, 127 \in {126, 127}, Zenon
  <2> QED BY <1>1, <1>4, <2>5 DEF Header
<1> QED BY <1>1, <1>2, <1>3, <1>4

\* However many threads send at once (WebSocketConnectionImpl::sendWsData): no number
\* masks two frames, masks_.back() is called by one thread at a time on a cache that is
\* not empty, and WebSocketMessageParser::parse reads the length every frame was sent with.
THEOREM FramesAreSound == SendSpec => []FramesSound
<1>1. SendInit => IInv
  BY InitEstablishes
<1>2. IInv /\ [SendNext]_sendVars => IInv'
  BY StepKeeps
<1>3. IInv => FramesSound
  <2> SUFFICES ASSUME IInv PROVE FramesSound
    OBVIOUS
  <2>1. \A i \in 1..Len(sent) : sent[i] \in FramesSent
    BY DEF IInv, Typed
  <2>2. \A f \in FramesSent : \E n \in Messages : f.header = Header(n) /\ f.length = n
    BY DEF FramesSent
  <2>3. LengthRead
    BY <2>1, <2>2, HeaderReads, SentFrames DEF LengthRead, IInv
  <2> QED BY <2>3 DEF IInv, FramesSound
<1> QED BY <1>1, <1>2, <1>3, PTL DEF SendSpec

-----------------------------------------------------------------------------
(* Pings *)

\* TimersAccounted is inductive: every step that arms a timer has disabled the one
\* before, and none arms one when the object is gone.
LEMMA TimersStep == TimersAccounted /\ [Next]_vars => TimersAccounted'
<1> SUFFICES ASSUME TimersAccounted, [Next]_vars PROVE TimersAccounted'
  OBVIOUS
<1> USE DEF TimersAccounted
<1>1. CASE UNCHANGED vars
  BY <1>1 DEF vars, controlVars
<1>2. ASSUME NEW n \in 1..Len(stream), Deliver(n) PROVE TimersAccounted'
  BY <1>2 DEF Deliver, controlVars
<1>3. CASE Handle
  BY <1>3 DEF Handle
<1>4. ASSUME NEW f \in {"set", "disable"}, Post(f) PROVE TimersAccounted'
  BY <1>4 DEF Post
<1>5. CASE SetPing
  BY <1>5 DEF SetPing, ArmPing, WithoutPing
<1>6. CASE DisablePing
  BY <1>6 DEF DisablePing, WithoutPing
<1>7. CASE Shutdown
  BY <1>7 DEF Shutdown, WithoutPing
<1>8. CASE Destroy
  BY <1>8 DEF Destroy, WithoutPing
<1>9. CASE Gone
  BY <1>9 DEF Gone, vars, controlVars
<1> QED BY <1>1, <1>2, <1>3, <1>4, <1>5, <1>6, <1>7, <1>8, <1>9 DEF Next

\* Whatever thread sets or disables the ping how often (setPingMessageInLoop,
\* disablePingInLoop, shutdown, the destructor), disabling it stops every ping, and none
\* outlives the connection object.
THEOREM PingTimersHeld == Spec => []TimersAccounted
<1>1. Init => TimersAccounted
  BY DEF Init, TimersAccounted
<1>2. TimersAccounted /\ [Next]_vars => TimersAccounted'
  BY TimersStep
<1> QED BY <1>1, <1>2, PTL DEF Spec

-----------------------------------------------------------------------------
(* Receiving: the bytes of a frame, and what is heard of the frames. *)

FrameSet == [op : STRING, fin : BOOLEAN, payload : Seq(Nat), long : BOOLEAN]

\* The tokens before the payload, the masking key among them.
Overhead(f) == IF f.long THEN 4 ELSE 3

LEMMA EncodeIs ==
  ASSUME NEW f \in FrameSet
  PROVE  LET E == Encode(f)
         IN  /\ IsSeq(E) /\ Len(E) = Overhead(f) + Len(f.payload)
             /\ E[1].value = f.op /\ E[1].fin = f.fin
             /\ E[2].value = IF f.long THEN 126 ELSE Len(f.payload)
             /\ f.long => E[3].value = Len(f.payload)
             /\ \A i \in 1..Len(f.payload) : E[Overhead(f) + i].value = f.payload[i]
<1> DEFINE size == Len(f.payload)
           first == [kind |-> "op", value |-> f.op, fin |-> f.fin]
           second == Token("size", IF f.long THEN 126 ELSE size)
           a == <<first, second>>
           b == IF f.long THEN <<Token("long", size)>> ELSE <<>>
           c == <<Token("mask", 0)>>
           data == [i \in 1..size |-> Token("data", f.payload[i])]
<1>1. size \in Nat /\ f.fin \in BOOLEAN /\ f.long \in BOOLEAN
  BY DEF FrameSet
<1>2. IsSeq(a) /\ Len(a) = 2 /\ a[1] = first /\ a[2] = second
  <2> HIDE DEF first, second
  <2>1. a \in Seq({first, second})
    OBVIOUS
  <2> QED BY <2>1, SeqIsSeq
<1>3. /\ IsSeq(b) /\ Len(b) = IF f.long THEN 1 ELSE 0
      /\ f.long => b[1] = Token("long", size)
  <2>1. CASE f.long
    <3>1. <<Token("long", size)>> \in Seq({Token("long", size)})
      OBVIOUS
    <3> QED BY <2>1, <3>1, SeqIsSeq
  <2>2. CASE ~ f.long
    <3>1. <<>> \in Seq({})
      OBVIOUS
    <3> QED BY <2>2, <3>1, SeqIsSeq
  <2> QED BY <2>1, <2>2
<1>4. IsSeq(c) /\ Len(c) = 1
  <2>1. c \in Seq({Token("mask", 0)})
    OBVIOUS
  <2> QED BY <2>1, SeqIsSeq
<1>5. IsSeq(data) /\ Len(data) = size /\ \A i \in 1..size : data[i] = Token("data", f.payload[i])
  <2>1. data \in Seq({Token("data", f.payload[i]) : i \in 1..size})
    BY <1>1
  <2>2. Len(data) = size
    BY <1>1
  <2> QED BY <2>1, <2>2, SeqIsSeq
<1>6. Encode(f) = ((a \o b) \o c) \o data
  BY DEF Encode
<1> HIDE DEF size, a, b, c, data, first, second
<1> DEFINE ab == a \o b
           abc == ab \o c
<1>7. /\ IsSeq(ab) /\ Len(ab) = Overhead(f) - 1 /\ ab[1] = first /\ ab[2] = second
      /\ f.long => ab[3] = Token("long", size)
  <2>1. /\ IsSeq(ab) /\ Len(ab) = Len(a) + Len(b)
        /\ \A i \in 1..Len(a) : ab[i] = a[i]
        /\ \A i \in 1..Len(b) : ab[Len(a) + i] = b[i]
    <3>1. IsSeq(a) /\ IsSeq(b)
      BY <1>2, <1>3
    <3> QED BY <3>1, ConcatIs
  <2>2. 1 \in 1..Len(a) /\ 2 \in 1..Len(a)
    BY <1>2
  <2>3. f.long => 1 \in 1..Len(b) /\ Len(a) + 1 = 3
    BY <1>2, <1>3
  <2> QED BY <1>1, <1>2, <1>3, <2>1, <2>2, <2>3 DEF Overhead
<1> HIDE DEF ab
<1>8. /\ IsSeq(abc) /\ Len(abc) = Overhead(f)
      /\ \A i \in 1..Len(ab) : abc[i] = ab[i]
  <2>1. /\ IsSeq(abc) /\ Len(abc) = Len(ab) + Len(c)
        /\ \A i \in 1..Len(ab) : abc[i] = ab[i]
    BY <1>4, <1>7, ConcatIs
  <2> QED BY <1>1, <1>4, <1>7, <2>1 DEF Overhead
<1> HIDE DEF abc
<1>9. /\ IsSeq(Encode(f)) /\ Len(Encode(f)) = Overhead(f) + size
      /\ \A i \in 1..Len(abc) : Encode(f)[i] = abc[i]
      /\ \A i \in 1..size : Encode(f)[Overhead(f) + i] = data[i]
  <2>1. Encode(f) = abc \o data
    BY <1>6 DEF abc, ab
  <2>2. IsSeq(abc) /\ IsSeq(data) /\ Len(data) = size /\ Len(abc) = Overhead(f)
    BY <1>5, <1>8
  <2>3. /\ IsSeq(abc \o data) /\ Len(abc \o data) = Len(abc) + Len(data)
        /\ \A i \in 1..Len(abc) : (abc \o data)[i] = abc[i]
        /\ \A i \in 1..Len(data) : (abc \o data)[Len(abc) + i] = data[i]
    BY <2>2, ConcatIs
  <2> QED BY <2>1, <2>2, <2>3
<1>10. Overhead(f) \in {3, 4} /\ (f.long => Overhead(f) = 4)
  BY <1>1 DEF Overhead
<1>11. /\ 1 \in 1..Len(ab) /\ 2 \in 1..Len(ab) /\ 1 \in 1..Len(abc) /\ 2 \in 1..Len(abc)
       /\ f.long => 3 \in 1..Len(ab) /\ 3 \in 1..Len(abc)
  BY <1>7, <1>8, <1>10
<1>12. /\ first.value = f.op /\ first.fin = f.fin
       /\ second.value = IF f.long THEN 126 ELSE size
       /\ Token("long", size).value = size
       /\ \A i \in 1..size : Token("data", f.payload[i]).value = f.payload[i]
  BY DEF first, second, Token
<1>13. /\ Encode(f)[1] = first /\ Encode(f)[2] = second
       /\ f.long => Encode(f)[3] = Token("long", size)
  BY <1>7, <1>8, <1>9, <1>11
<1>14. \A i \in 1..size : Encode(f)[Overhead(f) + i].value = f.payload[i]
  BY <1>5, <1>9, <1>12
<1> QED BY <1>9, <1>12, <1>13, <1>14 DEF size

Kinds == STRING \cup {"text"}
MessageSet == [type : Kinds, payload : Seq(Nat)]
Ears == [out : Seq(MessageSet), payload : Seq(Nat), type : Kinds, over : BOOLEAN]
Silence == [out |-> <<>>, payload |-> <<>>, type |-> "text", over |-> FALSE]

LEMMA ListenType ==
  ASSUME NEW acc \in Ears, NEW f \in FrameSet
  PROVE  Listen(acc, f) \in Ears
<1> DEFINE t == IF f.op = "continuation" THEN acc.type ELSE f.op
           p == acc.payload \o f.payload
<1>1. /\ f.op \in Kinds /\ t \in Kinds /\ p \in Seq(Nat) /\ f.payload \in Seq(Nat)
      /\ acc.out \in Seq(MessageSet)
  BY DEF Ears, FrameSet, Kinds
<1> HIDE DEF t, p
<1>2. Message(t, p) \in MessageSet /\ Message(f.op, f.payload) \in MessageSet
  BY <1>1 DEF Message, MessageSet
<1>3. /\ Append(acc.out, Message(t, p)) \in Seq(MessageSet)
      /\ Append(acc.out, Message(f.op, f.payload)) \in Seq(MessageSet)
  BY <1>1, <1>2
<1>4. /\ [acc EXCEPT !.over = TRUE] \in Ears
      /\ [acc EXCEPT !.out = Append(@, Message(f.op, f.payload))] \in Ears
      /\ [acc EXCEPT !.out = Append(@, Message(t, p)), !.payload = <<>>] \in Ears
      /\ [acc EXCEPT !.type = t, !.payload = p] \in Ears
  <2>1. acc \in Ears
    OBVIOUS
  <2>2. <<>> \in Seq(Nat)
    OBVIOUS
  <2> QED BY <1>1, <1>3, <2>1, <2>2, Zenon DEF Ears
<1> QED BY <1>4 DEF Listen, t, p

LEMMA HeardIs ==
  ASSUME frames \in Seq(FrameSet)
  PROVE  /\ Heard[0] = Silence
         /\ \A k \in 1..Len(frames) : Heard[k] = Listen(Heard[k - 1], frames[k])
         /\ \A k \in 0..Len(frames) : Heard[k] \in Ears
<1> DEFINE N == Len(frames)
           step == [k \in 1..N |-> [acc \in Ears |-> Listen(acc, frames[k])]]
           Next1(g) == [k \in 0..N |-> IF k = 0 THEN Silence ELSE Listen(g[k - 1], frames[k])]
<1>1. N \in Nat /\ \A k \in 1..N : frames[k] \in FrameSet
  OBVIOUS
<1>2. step \in [1..N -> [Ears -> Ears]]
  BY <1>1, ListenType
<1>3. Silence \in Ears
  <2>1. <<>> \in Seq(MessageSet) /\ <<>> \in Seq(Nat)
    OBVIOUS
  <2>2. "text" \in Kinds
    BY DEF Kinds
  <2>3. FALSE \in BOOLEAN
    OBVIOUS
  <2> HIDE DEF MessageSet
  <2> QED BY <2>1, <2>2, <2>3, Zenon DEF Silence, Ears
<1>4. Heard = CHOOSE g : g = Next1(g)
  BY DEF Heard, Silence
<1> HIDE DEF N
<1>5. PICK f : Iterates(f, N, Ears, Silence, step)
  <2> HIDE DEF step
  <2> QED BY <1>1, <1>2, <1>3, RecursionExists
<1>6. \A k \in 1..N : f[k] = Listen(f[k - 1], frames[k])
  <2> SUFFICES ASSUME NEW k \in 1..N PROVE f[k] = Listen(f[k - 1], frames[k])
    OBVIOUS
  <2>1. k - 1 \in 0..N /\ f[k - 1] \in Ears
    BY <1>1, <1>5 DEF Iterates
  <2> QED BY <1>5, <2>1 DEF Iterates
<1>7. f = Next1(f)
  <2> HIDE DEF step
  <2> SUFFICES ASSUME NEW k \in 0..N PROVE f[k] = Next1(f)[k]
    BY <1>5 DEF Iterates
  <2>1. CASE k = 0
    BY <1>5, <2>1 DEF Iterates
  <2>2. CASE k # 0
    <3>1. k \in 1..N
      BY <1>1, <2>2
    <3> QED BY <1>6, <2>2, <3>1
  <2> QED BY <2>1, <2>2
<1> DEFINE H == Heard
<1>8. H = Next1(H)
  BY <1>4, <1>7
<1> HIDE DEF H
<1>9. H[0] = Silence /\ \A k \in 1..N : H[k] = Listen(H[k - 1], frames[k])
  <2>1. \A k \in 0..N : H[k] = Next1(H)[k]
    BY <1>8
  <2>2. 0 \in 0..N /\ \A k \in 1..N : k \in 0..N /\ k # 0
    BY <1>1
  <2> QED BY <2>1, <2>2
<1>10. \A k \in 0..N : H[k] = f[k]
  <2>1. GoOnAlike(H, f, N)
    <3> HIDE DEF step
    <3> QED BY <1>5, <1>6, <1>9 DEF GoOnAlike, Iterates
  <2> QED BY <1>1, <2>1, RecursionUnique
<1>11. \A k \in 0..N : H[k] \in Ears
  <2> HIDE DEF step
  <2> QED BY <1>5, <1>10 DEF Iterates
<1> QED BY <1>9, <1>11 DEF H, N

-----------------------------------------------------------------------------
(* The bytes that have not been parsed. *)

Encoded == [i \in 1..Len(frames) |-> Encode(frames[i])]
Tokens == UNION {Elements(Encode(frames[i])) : i \in 1..Len(frames)}

\* After each of the frames, the bytes of the others
Remains(R) ==
  /\ R \in [0..Len(frames) -> Seq(Tokens)]
  /\ R[Len(frames)] = <<>>
  /\ \A k \in 1..Len(frames) : R[k - 1] = Encode(frames[k]) \o R[k]

Rest == CHOOSE R : Remainders(R, Encoded, Tokens)

LEMMA EncodedType ==
  ASSUME frames \in Seq(FrameSet)
  PROVE  /\ Encoded \in Seq(Seq(Tokens)) /\ Len(Encoded) = Len(frames)
         /\ \A k \in 1..Len(frames) : Encode(frames[k]) \in Seq(Tokens)
<1>1. Len(frames) \in Nat /\ \A k \in 1..Len(frames) : frames[k] \in FrameSet
  OBVIOUS
<1>2. ASSUME NEW k \in 1..Len(frames) PROVE Encode(frames[k]) \in Seq(Tokens)
  <2>1. IsSeq(Encode(frames[k]))
    BY <1>1, EncodeIs
  <2>2. Elements(Encode(frames[k])) \subseteq Tokens
    BY DEF Tokens
  <2>3. Encode(frames[k]) \in Seq(Elements(Encode(frames[k])))
    BY <2>1 DEF IsSeq
  <2> QED BY <2>2, <2>3, SeqMonotonic
<1>3. Encoded \in [1..Len(frames) -> Seq(Tokens)]
  BY <1>2 DEF Encoded
<1> QED BY <1>1, <1>2, <1>3

LEMMA RestIs ==
  ASSUME frames \in Seq(FrameSet)
  PROVE  Remains(Rest) /\ Rest[0] = FlattenSeq(Encoded)
<1>1. Encoded \in Seq(Seq(Tokens)) /\ Len(Encoded) = Len(frames)
  BY EncodedType
<1>2. Remainders(Rest, Encoded, Tokens)
  BY <1>1, RemaindersExist DEF Rest
<1>3. \A k \in 1..Len(frames) : Encoded[k] = Encode(frames[k])
  BY DEF Encoded
<1> QED BY <1>1, <1>2, <1>3 DEF Remainders, Remains

-----------------------------------------------------------------------------
(* Receiving: the parser stands behind a whole frame, and what it has made  *)
(* of the frames before is what is heard of them.                           *)

Fragment(k) == k > 0 /\ ~ frames[k].fin

Stands(k) ==
  /\ k \in 0..Len(frames)
  /\ buf \o stream = Rest[k]
  /\ ~ Heard[k].over
  /\ delivered = Heard[k].out
  /\ message = Heard[k].payload
  /\ Fragment(k) \/ message = <<>>
  /\ k < Len(frames) /\ frames[k + 1].op = "continuation" => type = Heard[k].type
  /\ turn = "wait" /\ sound =>
       k = Len(frames) \/ Len(buf) < Len(Encode(frames[k + 1])) \/ Fragment(k)

\* After an error nothing is parsed any more.
Given == {Heard[k].out : k \in 0..Len(frames)}
Failed == turn = "wait" /\ ~ sound /\ delivered \in Given

ReceiveTyped ==
  /\ frames \in Frames
  /\ turn \in {"wait", "parse"}
  /\ buf \in Seq(Tokens) /\ stream \in Seq(Tokens)

ReceiveInv == ReceiveTyped /\ (Failed \/ \E k \in 0..Len(frames) : Stands(k))

CleanClients == \A s \in Frames : Clean(s)

LEMMA FramesTyped ==
  ASSUME frames \in Frames
  PROVE  /\ frames \in Seq(FrameSet)
         /\ CleanClients => Clean(frames)
BY FramesAssumption DEF FrameSet, CleanClients

LEMMA ReceiveInitially ==
  ASSUME CleanClients, ReceiveInit
  PROVE  ReceiveInv
<1>1. frames \in Seq(FrameSet) /\ Len(frames) \in Nat
  BY FramesTyped DEF ReceiveInit
<1>2. /\ stream = Rest[0] /\ Rest \in [0..Len(frames) -> Seq(Tokens)]
      /\ Rest[Len(frames)] = <<>>
  BY <1>1, RestIs DEF ReceiveInit, Encoded, Remains
<1>3. 0 \in 0..Len(frames) /\ stream \in Seq(Tokens) /\ buf \in Seq(Tokens) /\ buf = <<>>
  BY <1>1, <1>2 DEF ReceiveInit
<1>4. buf \o stream = Rest[0] /\ Len(buf) = 0
  BY <1>2, <1>3, ConcatEmptySeq, Len(<<>>) = 0
<1>5. Heard[0] = Silence
  BY <1>1, HeardIs
<1>6. 0 = Len(frames) \/ Len(buf) < Len(Encode(frames[1]))
  <2>1. CASE 0 # Len(frames)
    <3>1. 1 \in 1..Len(frames) /\ frames[1] \in FrameSet
      BY <1>1, <2>1
    <3>2. Len(Encode(frames[1])) = Overhead(frames[1]) + Len(frames[1].payload)
      BY <3>1, EncodeIs
    <3>3. Len(frames[1].payload) \in Nat /\ Overhead(frames[1]) \in {3, 4}
      BY <3>1 DEF FrameSet, Overhead
    <3> QED BY <1>4, <3>2, <3>3
  <2> QED BY <2>1
<1>7. 0 < Len(frames) => frames[0 + 1].op # "continuation"
  <2>1. Clean(frames)
    BY FramesTyped DEF ReceiveInit
  <2>2. 0 < Len(frames) => 0 + 1 \in 1..Len(frames) /\ ~ (0 + 1 > 1)
    BY <1>1
  <2> QED BY <2>1, <2>2 DEF Clean
<1>8. Stands(0)
  BY <1>3, <1>4, <1>5, <1>6, <1>7 DEF Stands, ReceiveInit, Silence
<1> QED BY <1>3, <1>8 DEF ReceiveInv, ReceiveTyped, ReceiveInit

\* What the parser reads is the frame after those it has made something of.
LEMMA NextFrame ==
  ASSUME CleanClients, ReceiveTyped, NEW k \in 0..Len(frames), Stands(k), Len(buf) >= 2
  PROVE  LET f == frames[k + 1]
         IN  /\ k + 1 \in 1..Len(frames) /\ f \in FrameSet
             /\ Op = f.op /\ Fin = f.fin /\ Control = (f.op \in Controls)
             /\ Whole <=> Len(buf) >= Len(Encode(f))
             /\ Whole => /\ Payload = f.payload
                        /\ Left \in Seq(Tokens) /\ Left \o stream = Rest[k + 1]
                        /\ (~ Bad => ~ Malformed(f))
<1> DEFINE f == frames[k + 1]
           E == Encode(f)
           size == Len(f.payload)
<1>1. /\ frames \in Seq(FrameSet) /\ Clean(frames) /\ Len(frames) \in Nat /\ Remains(Rest)
  BY FramesTyped, RestIs DEF ReceiveTyped
<1>2. k # Len(frames)
  <2>1. SUFFICES ASSUME k = Len(frames) PROVE FALSE
    OBVIOUS
  <2>2. buf \o stream = <<>> /\ buf \in Seq(Tokens) /\ stream \in Seq(Tokens)
    BY <1>1, <2>1 DEF Stands, Remains, ReceiveTyped
  <2>3. Len(buf \o stream) = Len(buf) + Len(stream) /\ Len(buf) \in Nat /\ Len(stream) \in Nat
    BY <2>2
  <2> QED BY <2>2, <2>3, Len(<<>>) = 0
<1>3. k + 1 \in 1..Len(frames) /\ (k + 1) - 1 = k /\ f \in FrameSet /\ k + 1 \in 0..Len(frames)
  <2>1. k + 1 \in 1..Len(frames) /\ (k + 1) - 1 = k /\ k + 1 \in 0..Len(frames)
    BY <1>1, <1>2
  <2> QED BY <1>1, <2>1
<1>4. /\ size \in Nat /\ f.fin \in BOOLEAN /\ f.long \in BOOLEAN
      /\ f.payload \in Seq(Nat) /\ f.payload = [i \in 1..size |-> f.payload[i]]
  BY <1>3 DEF FrameSet
<1>5. /\ Len(E) = Overhead(f) + size
      /\ E[1].value = f.op /\ E[1].fin = f.fin
      /\ E[2].value = IF f.long THEN 126 ELSE size
      /\ f.long => E[3].value = size
      /\ \A i \in 1..size : E[Overhead(f) + i].value = f.payload[i]
  BY <1>3, EncodeIs
<1>6. /\ buf \in Seq(Tokens) /\ stream \in Seq(Tokens) /\ E \in Seq(Tokens)
      /\ Rest[k + 1] \in Seq(Tokens) /\ buf \o stream = E \o Rest[k + 1]
  <2>1. E \in Seq(Tokens)
    BY <1>1, <1>3, EncodedType
  <2>2. Rest[k] = E \o Rest[k + 1] /\ Rest[k + 1] \in Seq(Tokens)
    BY <1>1, <1>3 DEF Remains
  <2> QED BY <2>1, <2>2 DEF ReceiveTyped, Stands
<1> HIDE DEF E
<1>7. /\ \A i \in 1..Len(buf) : i <= Len(E) => buf[i] = E[i]
      /\ Len(buf) >= Len(E) => /\ SubSeq(buf, Len(E) + 1, Len(buf)) \in Seq(Tokens)
                              /\ SubSeq(buf, Len(E) + 1, Len(buf)) \o stream = Rest[k + 1]
  <2>1. CutTwice(buf, stream, E, Rest[k + 1], Tokens)
    BY <1>6 DEF CutTwice
  <2>2. ASSUME NEW i \in 1..Len(buf), i <= Len(E) PROVE buf[i] = E[i]
    BY <2>1, <2>2, DropFirst
  <2>3. ASSUME Len(buf) >= Len(E)
        PROVE  /\ SubSeq(buf, Len(E) + 1, Len(buf)) \in Seq(Tokens)
               /\ SubSeq(buf, Len(E) + 1, Len(buf)) \o stream = Rest[k + 1]
    BY <2>1, <2>3, DropFirst, SMTT(40)
  <2> QED BY <2>2, <2>3
<1>8. Len(buf) \in Nat /\ Overhead(f) = IF f.long THEN 4 ELSE 3
  BY <1>6 DEF Overhead
<1> HIDE DEF f, size
<1>9. buf[1] = E[1] /\ buf[2] = E[2] /\ (f.long /\ Len(buf) >= 3 => buf[3] = E[3])
  BY <1>4, <1>5, <1>7, <1>8
<1>10. Op = f.op /\ Fin = f.fin /\ Control = (f.op \in Controls)
  BY <1>5, <1>9 DEF Op, Fin, Control
<1>11. ~ f.long => size < 126
  BY <1>1, <1>3 DEF Clean, f, size
<1>12. Long = f.long
  <2>1. CASE f.long
    BY <1>5, <1>9, <2>1 DEF Long
  <2>2. CASE ~ f.long
    <3>1. buf[2].value = size /\ size # 126
      BY <1>4, <1>5, <1>9, <1>11, <2>2
    <3>2. ~ Long
      BY <3>1 DEF Long
    <3>3. f.long = FALSE
      BY <1>4, <2>2
    <3> QED BY <3>2, <3>3 DEF Long
  <2> QED BY <1>4, <2>1, <2>2
<1>13. /\ FirstMask + 1 = Overhead(f) /\ HasLength = (~ f.long \/ Len(buf) >= 3)
       /\ HasLength => Length = size
  BY <1>4, <1>5, <1>8, <1>9, <1>12 DEF FirstMask, HasLength, Length
<1>14. Whole <=> Len(buf) >= Len(E)
  <2>1. CASE HasLength
    BY <1>5, <1>13, <2>1 DEF Whole
  <2>2. CASE ~ HasLength
    <3>1. ~ Whole
      BY <2>2 DEF Whole
    <3>2. f.long /\ ~ (Len(buf) >= 3)
      BY <1>13, <2>2
    <3>3. Len(buf) < Len(E)
      BY <1>4, <1>5, <1>8, <3>2
    <3> QED BY <1>4, <1>5, <1>8, <3>1, <3>3
  <2> QED BY <2>1, <2>2
<1>15. ASSUME Whole
       PROVE  /\ Payload = f.payload
              /\ Left \in Seq(Tokens) /\ Left \o stream = Rest[k + 1]
              /\ (~ Bad => ~ Malformed(f))
  <2>1. HasLength /\ Length = size /\ Len(buf) >= Len(E)
    BY <1>13, <1>14, <1>15 DEF Whole
  <2>2. Payload = f.payload
    <3>1. ASSUME NEW i \in 1..size PROVE buf[FirstMask + 1 + i].value = f.payload[i]
      <4>1. Overhead(f) + i \in 1..Len(buf) /\ Overhead(f) + i <= Len(E)
        BY <1>4, <1>5, <1>8, <2>1
      <4>2. buf[Overhead(f) + i] = E[Overhead(f) + i]
        BY <1>7, <4>1
      <4>3. FirstMask + 1 + i = Overhead(f) + i
        BY <1>13
      <4> QED BY <1>5, <4>2, <4>3
    <3>2. Payload = [i \in 1..size |-> buf[FirstMask + 1 + i].value]
      BY <2>1 DEF Payload
    <3>3. [i \in 1..size |-> buf[FirstMask + 1 + i].value] = [i \in 1..size |-> f.payload[i]]
      BY <3>1, Zenon
    <3> QED BY <1>4, <3>2, <3>3
  <2>3. Left \in Seq(Tokens) /\ Left \o stream = Rest[k + 1]
    <3>1. FirstMask + Length + 2 = Len(E) + 1
      <4>1. FirstMask \in {2, 3}
        BY DEF FirstMask
      <4> QED BY <1>4, <1>5, <1>8, <1>13, <2>1, <4>1
    <3> QED BY <1>7, <2>1, <3>1 DEF Left
  <2>4. ~ Bad => ~ Malformed(f)
    BY <1>10, <1>12, <2>1 DEF Bad, Malformed, Known, size
  <2> QED BY <2>2, <2>3, <2>4
<1> QED BY <1>3, <1>10, <1>14, <1>15 DEF f, E

\* What is heard of the next frame
LEMMA HeardNext ==
  ASSUME CleanClients, ReceiveTyped, NEW k \in 0..Len(frames), Stands(k),
         k + 1 \in 1..Len(frames), ~ Malformed(frames[k + 1])
  PROVE  LET f == frames[k + 1]
             t == IF f.op = "continuation" THEN type ELSE f.op
             p == message \o f.payload
             H == Heard[k + 1]
         IN  /\ ~ H.over
             /\ IF f.op \in Controls
                THEN /\ H.out = Append(delivered, Message(f.op, p)) /\ H.payload = <<>>
                     /\ message = <<>>
                ELSE IF f.fin
                THEN H.out = Append(delivered, Message(t, p)) /\ H.payload = <<>>
                ELSE H.out = delivered /\ H.payload = p /\ H.type = t
<1> DEFINE f == frames[k + 1]
           acc == Heard[k]
           t == IF f.op = "continuation" THEN type ELSE f.op
           ta == IF f.op = "continuation" THEN acc.type ELSE f.op
           p == message \o f.payload
<1>1. frames \in Seq(FrameSet) /\ Clean(frames) /\ Len(frames) \in Nat
  BY FramesTyped DEF ReceiveTyped
<1>2. f \in FrameSet /\ acc \in Ears /\ Heard[k + 1] = Listen(acc, f)
  <2>1. (k + 1) - 1 = k
    OBVIOUS
  <2> QED BY <1>1, <2>1, HeardIs
<1>3. /\ ~ acc.over /\ delivered = acc.out /\ message = acc.payload
      /\ Fragment(k) \/ message = <<>>
      /\ f.op = "continuation" => type = acc.type
  <2>1. k < Len(frames)
    BY <1>1
  <2> QED BY <2>1 DEF Stands
<1>4. f.op \in Controls => message = <<>>
  <2>1. f.op \in Controls => k + 1 = 1 \/ frames[k].fin
    <3>1. (k + 1) - 1 = k
      OBVIOUS
    <3> QED BY <1>1, <3>1 DEF Clean
  <2> QED BY <1>3, <2>1 DEF Fragment
<1>5. t = ta /\ p = acc.payload \o f.payload
  BY <1>3
<1>6. /\ acc.out \in Seq(MessageSet) /\ acc.payload \in Seq(Nat) /\ acc.over \in BOOLEAN
      /\ acc = [out |-> acc.out, payload |-> acc.payload, type |-> acc.type, over |-> acc.over]
      /\ f.payload \in Seq(Nat)
  BY <1>2 DEF Ears, FrameSet
<1>7. f.op \in Controls => p = f.payload /\ acc.payload = <<>>
  BY <1>3, <1>4, <1>6, ConcatEmptySeq
<1>8. Heard[k + 1] =
        IF f.op \in Controls THEN [acc EXCEPT !.out = Append(@, Message(f.op, f.payload))]
        ELSE IF f.fin THEN [acc EXCEPT !.out = Append(@, Message(ta, p)), !.payload = <<>>]
        ELSE [acc EXCEPT !.type = ta, !.payload = p]
  <2>1. ~ (acc.over \/ Malformed(f))
    BY <1>3
  <2> QED BY <1>2, <1>5, <2>1 DEF Listen
<1> HIDE DEF f, acc, t, ta, p
<1>9. CASE f.op \in Controls
  <2>1. Heard[k + 1] = [acc EXCEPT !.out = Append(@, Message(f.op, f.payload))]
    BY <1>8, <1>9
  <2>2. /\ Heard[k + 1].over = acc.over /\ Heard[k + 1].payload = acc.payload
        /\ Heard[k + 1].out = Append(acc.out, Message(f.op, f.payload))
    BY <1>6, <2>1
  <2> QED BY <1>3, <1>4, <1>7, <1>9, <2>2 DEF f, acc, t, p
<1>10. CASE f.op \notin Controls /\ f.fin
  <2>1. Heard[k + 1] = [acc EXCEPT !.out = Append(@, Message(ta, p)), !.payload = <<>>]
    BY <1>8, <1>10
  <2>2. /\ Heard[k + 1].over = acc.over /\ Heard[k + 1].payload = <<>>
        /\ Heard[k + 1].out = Append(acc.out, Message(ta, p))
    BY <1>6, <2>1
  <2> QED BY <1>3, <1>5, <1>10, <2>2 DEF f, acc, t, p
<1>11. CASE f.op \notin Controls /\ ~ f.fin
  <2>1. Heard[k + 1] = [acc EXCEPT !.type = ta, !.payload = p]
    BY <1>8, <1>11
  <2>2. /\ Heard[k + 1].over = acc.over /\ Heard[k + 1].payload = p
        /\ Heard[k + 1].out = acc.out /\ Heard[k + 1].type = ta
    BY <1>6, <2>1
  <2> QED BY <1>3, <1>5, <1>11, <2>2 DEF f, acc, t, p
<1> QED BY <1>9, <1>10, <1>11

LEMMA SameFrames ==
  ASSUME frames' = frames
  PROVE  /\ Heard' = Heard /\ Rest' = Rest /\ Tokens' = Tokens /\ Given' = Given
         /\ \A k : Fragment(k)' = Fragment(k)
<1>1. Heard' = Heard
  BY DEF Heard
<1>2. Tokens' = Tokens
  BY DEF Tokens
<1>3. Rest' = Rest
  BY <1>2 DEF Rest, Remainders, Encoded
<1>4. Given' = Given
  BY <1>1 DEF Given
<1> QED BY <1>1, <1>2, <1>3, <1>4 DEF Fragment

LEMMA ReceiveKeeps ==
  ASSUME ReceiveInv, NEW n \in 1..Len(stream), Receive(n)
  PROVE  ReceiveInv'
<1>1. /\ turn = "wait" /\ sound /\ turn' = "parse" /\ sound' = sound
      /\ buf' = buf \o SubSeq(stream, 1, n)
      /\ stream' = SubSeq(stream, n + 1, Len(stream))
      /\ UNCHANGED <<frames, message, type, delivered>>
  BY DEF Receive
<1>2. PICK k \in 0..Len(frames) : Stands(k)
  BY <1>1 DEF ReceiveInv, Failed
<1>3. buf \in Seq(Tokens) /\ stream \in Seq(Tokens) /\ Len(stream) \in Nat
  BY DEF ReceiveInv, ReceiveTyped
<1> DEFINE s1 == SubSeq(stream, 1, n)
           s2 == SubSeq(stream, n + 1, Len(stream))
<1>4. s1 \in Seq(Tokens) /\ s2 \in Seq(Tokens)
  <2>1. /\ \A i \in 1..n : stream[i] \in Tokens
        /\ \A i \in (n + 1)..Len(stream) : stream[i] \in Tokens
    BY <1>3
  <2> QED BY <1>3, <2>1, SubSeqProperties
<1>5. s1 \o s2 = stream
  <2>1. SubSeq(stream, 1, Len(stream)) = stream
    BY <1>3, SubSeqFull
  <2>2. 1 \in 1..(Len(stream) + 1) /\ n \in (1 - 1)..Len(stream) /\ Len(stream) \in n..Len(stream)
    BY <1>3
  <2>3. s1 \o s2 = SubSeq(stream, 1, Len(stream))
    BY <1>3, <2>2, ConcatAdjacentSubSeq
  <2> QED BY <2>1, <2>3
<1> HIDE DEF s1, s2
<1>6. buf' \in Seq(Tokens) /\ stream' \in Seq(Tokens) /\ buf' \o stream' = buf \o stream
  <2>1. \A x, y, z \in Seq(Tokens) : (x \o y) \o z = x \o (y \o z)
    BY ConcatAssociative
  <2>2. buf' = buf \o s1 /\ stream' = s2
    BY <1>1 DEF s1, s2
  <2>3. (buf \o s1) \o s2 = buf \o (s1 \o s2)
    BY <1>3, <1>4, <2>1
  <2>4. buf' \o stream' = buf \o stream
    BY <1>5, <2>2, <2>3
  <2> QED BY <1>3, <1>4, <2>2, <2>4
<1>7. Stands(k)'
  BY <1>1, <1>2, <1>6, SameFrames DEF Stands
<1> QED BY <1>1, <1>6, <1>7, SameFrames DEF ReceiveInv, ReceiveTyped

LEMMA IncompleteKeeps ==
  ASSUME CleanClients, ReceiveInv, Incomplete
  PROVE  ReceiveInv'
<1>1. /\ turn = "parse" /\ turn' = "wait"
      /\ UNCHANGED <<frames, stream, buf, message, sound, delivered>>
  BY DEF Incomplete
<1>2. PICK k \in 0..Len(frames) : Stands(k)
  BY <1>1 DEF ReceiveInv, Failed
<1>3. ReceiveTyped /\ frames \in Seq(FrameSet) /\ Len(frames) \in Nat /\ Len(buf) \in Nat
  BY FramesTyped DEF ReceiveInv, ReceiveTyped
<1>4. ReceiveTyped'
  BY <1>1, <1>3, SameFrames DEF ReceiveTyped
<1>5. CASE Len(buf) < 2 /\ UNCHANGED type
  <2>1. k # Len(frames) => Len(buf) < Len(Encode(frames[k + 1]))
    <3> SUFFICES ASSUME k # Len(frames) PROVE Len(buf) < Len(Encode(frames[k + 1]))
      OBVIOUS
    <3>1. k + 1 \in 1..Len(frames)
      BY <1>3
    <3>2. frames[k + 1] \in FrameSet
      BY <1>3, <3>1
    <3>3. Len(Encode(frames[k + 1])) = Overhead(frames[k + 1]) + Len(frames[k + 1].payload)
      BY <3>2, EncodeIs
    <3>4. Len(frames[k + 1].payload) \in Nat /\ Overhead(frames[k + 1]) \in {3, 4}
      BY <3>2 DEF FrameSet, Overhead
    <3> QED BY <1>3, <1>5, <3>3, <3>4
  <2>2. Stands(k)'
    BY <1>1, <1>2, <1>5, <2>1, SameFrames DEF Stands
  <2> QED BY <1>1, <1>4, <2>2 DEF ReceiveInv
<1>6. CASE Len(buf) >= 2 /\ ~ Bad /\ ~ Whole /\ type' = TypeAfter
  <2>1. Op = frames[k + 1].op /\ (Whole <=> Len(buf) >= Len(Encode(frames[k + 1])))
        /\ k + 1 \in 1..Len(frames) /\ frames[k + 1] \in FrameSet
    BY <1>2, <1>3, <1>6, NextFrame
  <2>2. Len(buf) < Len(Encode(frames[k + 1]))
    <3>1. Len(Encode(frames[k + 1])) \in Nat
      BY <2>1, EncodeIs DEF IsSeq
    <3> QED BY <1>3, <1>6, <2>1, <3>1
  <2>3. frames[k + 1].op = "continuation" => type' = type
    BY <1>6, <2>1 DEF TypeAfter
  <2>4. Stands(k)'
    BY <1>1, <1>2, <2>2, <2>3, SameFrames DEF Stands
  <2> QED BY <1>1, <1>4, <2>4 DEF ReceiveInv
<1> QED BY <1>5, <1>6 DEF Incomplete

LEMMA RejectKeeps ==
  ASSUME ReceiveInv, Reject
  PROVE  ReceiveInv'
<1>1. /\ turn = "parse" /\ turn' = "wait" /\ sound' = FALSE
      /\ UNCHANGED <<frames, stream, delivered>> /\ buf' \in {<<>>, buf}
  BY DEF Reject
<1>2. PICK k \in 0..Len(frames) : Stands(k)
  BY <1>1 DEF ReceiveInv, Failed
<1>3. delivered \in Given
  BY <1>2 DEF Stands, Given
<1>4. Failed'
  BY <1>1, <1>3, SameFrames DEF Failed
<1>5. ReceiveTyped'
  <2>1. <<>> \in Seq(Tokens)
    OBVIOUS
  <2> QED BY <1>1, <2>1, SameFrames DEF ReceiveInv, ReceiveTyped
<1> QED BY <1>4, <1>5 DEF ReceiveInv

LEMMA TakeFragmentKeeps ==
  ASSUME CleanClients, ReceiveInv, TakeFragment
  PROVE  ReceiveInv'
<1>1. /\ turn = "parse" /\ turn' = "wait" /\ Len(buf) >= 2 /\ ~ Bad /\ Whole /\ ~ Fin
      /\ message' = message \o Payload /\ type' = TypeAfter /\ buf' = Left
      /\ UNCHANGED <<frames, stream, sound, delivered>>
  BY DEF TakeFragment
<1>2. PICK k \in 0..Len(frames) : Stands(k)
  BY <1>1 DEF ReceiveInv, Failed
<1> DEFINE f == frames[k + 1]
<1>3. ReceiveTyped /\ frames \in Seq(FrameSet) /\ Clean(frames) /\ Len(frames) \in Nat
  BY FramesTyped DEF ReceiveInv, ReceiveTyped
<1>4. /\ k + 1 \in 1..Len(frames) /\ Op = f.op /\ Fin = f.fin /\ Control = (f.op \in Controls)
      /\ Payload = f.payload /\ Left \in Seq(Tokens) /\ Left \o stream = Rest[k + 1]
      /\ ~ Malformed(f)
  BY <1>1, <1>2, <1>3, NextFrame
<1>5. ~ f.fin /\ f.op \notin Controls /\ Known
  BY <1>1, <1>4 DEF Bad
<1>6. TypeAfter = IF f.op = "continuation" THEN type ELSE f.op
  BY <1>4, <1>5 DEF TypeAfter, Known, Types
<1>7. /\ ~ Heard[k + 1].over /\ Heard[k + 1].out = delivered
      /\ Heard[k + 1].payload = message \o f.payload /\ Heard[k + 1].type = TypeAfter
  BY <1>2, <1>3, <1>4, <1>5, <1>6, HeardNext
<1>8. Fragment(k + 1) /\ k + 1 \in 0..Len(frames)
  BY <1>4, <1>5 DEF Fragment
<1>9. Stands(k + 1)'
  BY <1>1, <1>4, <1>7, <1>8, SameFrames DEF Stands
<1>10. ReceiveTyped'
  BY <1>1, <1>3, <1>4, SameFrames DEF ReceiveTyped
<1> QED BY <1>1, <1>8, <1>9, <1>10 DEF ReceiveInv

LEMMA TakeFinalKeeps ==
  ASSUME CleanClients, ReceiveInv, TakeFinal
  PROVE  ReceiveInv'
<1>1. /\ turn = "parse" /\ Len(buf) >= 2 /\ ~ Bad /\ Whole /\ Fin
      /\ delivered' = Append(delivered, Message(TypeAfter, message \o Payload))
      /\ message' = <<>> /\ buf' = Left
      /\ turn' = IF Left = <<>> THEN "wait" ELSE "parse"
      /\ UNCHANGED <<frames, stream>>
  BY DEF TakeFinal, Message
<1>2. PICK k \in 0..Len(frames) : Stands(k)
  BY <1>1 DEF ReceiveInv, Failed
<1> DEFINE f == frames[k + 1]
<1>3. ReceiveTyped /\ frames \in Seq(FrameSet) /\ Clean(frames) /\ Len(frames) \in Nat
  BY FramesTyped DEF ReceiveInv, ReceiveTyped
<1>4. /\ k + 1 \in 1..Len(frames) /\ Op = f.op /\ Fin = f.fin /\ Control = (f.op \in Controls)
      /\ Payload = f.payload /\ Left \in Seq(Tokens) /\ Left \o stream = Rest[k + 1]
      /\ ~ Malformed(f)
  BY <1>1, <1>2, <1>3, NextFrame
<1>5. f.fin /\ Known
  BY <1>1, <1>4 DEF Bad
<1>6. TypeAfter = IF f.op = "continuation" THEN type ELSE f.op
  BY <1>4, <1>5 DEF TypeAfter, Known, Types
<1>7. /\ ~ Heard[k + 1].over /\ Heard[k + 1].payload = <<>>
      /\ Heard[k + 1].out = Append(delivered, Message(TypeAfter, message \o f.payload))
  <2>1. f.op \in Controls => f.op # "continuation"
    BY DEF Controls
  <2> QED BY <1>2, <1>3, <1>4, <1>5, <1>6, <2>1, HeardNext
<1>8. ASSUME k + 1 < Len(frames) PROVE frames[(k + 1) + 1].op # "continuation"
  <2>1. (k + 1) + 1 \in 1..Len(frames) /\ ((k + 1) + 1) - 1 = k + 1
    BY <1>3, <1>8
  <2> QED BY <1>3, <1>5, <2>1 DEF Clean
<1>9. ASSUME turn' = "wait", k + 1 # Len(frames)
      PROVE  Len(Left) < Len(Encode(frames[(k + 1) + 1]))
  <2>1. Left = <<>>
    BY <1>1, <1>9
  <2>2. (k + 1) + 1 \in 1..Len(frames)
    BY <1>3, <1>4, <1>9
  <2>3. frames[(k + 1) + 1] \in FrameSet
    BY <1>3, <2>2
  <2>4. /\ Len(frames[(k + 1) + 1].payload) \in Nat
        /\ Overhead(frames[(k + 1) + 1]) \in {3, 4}
    BY <2>3 DEF FrameSet, Overhead
  <2>5. Len(Encode(frames[(k + 1) + 1]))
          = Overhead(frames[(k + 1) + 1]) + Len(frames[(k + 1) + 1].payload)
    BY <2>3, EncodeIs
  <2> QED BY <2>1, <2>4, <2>5, Len(<<>>) = 0
<1>10. Stands(k + 1)'
  <2>1. k + 1 \in 0..Len(frames)
    BY <1>4
  <2> QED BY <1>1, <1>4, <1>7, <1>8, <1>9, <2>1, SameFrames DEF Stands
<1>11. ReceiveTyped'
  BY <1>1, <1>3, <1>4, SameFrames DEF ReceiveTyped
<1> QED BY <1>1, <1>4, <1>10, <1>11 DEF ReceiveInv

LEMMA ReceiveStepKeeps == CleanClients /\ ReceiveInv /\ [Next]_vars => ReceiveInv'
<1> SUFFICES ASSUME CleanClients, ReceiveInv, [Next]_vars PROVE ReceiveInv'
  OBVIOUS
<1>1. ASSUME UNCHANGED receiveVars PROVE ReceiveInv'
  BY <1>1, SameFrames
     DEF receiveVars, ReceiveInv, ReceiveTyped, Failed, Stands
<1>2. ASSUME NEW n \in 1..Len(stream), Deliver(n) PROVE ReceiveInv'
  BY <1>2, ReceiveKeeps DEF Deliver
<1>3. CASE Handle
  BY <1>3, IncompleteKeeps, RejectKeeps, TakeFragmentKeeps, TakeFinalKeeps
     DEF Handle, ReceiveStep
<1>4. CASE UNCHANGED vars
  BY <1>1, <1>4 DEF vars
<1>5. ASSUME NEW f \in {"set", "disable"}, Post(f) PROVE ReceiveInv'
  BY <1>1, <1>5 DEF Post
<1>6. CASE SetPing \/ DisablePing
  BY <1>1, <1>6 DEF SetPing, DisablePing
<1>7. CASE Shutdown \/ Destroy \/ Gone
  BY <1>1, <1>7 DEF Shutdown, Destroy, Gone, vars
<1> QED BY <1>2, <1>3, <1>4, <1>5, <1>6, <1>7 DEF Next

\* What is heard only grows.
\* a is how b starts.
Starts(a, b) == Len(a) <= Len(b) /\ \A i \in 1..Len(a) : b[i] = a[i]

LEMMA StartsIsPrefix ==
  ASSUME NEW a, NEW b, IsSeq(a), IsSeq(b), Starts(a, b)
  PROVE  IsPrefix(a, b)
<1> DEFINE T == Elements(a) \cup Elements(b)
<1>1. a \in Seq(T) /\ b \in Seq(T)
  BY DEF IsSeq
<1> HIDE DEF T
<1>2. Len(a) \in Nat /\ Len(b) \in Nat /\ \A i \in 1..Len(a) : a[i] \in T /\ b[i] \in T
  BY <1>1 DEF Starts
<1>3. /\ SubSeq(a, 1, Len(a)) \in Seq(T) /\ SubSeq(b, 1, Len(a)) \in Seq(T)
      /\ Len(SubSeq(a, 1, Len(a))) = IF 1 <= Len(a) THEN Len(a) - 1 + 1 ELSE 0
      /\ Len(SubSeq(b, 1, Len(a))) = IF 1 <= Len(a) THEN Len(a) - 1 + 1 ELSE 0
      /\ \A i \in 1..(Len(a) - 1 + 1) : SubSeq(a, 1, Len(a))[i] = a[1 + i - 1]
      /\ \A i \in 1..(Len(a) - 1 + 1) : SubSeq(b, 1, Len(a))[i] = b[1 + i - 1]
  BY <1>1, <1>2, SubSeqProperties
<1>4. /\ Len(SubSeq(a, 1, Len(a))) = Len(SubSeq(b, 1, Len(a)))
      /\ \A i \in 1..Len(SubSeq(a, 1, Len(a))) : SubSeq(a, 1, Len(a))[i] = SubSeq(b, 1, Len(a))[i]
  BY <1>2, <1>3 DEF Starts
<1>5. SubSeq(a, 1, Len(a)) = SubSeq(b, 1, Len(a))
  BY <1>3, <1>4, SeqEqual
<1> QED BY <1>5 DEF Starts, IsPrefix

\* What is only ever added to at its end starts as it was.
LEMMA AppendingGrows ==
  ASSUME NEW N \in Nat, NEW k \in 0..N, NEW g, IsSeq(g[k]),
         \A j \in 1..N : j > k => g[j] = g[j - 1] \/ \E m : g[j] = Append(g[j - 1], m)
  PROVE  IsSeq(g[N]) /\ Starts(g[k], g[N])
<1> DEFINE Longer(b) == IsSeq(b) /\ Starts(g[k], b)
           S == {j \in 0..N : j >= k => Longer(g[j])}
<1>1. Longer(g[k]) /\ Len(g[k]) \in Nat
  BY DEF Starts, IsSeq
<1>2. 0 \in S
  BY <1>1
<1>3. ASSUME NEW i \in 0..(N - 1), i \in S PROVE i + 1 \in S
  <2>1. i + 1 \in 0..N /\ i + 1 \in 1..N /\ (i + 1) - 1 = i /\ i \in 0..N
    OBVIOUS
  <2>2. CASE i + 1 < k
    BY <2>1, <2>2
  <2>3. CASE i + 1 = k
    BY <1>1, <2>1, <2>3
  <2>4. CASE i + 1 > k
    <3>1. Longer(g[i]) /\ (g[i + 1] = g[i] \/ \E m : g[i + 1] = Append(g[i], m))
      <4>1. Longer(g[i])
        BY <1>3, <2>4
      <4> DEFINE j == i + 1
      <4>2. j \in 1..N /\ j > k /\ j - 1 = i
        BY <2>1, <2>4
      <4> HIDE DEF j
      <4>3. g[j] = g[i] \/ \E m : g[j] = Append(g[i], m)
        BY <4>2
      <4> QED BY <4>1, <4>3 DEF j
    <3>2. ASSUME NEW m, g[i + 1] = Append(g[i], m) PROVE Longer(g[i + 1])
      <4>1. /\ IsSeq(Append(g[i], m)) /\ Len(g[i]) \in Nat
            /\ Len(Append(g[i], m)) = Len(g[i]) + 1
            /\ \A j \in 1..Len(g[i]) : Append(g[i], m)[j] = g[i][j]
        BY <3>1, AppendIs
      <4>2. Len(g[k]) <= Len(g[i]) /\ \A j \in 1..Len(g[k]) : g[i][j] = g[k][j]
        BY <3>1 DEF Starts
      <4> QED BY <1>1, <3>2, <4>1, <4>2 DEF Starts
    <3>3. Longer(g[i + 1])
      BY <3>1, <3>2
    <3> QED BY <2>1, <3>3
  <2> QED BY <2>1, <2>2, <2>3, <2>4
<1>4. N \in S
  <2> HIDE DEF S
  <2>1. \A j \in 0..N : j \in S
    BY <1>2, <1>3, UpToInduction
  <2> QED BY <2>1
<1> QED BY <1>4

LEMMA HeardGrows ==
  ASSUME frames \in Seq(FrameSet), NEW k \in 0..Len(frames)
  PROVE  IsSeq(Heard[k].out) /\ IsSeq(Meaning) /\ Starts(Heard[k].out, Meaning)
<1> DEFINE N == Len(frames)
           g == [j \in 0..N |-> Heard[j].out]
<1>1. /\ N \in Nat /\ \A j \in 0..N : Heard[j] \in Ears
      /\ \A j \in 1..N : Heard[j] = Listen(Heard[j - 1], frames[j]) /\ frames[j] \in FrameSet
  BY HeardIs
<1> HIDE DEF N
<1>2. IsSeq(Heard[k].out)
  BY <1>1, SeqIsSeq DEF Ears, N
<1>3. ASSUME NEW j \in 1..N PROVE g[j] = g[j - 1] \/ \E m : g[j] = Append(g[j - 1], m)
  <2> DEFINE acc == Heard[j - 1]
             f == frames[j]
  <2>1. /\ j \in 0..N /\ j - 1 \in 0..N /\ g[j] = Heard[j].out /\ g[j - 1] = acc.out
        /\ acc \in Ears /\ Heard[j] = Listen(acc, f)
    BY <1>1
  <2> HIDE DEF acc, f, g
  <2>2. Heard[j].out = acc.out \/ \E m : Heard[j].out = Append(acc.out, m)
    BY <2>1 DEF Listen, Ears
  <2> QED BY <2>1, <2>2
<1>4. k \in 0..N /\ N \in 0..N /\ g[k] = Heard[k].out /\ g[N] = Meaning
  BY <1>1 DEF N, Meaning
<1> HIDE DEF g
<1>5. IsSeq(g[N]) /\ Starts(g[k], g[N])
  BY <1>1, <1>2, <1>3, <1>4, AppendingGrows
<1> QED BY <1>2, <1>4, <1>5

\* What the callback has been given is how the messages of the client start.
LEMMA DeliveredStarts ==
  ASSUME ReceiveInv
  PROVE  IsSeq(delivered) /\ IsSeq(Meaning) /\ Starts(delivered, Meaning)
<1>1. frames \in Seq(FrameSet)
  BY FramesTyped DEF ReceiveInv, ReceiveTyped
<1>2. \E k \in 0..Len(frames) : delivered = Heard[k].out
  BY DEF ReceiveInv, Failed, Given, Stands
<1> QED BY <1>1, <1>2, HeardGrows

\* However the bytes of clean clients are cut into deliveries, whatever other threads do
\* with the pings and whenever the connection is shut down (onNewMessage and
\* WebSocketMessageParser::parse): the callback is given the messages of the client,
\* whole and in order.
THEOREM MessagesArriveWhole ==
  ASSUME CleanClients
  PROVE  Spec => []MessagesExact
<1>1. Init => ReceiveInv
  BY ReceiveInitially DEF Init
<1>2. ReceiveInv /\ [Next]_vars => ReceiveInv'
  BY ReceiveStepKeeps
<1>3. ReceiveInv => MessagesExact
  BY DeliveredStarts, StartsIsPrefix DEF MessagesExact
<1> QED BY <1>1, <1>2, <1>3, PTL DEF Spec

\* When all has arrived and the loop is back with no fragment in hand, clients whose
\* fragments are not empty have had every message of theirs delivered (onNewMessage
\* stops early only behind a fragment).
THEOREM HeldBehindFragments ==
  ASSUME CleanClients, \A s \in Frames : Spoken(s)
  PROVE  Spec => []HeldOnlyByFragment
<1>1. Init => ReceiveInv
  BY ReceiveInitially DEF Init
<1>2. ReceiveInv /\ [Next]_vars => ReceiveInv'
  BY ReceiveStepKeeps
<1>3. ReceiveInv => HeldOnlyByFragment
  <2> SUFFICES ASSUME ReceiveInv, turn = "wait", stream = <<>>, sound, message = <<>>
               PROVE  delivered = Meaning
    BY DEF HeldOnlyByFragment
  <2>1. /\ frames \in Seq(FrameSet) /\ Len(frames) \in Nat /\ buf \in Seq(Tokens)
        /\ Spoken(frames) /\ Remains(Rest)
    BY FramesTyped, RestIs DEF ReceiveInv, ReceiveTyped
  <2>2. PICK k \in 0..Len(frames) : Stands(k)
    BY DEF ReceiveInv, Failed
  <2>3. buf = Rest[k]
    BY <2>1, <2>2, ConcatEmptySeq DEF Stands
  <2>4. CASE k = Len(frames)
    BY <2>2, <2>4 DEF Stands, Meaning
  <2>5. CASE k # Len(frames)
    <3>1. k + 1 \in 1..Len(frames) /\ (k + 1) - 1 = k /\ k + 1 \in 0..Len(frames)
      BY <2>1, <2>5
    <3>2. /\ Rest[k] = Encode(frames[k + 1]) \o Rest[k + 1]
          /\ Rest[k + 1] \in Seq(Tokens) /\ Encode(frames[k + 1]) \in Seq(Tokens)
      BY <2>1, <3>1, EncodedType DEF Remains
    <3>3. ~ (Len(buf) < Len(Encode(frames[k + 1])))
      <4> DEFINE e == Encode(frames[k + 1])
                 r == Rest[k + 1]
      <4>1. e \in Seq(Tokens) /\ r \in Seq(Tokens) /\ buf = e \o r
        BY <2>3, <3>2
      <4> HIDE DEF e, r
      <4>2. Len(buf) = Len(e) + Len(r) /\ Len(e) \in Nat /\ Len(r) \in Nat
        BY <4>1
      <4> QED BY <4>2 DEF e
    <3>4. Fragment(k)
      BY <2>2, <2>5, <3>3 DEF Stands
    <3>5. message # <<>>
      <4> DEFINE f == frames[k]
                 acc == Heard[k - 1]
                 t == IF f.op = "continuation" THEN acc.type ELSE f.op
                 p == acc.payload \o f.payload
      <4>1. k \in 1..Len(frames) /\ k - 1 \in 0..Len(frames)
        BY <2>1, <3>4 DEF Fragment
      <4>2. /\ f \in FrameSet /\ acc \in Ears /\ Heard[k] = Listen(acc, f)
            /\ ~ f.fin /\ f.payload # <<>> /\ ~ Heard[k].over
        <5>1. ~ Heard[k].over /\ ~ f.fin
          BY <2>2, <3>4 DEF Stands, Fragment
        <5> QED BY <2>1, <4>1, <5>1, HeardIs DEF Spoken
      <4>3. /\ acc.payload \in Seq(Nat) /\ f.payload \in Seq(Nat)
        BY <4>2 DEF Ears, FrameSet
      <4>4. ~ (acc.over \/ Malformed(f))
        <5>1. SUFFICES ASSUME acc.over \/ Malformed(f) PROVE Heard[k].over
          BY <4>2
        <5>2. Heard[k] = [acc EXCEPT !.over = TRUE]
          BY <4>2, <5>1 DEF Listen
        <5> HIDE DEF acc
        <5> QED BY <4>2, <5>2 DEF Ears
      <4>5. f.op \notin Controls
        BY <4>2, <4>4 DEF Malformed
      <4>6. Heard[k] = [acc EXCEPT !.type = t, !.payload = p]
        BY <4>2, <4>4, <4>5 DEF Listen
      <4>7. Heard[k].payload = p
        <5> HIDE DEF acc, t, p
        <5> QED BY <4>2, <4>6 DEF Ears
      <4>8. p # <<>>
        <5>1. Len(p) = Len(acc.payload) + Len(f.payload) /\ Len(acc.payload) \in Nat
          BY <4>3
        <5>2. Len(f.payload) \in Nat \ {0}
          BY <4>2, <4>3, EmptySeq
        <5> QED BY <5>1, <5>2, Len(<<>>) = 0
      <4> QED BY <2>2, <4>7, <4>8 DEF Stands
    <3> QED BY <3>5
  <2> QED BY <2>4, <2>5
<1> QED BY <1>1, <1>2, <1>3, PTL DEF Spec

-----------------------------------------------------------------------------
(* Pongs. *)

Answered(answers, m) == IF m.type = "ping" THEN Append(answers, m.payload) ELSE answers

\* Of each start of the messages, the pings in it
Answers(U, messages) ==
  /\ U[0] = <<>>
  /\ \A n \in 1..Len(messages) : U[n] = Answered(U[n - 1], messages[n])

LEMMA PingsRead ==
  ASSUME NEW messages, IsSeq(messages)
  PROVE  \E U : Answers(U, messages) /\ PingsIn(messages) = U[Len(messages)]
<1> DEFINE N == Len(messages)
           V == {messages[i].payload : i \in 1..N}
           step == [n \in 1..N |-> [s \in Seq(V) |-> Answered(s, messages[n])]]
           Next1(g) == [n \in 0..N |-> IF n = 0 THEN <<>>
                         ELSE IF messages[n].type = "ping" THEN Append(g[n - 1], messages[n].payload)
                         ELSE g[n - 1]]
<1>1. N \in Nat
  BY DEF IsSeq
<1>2. step \in [1..N -> [Seq(V) -> Seq(V)]]
  <2>1. \A n \in 1..N, s \in Seq(V) : Answered(s, messages[n]) \in Seq(V)
    BY DEF Answered
  <2> QED BY <2>1
<1>3. <<>> \in Seq(V)
  OBVIOUS
<1> HIDE DEF N, V
<1>4. PICK f : Iterates(f, N, Seq(V), <<>>, step)
  <2> HIDE DEF step
  <2> QED BY <1>1, <1>2, <1>3, RecursionExists
<1>5. \A n \in 1..N : f[n] = Answered(f[n - 1], messages[n])
  <2> SUFFICES ASSUME NEW n \in 1..N PROVE f[n] = Answered(f[n - 1], messages[n])
    OBVIOUS
  <2>1. n - 1 \in 0..N /\ f[n - 1] \in Seq(V)
    BY <1>1, <1>4 DEF Iterates
  <2> QED BY <1>4, <2>1 DEF Iterates
<1> HIDE DEF step
<1>6. f = Next1(f)
  <2> SUFFICES ASSUME NEW n \in 0..N PROVE f[n] = Next1(f)[n]
    BY <1>4 DEF Iterates
  <2>1. CASE n = 0
    BY <1>4, <2>1 DEF Iterates
  <2>2. CASE n # 0
    <3>1. n \in 1..N
      BY <1>1, <2>2
    <3> QED BY <1>5, <2>2, <3>1 DEF Answered
  <2> QED BY <2>1, <2>2
<1> DEFINE U == CHOOSE g : g = Next1(g)
<1>7. U = Next1(U) /\ PingsIn(messages) = U[N]
  <2>1. U = Next1(U)
    BY <1>6
  <2>2. PingsIn(messages) = U[N]
    BY DEF PingsIn, N
  <2> QED BY <2>1, <2>2
<1> HIDE DEF U
<1>8. U[0] = <<>> /\ \A n \in 1..N : U[n] = Answered(U[n - 1], messages[n])
  <2>1. \A n \in 0..N : U[n] = Next1(U)[n]
    BY <1>7
  <2>2. 0 \in 0..N /\ \A n \in 1..N : n \in 0..N /\ n # 0
    BY <1>1
  <2> QED BY <2>1, <2>2 DEF Answered
<1> QED BY <1>7, <1>8 DEF Answers, N

\* One more message is one more pong, if it is a ping.
LEMMA OneMore ==
  ASSUME NEW messages, NEW m, IsSeq(messages)
  PROVE  PingsIn(Append(messages, m)) = Answered(PingsIn(messages), m)
<1> DEFINE more == Append(messages, m)
           n == Len(messages)
<1>1. /\ IsSeq(more) /\ n \in Nat /\ Len(more) = n + 1 /\ more[n + 1] = m
      /\ \A i \in 1..n : more[i] = messages[i]
  BY AppendIs
<1> HIDE DEF more
<1>2. PICK U : Answers(U, messages) /\ PingsIn(messages) = U[n]
  BY PingsRead
<1>3. PICK V : Answers(V, more) /\ PingsIn(more) = V[n + 1]
  BY <1>1, PingsRead
<1>4. V[n] = U[n]
  <2>1. GoOnAlike(U, V, n)
    BY <1>1, <1>2, <1>3 DEF Answers, GoOnAlike
  <2> QED BY <1>1, <2>1, RecursionUnique
<1>5. V[n + 1] = Answered(V[n], m)
  <2>1. n + 1 \in 1..Len(more) /\ (n + 1) - 1 = n
    BY <1>1
  <2> QED BY <1>1, <1>3, <2>1 DEF Answers
<1> QED BY <1>2, <1>3, <1>4, <1>5 DEF more

\* The pings in how messages start are how the pings in them start.
LEMMA PingsGrow ==
  ASSUME NEW a, NEW b, IsSeq(a), IsSeq(b), Starts(a, b), IsSeq(PingsIn(a))
  PROVE  IsPrefix(PingsIn(a), PingsIn(b))
<1> DEFINE n == Len(a)
           N == Len(b)
<1>1. n \in Nat /\ N \in Nat /\ n <= N /\ \A i \in 1..n : i \in 1..N /\ b[i] = a[i]
  BY DEF IsSeq, Starts
<1>2. PICK U : Answers(U, a) /\ PingsIn(a) = U[n]
  BY PingsRead
<1>3. PICK V : Answers(V, b) /\ PingsIn(b) = V[N]
  BY PingsRead
<1>4. V[n] = U[n]
  <2>1. GoOnAlike(U, V, n)
    BY <1>1, <1>2, <1>3 DEF Answers, GoOnAlike
  <2> QED BY <1>1, <2>1, RecursionUnique
<1>5. \A j \in 1..N : V[j] = V[j - 1] \/ \E m : V[j] = Append(V[j - 1], m)
  BY <1>3 DEF Answers, Answered
<1> HIDE DEF n, N
<1>6. IsSeq(V[N]) /\ Starts(V[n], V[N])
  <2>1. n \in 0..N /\ IsSeq(V[n])
    BY <1>1, <1>2, <1>4
  <2> QED BY <1>1, <1>5, <2>1, AppendingGrows
<1> QED BY <1>2, <1>3, <1>4, <1>6, StartsIsPrefix

\* The pongs are those of the pings among what the callback has been given.
PongInv == IsSeq(delivered) /\ IsSeq(pongs) /\ pongs = PingsIn(delivered)

LEMMA PongsInitially == ReceiveInit => PongInv
<1> SUFFICES ASSUME ReceiveInit PROVE PongInv
  OBVIOUS
<1>1. IsSeq(delivered) /\ delivered = <<>> /\ pongs = <<>>
  <2>1. <<>> \in Seq({})
    OBVIOUS
  <2> QED BY <2>1, SeqIsSeq DEF ReceiveInit
<1>2. PICK U : Answers(U, delivered) /\ PingsIn(delivered) = U[Len(delivered)]
  BY <1>1, PingsRead
<1> QED BY <1>1, <1>2, Len(<<>>) = 0 DEF PongInv, Answers

LEMMA PongStep == PongInv /\ [Next]_vars => PongInv'
<1> SUFFICES ASSUME PongInv, [Next]_vars PROVE PongInv'
  OBVIOUS
<1>1. ASSUME UNCHANGED <<delivered, pongs>> PROVE PongInv'
  BY <1>1 DEF PongInv
<1>2. ASSUME TakeFinal PROVE PongInv'
  <2> DEFINE m == [type |-> TypeAfter, payload |-> message \o Payload]
  <2>1. /\ delivered' = Append(delivered, m)
        /\ pongs' = IF TypeAfter = "ping" THEN Append(pongs, message \o Payload) ELSE pongs
    BY <1>2 DEF TakeFinal
  <2>2. m.type = TypeAfter /\ m.payload = message \o Payload
    OBVIOUS
  <2> HIDE DEF m
  <2>3. pongs' = Answered(pongs, m)
    BY <2>1, <2>2 DEF Answered
  <2>4. IsSeq(delivered') /\ PingsIn(delivered') = Answered(PingsIn(delivered), m)
    BY <2>1, OneMore, AppendIs DEF PongInv
  <2>5. IsSeq(pongs')
    BY <2>3, AppendIs DEF PongInv, Answered
  <2> QED BY <2>3, <2>4, <2>5 DEF PongInv
<1>3. ASSUME NEW n \in 1..Len(stream), Deliver(n) PROVE PongInv'
  BY <1>1, <1>3 DEF Deliver, Receive
<1>4. CASE Handle
  BY <1>1, <1>2, <1>4 DEF Handle, ReceiveStep, Incomplete, Reject, TakeFragment
<1>5. CASE UNCHANGED receiveVars
  BY <1>1, <1>5 DEF receiveVars
<1>6. ASSUME NEW f \in {"set", "disable"}, Post(f) PROVE PongInv'
  BY <1>5, <1>6 DEF Post
<1>7. CASE SetPing \/ DisablePing \/ Shutdown \/ Destroy \/ Gone \/ UNCHANGED vars
  BY <1>5, <1>7 DEF SetPing, DisablePing, Shutdown, Destroy, Gone, vars
<1> QED BY <1>3, <1>4, <1>6, <1>7 DEF Next

\* Whatever clean clients send and however their bytes are cut into deliveries
\* (onNewMessage): the pongs are those of the pings the client sent, in their order and
\* with their payloads, and none is owed when all has arrived and no fragment is in hand.
THEOREM PongsAnswerPings ==
  ASSUME CleanClients, \A s \in Frames : Spoken(s)
  PROVE  Spec => []PongsExact
<1>1. Init => ReceiveInv
  BY ReceiveInitially DEF Init
<1>2. ReceiveInv /\ [Next]_vars => ReceiveInv'
  BY ReceiveStepKeeps
<1>3. Init => PongInv
  BY PongsInitially DEF Init
<1>4. PongInv /\ [Next]_vars => PongInv'
  BY PongStep
<1>5. Spec => []HeldOnlyByFragment
  BY HeldBehindFragments
<1>6. ReceiveInv /\ PongInv /\ HeldOnlyByFragment => PongsExact
  <2> SUFFICES ASSUME ReceiveInv, PongInv, HeldOnlyByFragment PROVE PongsExact
    OBVIOUS
  <2>1. IsPrefix(pongs, PingsIn(Meaning))
    BY DeliveredStarts, PingsGrow DEF PongInv
  <2> QED BY <2>1 DEF PongsExact, PongInv, HeldOnlyByFragment
<1> QED BY <1>1, <1>2, <1>3, <1>4, <1>5, <1>6, PTL DEF Spec
=============================================================================
