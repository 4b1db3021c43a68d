------------------------------- MODULE RealIp -------------------------------
(***************************************************************************)
(* RealIpResolver: whose request it is when trusted proxies stand between. *)
(*                                                                         *)
(* An address is a number of AddressBits bits.  A header value is a        *)
(* sequence of pieces: " ", ",", or what stands between separators, which  *)
(* is the text of an address or something that is none.                    *)
(***************************************************************************)
EXTENDS Integers, Sequences

CONSTANTS
  AddressBits,   \* 32
  TwoTo,         \* TwoTo[i] = 2^i
  Blocks,        \* what trust_ips may list: [addr, prefix], an address having all its bits
  AddressOf,     \* the address each text is, Unspecified when it is none
  Unspecified,
  Peers,         \* the addresses connections come from
  MaxPieces      \* bound of the model: pieces of a header value

VARIABLES
  trustCIDRs,    \* trustCIDRs_
  value,         \* the value of the header
  peer,          \* req->getPeerAddr()
  forwarded      \* useXForwardedFor_

realIpVars == <<trustCIDRs, value, peer, forwarded>>

Separators == {" ", ","}
HeaderPieces == Separators \cup DOMAIN AddressOf

Width == TwoTo[AddressBits]
Addresses == 0..(Width - 1)

\* A prefix is not 0: 0xffffffff is then shifted by its width, which means nothing in C++.
ASSUME BlockAssumption ==
  /\ AddressBits \in Nat
  /\ TwoTo \in [0..AddressBits -> Nat] /\ TwoTo[0] = 1
  /\ \A i \in 1..AddressBits : TwoTo[i] = 2 * TwoTo[i - 1]
  /\ \A b \in Blocks : b.addr \in Addresses /\ b.prefix \in 1..AddressBits
ASSUME TextAssumption == DOMAIN AddressOf \cap Separators = {}

-----------------------------------------------------------------------------
(* CIDR *)

\* 0xffffffff << (32 - prefix)
Mask(prefix) == Width - TwoTo[AddressBits - prefix]

\* The bits of a and b are those that are one in both; a mask has its ones in front.
And(a, mask) == a - (a % (Width - mask))

matchCidr(addr) ==
  \E b \in trustCIDRs : And(addr, Mask(b.prefix)) = And(b.addr, Mask(b.prefix))

-----------------------------------------------------------------------------
(* XForwardedForParser *)

\* The value from the end without its separators, the first piece being kept in any case.
Trimmed(v) ==
  LET Ends == {i \in 1..Len(v) : i = 1 \/ v[i] \notin Separators}
  IN  IF v = << >> THEN v ELSE SubSeq(v, 1, CHOOSE i \in Ends : \A j \in Ends : j <= i)

\* getNext(): the last text, and what is left before the separator in front of it.
getNext(v) ==
  LET t == Trimmed(v)
      Seps == {i \in 2..Len(t) : t[i] \in Separators}
      at == CHOOSE i \in Seps : \A j \in Seps : j <= i
  IN  IF Seps = {} THEN [ip |-> t, left |-> << >>]
      ELSE [ip |-> SubSeq(t, at + 1, Len(t)), left |-> SubSeq(t, 1, at - 1)]

\* parseAddress(): only a text that is an address is one.
parseAddress(ip) ==
  IF Len(ip) = 1 /\ ip[1] \in DOMAIN AddressOf THEN AddressOf[ip[1]] ELSE Unspecified

\* Mutant: the first text that is not trusted, from the end, if it is an address.
SkippedTrustedOnly(addr) == addr # Unspecified /\ matchCidr(addr)
Skipped(addr) == addr = Unspecified \/ matchCidr(addr)

\* One round of the while loop of the advice
NextHop(state) ==
  IF state.found # Unspecified \/ state.left = << >> THEN state
  ELSE LET next == getNext(state.left)
           addr == parseAddress(next.ip)
       IN  IF Skipped(addr) THEN [found |-> Unspecified, left |-> next.left]
           ELSE [found |-> addr, left |-> << >>]

\* The loop, each round of which takes a piece at least.
FromList(v) ==
  LET state[n \in 0..Len(v)] ==
        IF n = 0 THEN [found |-> Unspecified, left |-> v] ELSE NextHop(state[n - 1])
  IN  state[Len(v)].found

Believed(p) == matchCidr(p)

\* The pre-routing advice: what is put under attributeKey_.
RealAddr ==
  IF value = << >> \/ ~Believed(peer) THEN peer
  ELSE LET addr == IF forwarded THEN FromList(value) ELSE parseAddress(value)
       IN  IF addr = Unspecified THEN peer ELSE addr

RealIpInit ==
  /\ trustCIDRs \in SUBSET Blocks
  /\ value = << >>
  /\ peer \in Peers
  /\ forwarded \in BOOLEAN
\* A header value does not start with a space.
Extend ==
  /\ Len(value) < MaxPieces
  /\ \E piece \in HeaderPieces : /\ value = << >> => piece # " "
                           /\ value' = Append(value, piece)
  /\ UNCHANGED <<trustCIDRs, peer, forwarded>>

RealIpSpec == RealIpInit /\ [][Extend]_realIpVars

-----------------------------------------------------------------------------
AddressBit(a, i) == (a \div TwoTo[AddressBits - i]) % 2

\* A trusted block is the addresses that agree with it in as many bits as its prefix says.
BlocksExact ==
  \A a \in Addresses :
    matchCidr(a) <=>
      \E b \in trustCIDRs : \A i \in 1..b.prefix : AddressBit(a, i) = AddressBit(b.addr, i)

\* A piece that is read as an address: it stands between separators.
IsHop(i) ==
  /\ value[i] \notin Separators
  /\ i = 1 \/ value[i - 1] \in Separators
  /\ i = Len(value) \/ value[i + 1] \in Separators
  /\ AddressOf[value[i]] # Unspecified

UntrustedHops == {i \in DOMAIN value : IsHop(i) /\ ~matchCidr(AddressOf[value[i]])}

\* What a client that is not trusted claims of itself does not count: the last hop that is
\* not trusted is taken, whatever was in the header when it came.
LastUntrustedHop ==
  forwarded /\ value # << >> /\ value[1] \notin Separators /\ matchCidr(peer) =>
    RealAddr = IF UntrustedHops = {} THEN peer
               ELSE AddressOf[value[CHOOSE i \in UntrustedHops :
                                      \A j \in UntrustedHops : j <= i]]

\* Nobody but a trusted proxy changes whose request it is.
OnlyProxiesSpeak == ~matchCidr(peer) => RealAddr = peer

\* Whose request it is, is decided by the trusted proxies and nobody else.
RealIpExact == BlocksExact /\ LastUntrustedHop /\ OnlyProxiesSpeak
=============================================================================
