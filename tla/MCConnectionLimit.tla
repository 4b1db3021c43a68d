------------------------- MODULE MCConnectionLimit -------------------------
(* Small instances of ConnectionLimit: the first four slots share an address, *)
(* or all of them do.                                                         *)
EXTENDS ConnectionLimit, TLC

CONSTANTS c1, c2, c3, c4, c5, c6, ip1, ip2

TwoAddresses == [c \in Conns |-> IF c \in {c1, c2, c3, c4} THEN ip1 ELSE ip2]
OneAddress   == [c \in Conns |-> ip1]

SameAddress == Permutations({c1, c2, c3})
=============================================================================
