--------------------------- MODULE Services_proofs ---------------------------
(***************************************************************************)
(* Proofs about the parts around a request, which share no state: each     *)
(* section is about one of the modules ConnectionLimit, SessionData,       *)
(* RequestBody, Sessions and Hodor, for every value of its constants.      *)
(*                                                                         *)
(* No more connections are let in than the limits say.  No modification of *)
(* a session's data is lost.  A body reaches its handler whole.  No session*)
(* id outlives its use, and a client keeps its session.  No key is granted *)
(* more than its capacity in a window.                                     *)
(***************************************************************************)
EXTENDS ConnectionLimit, SessionData, RequestBody, Sessions, Hodor, SequenceInduction,
        SequenceTheorems, FiniteSetTheorems, TLAPS

-----------------------------------------------------------------------------
(* The limits on connections, however the callbacks of connections on      *)
(* different loops interleave.                                             *)
(*                                                                         *)
(* The counter of all connections only goes up, a release included.  So    *)
(* it is never below the number of the admitted, and a state in which the  *)
(* total has turned nobody away has only such states before it, in which   *)
(* no connection missed the check of its address.  From then on an address *)
(* is in credit: for each connection the total turned away and that has    *)
(* gone, its count is one less than the connections it stands for.         *)

AdmittedPhases == {"checkIp", "advice", "open"}
CountedPhases  == {"advice", "open", "rejected", "releasing"}
LetInPhases    == {"advice", "open"}

From(ip) == {c \in Conns : IpOf[c] = ip}

\* The connections of K in one of the phases P
InPhase(K, P) == {c \in K : phase[c] \in P}

\* Connections of an address that have passed its check and are still there
LetIn(ip) == InPhase(From(ip), LetInPhases)

TotalExact ==
  /\ IsFiniteSet(Admitted)
  /\ Cardinality(Admitted) <= connectionNum
  /\ Cardinality(Admitted) <= MaxConn + 1

BelowTotal == MaxPerIp > 0 /\ connectionNum <= MaxConn + 1

AddressExact(ip) ==
  /\ IsFiniteSet(Counted(ip))
  /\ ipConnections[ip] = Cardinality(Counted(ip))

\* The connections of an address that the total turned away, and those of them that are
\* about to take one off its count
RefusedPhases == {"rejected", "releasing"}
Refused(ip)   == InPhase(From(ip), RefusedPhases)
Leaving(U)    == InPhase(U, {"releasing"})

\* What U, turned away and still there, and credit others, turned away and gone, have
\* moved the total on by.
Weight(U, credit) == 2 * credit + Cardinality(U) + Cardinality(Leaving(U))

InCreditBy(ip, U, credit) ==
  /\ U \subseteq Refused(ip)
  /\ IsFiniteSet(Counted(ip))
  /\ Cardinality(Counted(ip) \ U) <= ipConnections[ip] + credit
  /\ Cardinality(LetIn(ip)) <= MaxPerIp + credit
  /\ Weight(U, credit) = 0 \/ Weight(U, credit) <= connectionNum - (MaxConn + 1)

InCredit(ip) == \E U \in SUBSET Conns, credit \in Nat : InCreditBy(ip, U, credit)

LimitInv ==
  /\ TypeOK
  /\ TotalExact
  /\ BelowTotal => \A ip \in Ips : AddressExact(ip)
  /\ MaxPerIp > 0 => \A ip \in Ips : InCredit(ip)

-----------------------------------------------------------------------------
(* Finite sets of connections. *)

LEMMA SetsByPhase ==
  /\ Admitted = InPhase(Conns, AdmittedPhases)
  /\ \A ip : Counted(ip) = InPhase(From(ip), CountedPhases)
BY DEF Admitted, Counted, InPhase, From, AdmittedPhases, CountedPhases

\* A connection that moves enters or leaves a set; nothing else does.
LEMMA MoveChanges ==
  ASSUME TypeOK, NEW c \in Conns, NEW p \in Phases, Goto(c, p),
         NEW K, K \subseteq Conns, NEW P
  PROVE  InPhase(K, P)' = IF c \in K /\ p \in P THEN InPhase(K, P) \cup {c}
                                                ELSE InPhase(K, P) \ {c}
<1>1. phase'[c] = p /\ \A d \in Conns : d # c => phase'[d] = phase[d]
  BY DEF TypeOK, Goto
<1>2. InPhase(K, P)' = {d \in K : phase'[d] \in P}
  BY DEF InPhase
<1> QED BY <1>1, <1>2 DEF InPhase

LEMMA OneMore ==
  ASSUME NEW S, IsFiniteSet(S), NEW c
  PROVE  /\ IsFiniteSet(S \cup {c})
         /\ Cardinality(S \cup {c}) \in Nat
         /\ Cardinality(S) \in Nat
         /\ Cardinality(S \cup {c}) <= Cardinality(S) + 1
         /\ c \notin S => Cardinality(S \cup {c}) = Cardinality(S) + 1
<1>1. Cardinality(S) \in Nat
  BY FS_CardinalityType
<1>2. Cardinality(S \cup {c}) = IF c \in S THEN Cardinality(S) ELSE Cardinality(S) + 1
  BY FS_AddElement
<1>3. IsFiniteSet(S \cup {c})
  BY FS_AddElement
<1> QED BY <1>1, <1>2, <1>3

LEMMA OneLess ==
  ASSUME NEW S, IsFiniteSet(S), NEW c
  PROVE  /\ IsFiniteSet(S \ {c})
         /\ Cardinality(S \ {c}) \in Nat
         /\ Cardinality(S) \in Nat
         /\ Cardinality(S \ {c}) <= Cardinality(S)
         /\ c \in S => Cardinality(S \ {c}) = Cardinality(S) - 1
         /\ c \in S => Cardinality(S) > 0
<1>1. Cardinality(S) \in Nat
  BY FS_CardinalityType
<1>2. IsFiniteSet(S \ {c})
  BY FS_RemoveElement
<1>3. Cardinality(S \ {c}) = IF c \in S THEN Cardinality(S) - 1 ELSE Cardinality(S)
  BY FS_RemoveElement
<1>4. Cardinality(S \ {c}) \in Nat
  BY <1>2, FS_CardinalityType
<1> QED BY <1>1, <1>2, <1>3, <1>4

\* The admitted keep within the total, unless the step admits one itself.
LEMMA TotalUnlessAdmitting ==
  ASSUME TypeOK, TotalExact, NEW c \in Conns, NEW p \in Phases, Goto(c, p),
         p \notin AdmittedPhases \/ phase[c] \in AdmittedPhases,
         connectionNum' \in Nat, connectionNum' >= connectionNum
  PROVE  TotalExact'
<1>1. Admitted' = InPhase(Conns, AdmittedPhases)'
  BY DEF Admitted, InPhase, AdmittedPhases
<1>2. Admitted' = Admitted \/ Admitted' = Admitted \ {c}
  <2>1. CASE p \in AdmittedPhases
    <3>1. Admitted' = Admitted \cup {c}
      BY <1>1, <2>1, MoveChanges, SetsByPhase
    <3>2. c \in Admitted
      BY <2>1 DEF Admitted, AdmittedPhases
    <3> QED BY <3>1, <3>2
  <2>2. CASE p \notin AdmittedPhases
    BY <1>1, <2>2, MoveChanges, SetsByPhase
  <2> QED BY <2>1, <2>2
<1>3. /\ IsFiniteSet(Admitted')
      /\ Cardinality(Admitted') \in Nat /\ Cardinality(Admitted) \in Nat
      /\ Cardinality(Admitted') <= Cardinality(Admitted)
  BY <1>2, OneLess, FS_CardinalityType DEF TotalExact
<1>4. connectionNum \in Nat /\ MaxConn \in Nat
  BY LimitAssumption DEF TypeOK
<1> QED BY <1>3, <1>4 DEF TotalExact

\* The sets of an address after a move.
LEMMA AddressSetsAfter ==
  ASSUME TypeOK, NEW c \in Conns, NEW p \in Phases, Goto(c, p), NEW ip \in Ips
  PROVE  /\ Counted(ip)' = IF c \in From(ip) /\ p \in CountedPhases
                           THEN Counted(ip) \cup {c} ELSE Counted(ip) \ {c}
         /\ LetIn(ip)' = IF c \in From(ip) /\ p \in LetInPhases
                         THEN LetIn(ip) \cup {c} ELSE LetIn(ip) \ {c}
<1>1. From(ip) \subseteq Conns
  BY DEF From
<1>2. Counted(ip)' = InPhase(From(ip), CountedPhases)'
  BY DEF Counted, InPhase, CountedPhases, From
<1> QED BY <1>1, <1>2, MoveChanges, SetsByPhase DEF LetIn

\* The count of an address stays exact when a connection moves that neither adds to it
\* nor takes off it.
LEMMA AddressUnlessCounting ==
  ASSUME TypeOK, NEW c \in Conns, NEW p \in Phases, Goto(c, p),
         UNCHANGED ipConnections,
         phase[c] \in CountedPhases <=> p \in CountedPhases,
         NEW ip \in Ips, AddressExact(ip)
  PROVE  AddressExact(ip)'
<1>1. Counted(ip)' = IF c \in From(ip) /\ p \in CountedPhases
                     THEN Counted(ip) \cup {c} ELSE Counted(ip) \ {c}
  BY AddressSetsAfter
<1>2. c \in Counted(ip) <=> c \in From(ip) /\ phase[c] \in CountedPhases
  BY DEF Counted, From, CountedPhases
<1>3. Counted(ip)' = Counted(ip)
  BY <1>1, <1>2
<1> QED BY <1>3 DEF AddressExact

-----------------------------------------------------------------------------
(* The steps. *)

LEMMA InitEstablishes == Init => LimitInv
<1> SUFFICES ASSUME Init PROVE LimitInv
  OBVIOUS
<1>1. Admitted = {} /\ \A ip \in Ips : Counted(ip) = {} /\ LetIn(ip) = {}
  BY DEF Init, Admitted, Counted, LetIn, InPhase, LetInPhases, From
<1>2. IsFiniteSet({}) /\ Cardinality({}) = 0
  BY FS_EmptySet
<1>3. TypeOK
  BY DEF Init, TypeOK, Phases
<1>4. TotalExact
  BY <1>1, <1>2, LimitAssumption DEF Init, TotalExact
<1>5. \A ip \in Ips : AddressExact(ip)
  BY <1>1, <1>2, LimitAssumption DEF Init, AddressExact
<1>6. ASSUME NEW ip \in Ips PROVE InCreditBy(ip, {}, 0)
  <2>1. Leaving({}) = {} /\ Counted(ip) \ {} = {}
    BY <1>1 DEF Leaving, InPhase
  <2> QED BY <1>1, <1>2, <2>1, LimitAssumption DEF Init, InCreditBy, Weight
<1>7. \A ip \in Ips : InCredit(ip)
  BY <1>6 DEF InCredit
<1> QED BY <1>3, <1>4, <1>5, <1>7 DEF LimitInv

LEMMA TypePreserved ==
  ASSUME TypeOK, [Next]_vars
  PROVE  TypeOK' /\ connectionNum' >= connectionNum
<1> USE LimitAssumption DEF TypeOK, Goto, Phases
<1>1. CASE UNCHANGED vars
  BY <1>1 DEF vars
<1>2. ASSUME NEW c \in Conns, Accept(c) \/ Abandon(c) \/ Connected(c) \/ Advise(c)
      PROVE  TypeOK' /\ connectionNum' >= connectionNum
  BY <1>2 DEF Accept, Abandon, Connected, Advise
<1>3. ASSUME NEW c \in Conns, CountTotal(c)
      PROVE  TypeOK' /\ connectionNum' >= connectionNum
  BY <1>3 DEF CountTotal, AfterTotal
<1>4. ASSUME NEW c \in Conns, CountIp(c)
      PROVE  TypeOK' /\ connectionNum' >= connectionNum
  BY <1>4 DEF CountIp
<1>5. ASSUME NEW c \in Conns, Disconnect(c)
      PROVE  TypeOK' /\ connectionNum' >= connectionNum
  BY <1>5 DEF Disconnect
<1>6. ASSUME NEW c \in Conns, ReleaseIp(c)
      PROVE  TypeOK' /\ connectionNum' >= connectionNum
  BY <1>6 DEF ReleaseIp
<1> QED BY <1>1, <1>2, <1>3, <1>4, <1>5, <1>6 DEF Next

\* At most one more than the maximum passes: the test is made on the old value.
LEMMA TotalPreserved ==
  ASSUME LimitInv, [Next]_vars
  PROVE  TotalExact'
<1> USE DEF LimitInv
<1>0. connectionNum' \in Nat /\ connectionNum' >= connectionNum /\ connectionNum \in Nat
  BY TypePreserved DEF TypeOK
<1>1. CASE UNCHANGED vars
  BY <1>1 DEF vars, TotalExact, Admitted
<1>2. ASSUME NEW c \in Conns, Accept(c) PROVE TotalExact'
  BY <1>2, <1>0, TotalUnlessAdmitting DEF Accept, Phases, AdmittedPhases
<1>3. ASSUME NEW c \in Conns, Abandon(c) PROVE TotalExact'
  BY <1>3, <1>0, TotalUnlessAdmitting DEF Abandon, Phases, AdmittedPhases
<1>4. ASSUME NEW c \in Conns, Connected(c) PROVE TotalExact'
  BY <1>4, <1>0, TotalUnlessAdmitting DEF Connected, Phases, AdmittedPhases
<1>5. ASSUME NEW c \in Conns, CountTotal(c) PROVE TotalExact'
  <2>1. CASE connectionNum > MaxConn
    <3>1. Goto(c, "rejected")
      BY <1>5, <2>1 DEF CountTotal
    <3> QED BY <3>1, <1>0, TotalUnlessAdmitting DEF Phases, AdmittedPhases
  <2>2. CASE connectionNum <= MaxConn
    <3>1. Goto(c, AfterTotal) /\ connectionNum' = connectionNum + 1
      BY <1>5, <2>2, <1>0, LimitAssumption DEF CountTotal
    <3>2. AfterTotal \in AdmittedPhases /\ AfterTotal \in Phases
      BY DEF AfterTotal, AdmittedPhases, Phases
    <3>3. Admitted' = Admitted \cup {c}
      <4>1. Admitted' = InPhase(Conns, AdmittedPhases)'
        BY DEF Admitted, InPhase, AdmittedPhases
      <4> QED BY <4>1, <3>1, <3>2, MoveChanges, SetsByPhase
    <3>4. IsFiniteSet(Admitted) /\ Cardinality(Admitted) <= connectionNum
      BY DEF TotalExact
    <3>5. /\ IsFiniteSet(Admitted') /\ Cardinality(Admitted') \in Nat
          /\ Cardinality(Admitted) \in Nat
          /\ Cardinality(Admitted') <= Cardinality(Admitted) + 1
      BY <3>3, <3>4, OneMore
    <3> QED BY <3>1, <3>4, <3>5, <2>2, <1>0, LimitAssumption DEF TotalExact
  <2> QED BY <2>1, <2>2, <1>0, LimitAssumption
<1>6. ASSUME NEW c \in Conns, CountIp(c) PROVE TotalExact'
  <2> DEFINE p == IF ipConnections[IpOf[c]] + 1 > MaxPerIp THEN "rejected" ELSE "advice"
  <2>1. Goto(c, p) /\ p \in Phases /\ phase[c] \in AdmittedPhases
    BY <1>6 DEF CountIp, Phases, AdmittedPhases
  <2> QED BY <2>1, <1>0, TotalUnlessAdmitting
<1>7. ASSUME NEW c \in Conns, Advise(c) PROVE TotalExact'
  <2>1. PICK p \in {"open", "rejected"} : Goto(c, p)
    BY <1>7 DEF Advise
  <2>2. p \in Phases /\ phase[c] \in AdmittedPhases
    BY <1>7 DEF Advise, Phases, AdmittedPhases
  <2> QED BY <2>1, <2>2, <1>0, TotalUnlessAdmitting
<1>8. ASSUME NEW c \in Conns, Disconnect(c) PROVE TotalExact'
  <2>1. PICK p \in {"releasing", "none"} : Goto(c, p)
    BY <1>8 DEF Disconnect
  <2>2. p \in Phases /\ p \notin AdmittedPhases
    BY DEF Phases, AdmittedPhases
  <2> QED BY <2>1, <2>2, <1>0, TotalUnlessAdmitting
<1>9. ASSUME NEW c \in Conns, ReleaseIp(c) PROVE TotalExact'
  BY <1>9, <1>0, TotalUnlessAdmitting DEF ReleaseIp, Phases, AdmittedPhases
<1> QED BY <1>1, <1>2, <1>3, <1>4, <1>5, <1>6, <1>7, <1>8, <1>9 DEF Next

\* While the total has turned nobody away, an address has exactly its connections counted.
LEMMA AddressPreserved ==
  ASSUME LimitInv, [Next]_vars, BelowTotal', NEW ip \in Ips
  PROVE  AddressExact(ip)'
<1>0. /\ connectionNum' \in Nat /\ connectionNum' >= connectionNum /\ connectionNum \in Nat
      /\ TypeOK
  BY TypePreserved DEF TypeOK, LimitInv
<1>a. MaxPerIp > 0 /\ connectionNum <= MaxConn + 1 /\ MaxPerIp \in Nat /\ MaxConn \in Nat
  BY <1>0, LimitAssumption DEF BelowTotal
<1>b. AddressExact(ip)
  BY <1>a DEF LimitInv, BelowTotal
<1>1. CASE UNCHANGED vars
  BY <1>1, <1>b DEF vars, AddressExact, Counted
<1> USE DEF Phases, CountedPhases
<1>2. ASSUME NEW c \in Conns, Accept(c) PROVE AddressExact(ip)'
  BY <1>2, <1>0, <1>b, AddressUnlessCounting DEF Accept
<1>3. ASSUME NEW c \in Conns, Abandon(c) PROVE AddressExact(ip)'
  BY <1>3, <1>0, <1>b, AddressUnlessCounting DEF Abandon
<1>4. ASSUME NEW c \in Conns, Connected(c) PROVE AddressExact(ip)'
  BY <1>4, <1>0, <1>b, AddressUnlessCounting DEF Connected
<1>5. ASSUME NEW c \in Conns, CountTotal(c) PROVE AddressExact(ip)'
  <2>1. connectionNum' = connectionNum + 1 /\ connectionNum' <= MaxConn + 1
    BY <1>5 DEF CountTotal, BelowTotal
  <2>2. ~ (connectionNum > MaxConn)
    BY <2>1, <1>0, <1>a
  <2>3. Goto(c, "checkIp") /\ phase[c] = "connected" /\ UNCHANGED ipConnections
    BY <1>5, <1>a, <2>2 DEF CountTotal, AfterTotal
  <2> QED BY <2>3, <1>0, <1>b, AddressUnlessCounting
<1>6. ASSUME NEW c \in Conns, CountIp(c) PROVE AddressExact(ip)'
  <2> DEFINE n == ipConnections[IpOf[c]] + 1
             p == IF n > MaxPerIp THEN "rejected" ELSE "advice"
  <2>1. /\ Goto(c, p) /\ p \in Phases /\ p \in CountedPhases /\ phase[c] = "checkIp"
        /\ ipConnections' = [ipConnections EXCEPT ![IpOf[c]] = n]
    BY <1>6 DEF CountIp
  <2>2. Counted(ip)' = IF c \in From(ip) THEN Counted(ip) \cup {c} ELSE Counted(ip) \ {c}
    BY <2>1, <1>0, AddressSetsAfter
  <2>3. c \notin Counted(ip)
    BY <2>1 DEF Counted
  <2>4. CASE c \in From(ip)
    <3>1. ipConnections'[ip] = ipConnections[ip] + 1
      BY <2>1, <2>4, <1>0 DEF From, TypeOK
    <3>2. IsFiniteSet(Counted(ip)') /\ Cardinality(Counted(ip)') = Cardinality(Counted(ip)) + 1
      BY <2>2, <2>3, <2>4, <1>b, OneMore DEF AddressExact
    <3> QED BY <3>1, <3>2, <1>b DEF AddressExact
  <2>5. CASE c \notin From(ip)
    <3>1. Counted(ip)' = Counted(ip)
      BY <2>2, <2>3, <2>5
    <3>2. ipConnections'[ip] = ipConnections[ip]
      BY <2>1, <2>5, <1>0 DEF From, TypeOK
    <3> QED BY <3>1, <3>2, <1>b DEF AddressExact
  <2> QED BY <2>4, <2>5
<1>7. ASSUME NEW c \in Conns, Advise(c) PROVE AddressExact(ip)'
  BY <1>7, <1>0, <1>b, AddressUnlessCounting DEF Advise
<1>8. ASSUME NEW c \in Conns, Disconnect(c) PROVE AddressExact(ip)'
  <2>1. Goto(c, "releasing") /\ phase[c] \in {"open", "rejected"} /\ UNCHANGED ipConnections
    BY <1>8, <1>a DEF Disconnect
  <2> QED BY <2>1, <1>0, <1>b, AddressUnlessCounting
<1>9. ASSUME NEW c \in Conns, ReleaseIp(c) PROVE AddressExact(ip)'
  <2>1. Goto(c, "none") /\ phase[c] = "releasing"
    BY <1>9 DEF ReleaseIp
  <2>2. Counted(ip)' = Counted(ip) \ {c}
    BY <2>1, <1>0, AddressSetsAfter
  <2>3. CASE c \in From(ip)
    <3>1. c \in Counted(ip) /\ IpOf[c] = ip
      BY <2>1, <2>3 DEF Counted, From
    <3>2. /\ IsFiniteSet(Counted(ip)') /\ Cardinality(Counted(ip)) > 0
          /\ Cardinality(Counted(ip)') = Cardinality(Counted(ip)) - 1
      BY <2>2, <3>1, <1>b, OneLess DEF AddressExact
    <3>3. ipConnections'[ip] = ipConnections[ip] - 1
      BY <1>9, <3>1, <3>2, <1>0, <1>b DEF ReleaseIp, TypeOK, AddressExact
    <3> QED BY <3>2, <3>3, <1>b DEF AddressExact
  <2>4. CASE c \notin From(ip)
    <3>1. Counted(ip)' = Counted(ip)
      BY <2>2, <2>4 DEF Counted, From
    <3>2. ipConnections'[ip] = ipConnections[ip]
      BY <1>9, <2>4, <1>0 DEF ReleaseIp, From, TypeOK
    <3> QED BY <3>1, <3>2, <1>b DEF AddressExact
  <2> QED BY <2>3, <2>4
<1> QED BY <1>1, <1>2, <1>3, <1>4, <1>5, <1>6, <1>7, <1>8, <1>9 DEF Next

-----------------------------------------------------------------------------
(* The credit of an address. *)

\* What follows from InCreditBy for its numbers.
CreditKnown(ip, U, credit) ==
  /\ IsFiniteSet(Counted(ip)) /\ IsFiniteSet(Counted(ip) \ U)
  /\ IsFiniteSet(U) /\ IsFiniteSet(Leaving(U)) /\ IsFiniteSet(LetIn(ip))
  /\ Cardinality(Counted(ip) \ U) \in Nat /\ Cardinality(LetIn(ip)) \in Nat
  /\ Cardinality(U) \in Nat /\ Cardinality(Leaving(U)) \in Nat
  /\ Cardinality(LetIn(ip)) <= Cardinality(Counted(ip) \ U)
  /\ ipConnections[ip] \in Nat /\ connectionNum \in Nat
  /\ MaxConn \in Nat /\ MaxPerIp \in Nat
  /\ Weight(U, credit) \in Nat
  /\ Cardinality(Counted(ip) \ U) <= ipConnections[ip] + credit
  /\ Cardinality(LetIn(ip)) <= MaxPerIp + credit
  /\ Weight(U, credit) = 0 \/ Weight(U, credit) <= connectionNum - (MaxConn + 1)

LEMMA CreditNumbers ==
  ASSUME TypeOK, NEW ip \in Ips, NEW U \in SUBSET Conns, NEW credit \in Nat,
         InCreditBy(ip, U, credit)
  PROVE  CreditKnown(ip, U, credit)
<1>1. U \subseteq Counted(ip) /\ Leaving(U) \subseteq U /\ LetIn(ip) \subseteq Counted(ip) \ U
  BY DEF InCreditBy, Refused, RefusedPhases, InPhase, From, Counted, Leaving, LetIn, LetInPhases
<1>2. IsFiniteSet(U) /\ IsFiniteSet(Counted(ip) \ U)
  BY <1>1, FS_Subset DEF InCreditBy
<1>3. IsFiniteSet(Leaving(U)) /\ IsFiniteSet(LetIn(ip))
      /\ Cardinality(LetIn(ip)) <= Cardinality(Counted(ip) \ U)
  BY <1>1, <1>2, FS_Subset
<1>4. /\ Cardinality(Counted(ip) \ U) \in Nat /\ Cardinality(LetIn(ip)) \in Nat
      /\ Cardinality(U) \in Nat /\ Cardinality(Leaving(U)) \in Nat
  BY <1>2, <1>3, FS_CardinalityType
<1>5. Weight(U, credit) \in Nat
  BY <1>4 DEF Weight
<1>6. ipConnections[ip] \in Nat /\ connectionNum \in Nat
  BY DEF TypeOK
<1> QED BY <1>2, <1>3, <1>4, <1>5, <1>6, LimitAssumption DEF InCreditBy, CreditKnown

\* A connection moves that neither adds to the count nor takes off it, and has not been
\* turned away by the total.
LEMMA CreditUnlessCounting ==
  ASSUME TypeOK, NEW ip \in Ips, NEW U \in SUBSET Conns, NEW credit \in Nat,
         InCreditBy(ip, U, credit),
         NEW c \in Conns, NEW p \in Phases, Goto(c, p), c \notin U,
         UNCHANGED ipConnections, connectionNum' \in Nat, connectionNum' >= connectionNum,
         phase[c] \in CountedPhases <=> p \in CountedPhases,
         p \in LetInPhases => phase[c] \in LetInPhases
  PROVE  InCreditBy(ip, U, credit)'
<1>0. CreditKnown(ip, U, credit)
  BY CreditNumbers
<1>1. Counted(ip)' = Counted(ip)
  <2>1. Counted(ip)' = IF c \in From(ip) /\ p \in CountedPhases
                       THEN Counted(ip) \cup {c} ELSE Counted(ip) \ {c}
    BY AddressSetsAfter
  <2>2. c \in Counted(ip) <=> c \in From(ip) /\ phase[c] \in CountedPhases
    BY DEF Counted, From, CountedPhases
  <2> QED BY <2>1, <2>2
<1>2. LetIn(ip)' = LetIn(ip) \/ LetIn(ip)' = LetIn(ip) \ {c}
  <2>1. LetIn(ip)' = IF c \in From(ip) /\ p \in LetInPhases
                     THEN LetIn(ip) \cup {c} ELSE LetIn(ip) \ {c}
    BY AddressSetsAfter
  <2>2. c \in LetIn(ip) <=> c \in From(ip) /\ phase[c] \in LetInPhases
    BY DEF LetIn, InPhase
  <2> QED BY <2>1, <2>2
<1>3. U \subseteq Refused(ip)' /\ Leaving(U)' = Leaving(U)
  <2>1. \A d \in U : phase'[d] = phase[d] /\ d \in From(ip)
    BY DEF Goto, TypeOK, InCreditBy, Refused, InPhase, From
  <2> QED BY <2>1 DEF InCreditBy, Refused, InPhase, Leaving, From
<1>4. Cardinality(LetIn(ip)') <= MaxPerIp + credit
  <2>1. /\ Cardinality(LetIn(ip)') <= Cardinality(LetIn(ip)) /\ Cardinality(LetIn(ip)') \in Nat
        /\ Cardinality(LetIn(ip)) \in Nat
    <3>1. IsFiniteSet(LetIn(ip))
      BY <1>0 DEF CreditKnown
    <3>2. CASE LetIn(ip)' = LetIn(ip)
      BY <3>1, <3>2, FS_CardinalityType
    <3>3. CASE LetIn(ip)' = LetIn(ip) \ {c}
      BY <3>1, <3>3, OneLess
    <3> QED BY <1>2, <3>2, <3>3
  <2> QED BY <2>1, <1>0 DEF CreditKnown
<1>5. Weight(U, credit)' = Weight(U, credit)
  BY <1>3 DEF Weight
<1>6. Weight(U, credit) = 0 \/ Weight(U, credit) <= connectionNum' - (MaxConn + 1)
  BY <1>0 DEF CreditKnown
<1>7. IsFiniteSet(Counted(ip)) /\ Cardinality(Counted(ip) \ U) <= ipConnections[ip] + credit
  BY DEF InCreditBy
<1> QED BY <1>1, <1>3, <1>4, <1>5, <1>6, <1>7 DEF InCreditBy

\* The total turns one away: nothing is added to its address.
LEMMA RefusalKeepsCredit ==
  ASSUME TypeOK, NEW ip \in Ips, NEW U \in SUBSET Conns, NEW credit \in Nat,
         InCreditBy(ip, U, credit), NEW c \in From(ip),
         phase[c] = "connected", Goto(c, "rejected"), UNCHANGED ipConnections,
         connectionNum' = connectionNum + 1, connectionNum > MaxConn
  PROVE  InCreditBy(ip, U \cup {c}, credit)'
<1>0. CreditKnown(ip, U, credit)
  BY CreditNumbers
<1>1. c \in Conns /\ "rejected" \in Phases /\ c \notin U /\ c \notin Counted(ip)
  BY DEF From, Phases, InCreditBy, Refused, RefusedPhases, InPhase, Counted
<1>2. Counted(ip)' = Counted(ip) \cup {c} /\ LetIn(ip)' = LetIn(ip) \ {c} /\ c \notin LetIn(ip)
  BY <1>1, AddressSetsAfter DEF CountedPhases, LetInPhases, LetIn, InPhase
<1>3. Counted(ip)' \ (U \cup {c}) = Counted(ip) \ U /\ LetIn(ip)' = LetIn(ip)
  BY <1>1, <1>2
<1>4. \A d \in U : phase'[d] = phase[d]
  BY <1>1 DEF Goto, TypeOK
<1>5. phase'[c] = "rejected"
  BY <1>1 DEF Goto, TypeOK
<1>6. (U \cup {c}) \subseteq Refused(ip)'
  BY <1>4, <1>5 DEF InCreditBy, Refused, RefusedPhases, InPhase, From
<1>7. Leaving(U \cup {c})' = Leaving(U)
  BY <1>4, <1>5 DEF Leaving, InPhase
<1>8. Cardinality(U \cup {c}) = Cardinality(U) + 1
  BY <1>1, <1>0, OneMore DEF CreditKnown
<1>9. Weight(U \cup {c}, credit)' = Weight(U, credit) + 1
  BY <1>7, <1>8, <1>0 DEF Weight, CreditKnown
<1>10. Weight(U, credit) + 1 <= connectionNum' - (MaxConn + 1)
  BY <1>0 DEF CreditKnown
<1>11. IsFiniteSet(Counted(ip)')
  BY <1>2, OneMore DEF InCreditBy
<1> QED BY <1>3, <1>6, <1>9, <1>10, <1>11 DEF InCreditBy

\* A connection is counted at its address, and let in while the count allows it.
LEMMA CountingKeepsCredit ==
  ASSUME TypeOK, NEW ip \in Ips, NEW U \in SUBSET Conns, NEW credit \in Nat,
         InCreditBy(ip, U, credit), NEW c \in From(ip), CountIp(c)
  PROVE  InCreditBy(ip, U, credit)'
<1>0. CreditKnown(ip, U, credit)
  BY CreditNumbers
<1> DEFINE n == ipConnections[ip] + 1
           p == IF n > MaxPerIp THEN "rejected" ELSE "advice"
<1>1. /\ c \in Conns /\ IpOf[c] = ip /\ Goto(c, p) /\ phase[c] = "checkIp"
      /\ ipConnections'[ip] = n /\ connectionNum' = connectionNum
  BY DEF CountIp, From, TypeOK
<1>2. p \in Phases /\ p \in CountedPhases /\ (p \in LetInPhases => n <= MaxPerIp)
  BY <1>0 DEF Phases, CountedPhases, LetInPhases, CreditKnown
<1> HIDE DEF n, p
<1>3. c \notin U /\ c \notin Counted(ip) /\ c \notin LetIn(ip)
  BY <1>1 DEF InCreditBy, Refused, RefusedPhases, InPhase, Counted, LetIn, LetInPhases
<1>4. Counted(ip)' = Counted(ip) \cup {c}
  BY <1>1, <1>2, AddressSetsAfter
<1>5. LetIn(ip)' = IF p \in LetInPhases THEN LetIn(ip) \cup {c} ELSE LetIn(ip) \ {c}
  BY <1>1, <1>2, AddressSetsAfter
<1>6. /\ Counted(ip)' \ U = (Counted(ip) \ U) \cup {c} /\ c \notin Counted(ip) \ U
      /\ IsFiniteSet(Counted(ip)')
  BY <1>3, <1>4, OneMore DEF InCreditBy
<1>7. Cardinality(Counted(ip)' \ U) = Cardinality(Counted(ip) \ U) + 1
  BY <1>6, <1>0, OneMore DEF CreditKnown
<1>8. Cardinality(Counted(ip)' \ U) <= ipConnections'[ip] + credit
  BY <1>1, <1>7, <1>0 DEF CreditKnown, n
<1>9. Cardinality(LetIn(ip)') <= MaxPerIp + credit
  <2>1. CASE p \in LetInPhases
    <3>1. Cardinality(LetIn(ip)') <= Cardinality(LetIn(ip)) + 1 /\ Cardinality(LetIn(ip)') \in Nat
      BY <1>5, <2>1, <1>0, OneMore DEF CreditKnown
    <3> QED BY <1>1, <1>2, <1>7, <1>8, <2>1, <3>1, <1>0 DEF n, CreditKnown
  <2>2. CASE p \notin LetInPhases
    <3>1. LetIn(ip)' = LetIn(ip)
      BY <1>3, <1>5, <2>2
    <3> QED BY <3>1 DEF InCreditBy
  <2> QED BY <2>1, <2>2
<1>10. \A d \in U : phase'[d] = phase[d]
  BY <1>1, <1>3 DEF Goto, TypeOK
<1>11. U \subseteq Refused(ip)' /\ Leaving(U)' = Leaving(U)
  BY <1>10 DEF InCreditBy, Refused, InPhase, Leaving, From
<1>12. Weight(U, credit)' = Weight(U, credit)
  BY <1>11 DEF Weight
<1> QED BY <1>1, <1>6, <1>8, <1>9, <1>11, <1>12 DEF InCreditBy

\* One that the total turned away goes, and counts in the total again ...
LEMMA GoingKeepsCredit ==
  ASSUME TypeOK, NEW ip \in Ips, NEW U \in SUBSET Conns, NEW credit \in Nat,
         InCreditBy(ip, U, credit), NEW c \in U, phase[c] = "rejected",
         Goto(c, "releasing"), UNCHANGED ipConnections, connectionNum' = connectionNum + 1
  PROVE  InCreditBy(ip, U, credit)'
<1>0. CreditKnown(ip, U, credit)
  BY CreditNumbers
<1>1. "releasing" \in Phases /\ c \in Conns /\ c \in Counted(ip) /\ c \notin LetIn(ip)
      /\ c \in From(ip)
  BY DEF Phases, InCreditBy, Refused, InPhase, From, Counted, LetIn, LetInPhases
<1>2. Counted(ip)' = Counted(ip) /\ LetIn(ip)' = LetIn(ip)
  <2>1. Counted(ip)' = Counted(ip) \cup {c} /\ LetIn(ip)' = LetIn(ip) \ {c}
    BY <1>1, AddressSetsAfter DEF CountedPhases, LetInPhases
  <2> QED BY <1>1, <2>1
<1>3. phase'[c] = "releasing" /\ \A d \in U \ {c} : phase'[d] = phase[d]
  BY <1>1 DEF Goto, TypeOK
<1>4. U \subseteq Refused(ip)'
  BY <1>1, <1>3 DEF InCreditBy, Refused, RefusedPhases, InPhase, From
<1>5. Leaving(U)' = Leaving(U) \cup {c} /\ c \notin Leaving(U)
  BY <1>3 DEF Leaving, InPhase
<1>6. Cardinality(Leaving(U)') = Cardinality(Leaving(U)) + 1
  BY <1>5, <1>0, OneMore DEF CreditKnown
<1>7. Cardinality(U) > 0
  BY <1>0, OneLess DEF CreditKnown
<1>8. Weight(U, credit)' = Weight(U, credit) + 1 /\ Weight(U, credit) # 0
  BY <1>6, <1>7, <1>0 DEF Weight, CreditKnown
<1>9. Weight(U, credit) + 1 <= connectionNum' - (MaxConn + 1)
  BY <1>8, <1>0 DEF CreditKnown
<1> QED BY <1>2, <1>4, <1>8, <1>9 DEF InCreditBy

\* ... and takes off the count of its address what it never added.
LEMMA GoneGivesCredit ==
  ASSUME TypeOK, NEW ip \in Ips, NEW U \in SUBSET Conns, NEW credit \in Nat,
         InCreditBy(ip, U, credit), NEW c \in From(ip), ReleaseIp(c)
  PROVE  IF c \in U THEN InCreditBy(ip, U \ {c}, credit + 1)' ELSE InCreditBy(ip, U, credit)'
<1>0. CreditKnown(ip, U, credit)
  BY CreditNumbers
<1>1. /\ c \in Conns /\ IpOf[c] = ip /\ phase[c] = "releasing" /\ Goto(c, "none")
      /\ ipConnections'[ip] = IF ipConnections[ip] > 0 THEN ipConnections[ip] - 1 ELSE 0
      /\ connectionNum' = connectionNum
  BY DEF ReleaseIp, From, TypeOK
<1>2. /\ "none" \in Phases /\ c \in Counted(ip) /\ c \notin LetIn(ip)
  BY <1>1 DEF Phases, Counted, LetIn, InPhase, LetInPhases
<1>3. Counted(ip)' = Counted(ip) \ {c} /\ LetIn(ip)' = LetIn(ip)
  <2>1. Counted(ip)' = Counted(ip) \ {c} /\ LetIn(ip)' = LetIn(ip) \ {c}
    BY <1>1, <1>2, AddressSetsAfter DEF CountedPhases, LetInPhases
  <2> QED BY <1>2, <2>1
<1>4. \A d \in U \ {c} : phase'[d] = phase[d]
  BY <1>1 DEF Goto, TypeOK
<1>5. IsFiniteSet(Counted(ip)')
  BY <1>3, OneLess DEF InCreditBy
<1>6. (U \ {c}) \subseteq Refused(ip)'
  BY <1>4 DEF InCreditBy, Refused, InPhase, From
<1>7. CASE c \in U
  <2>1. Counted(ip)' \ (U \ {c}) = Counted(ip) \ U
    BY <1>3, <1>7
  <2>2. c \in Leaving(U) /\ Leaving(U \ {c})' = Leaving(U) \ {c}
    BY <1>1, <1>4, <1>7 DEF Leaving, InPhase
  <2>3. /\ Cardinality(U \ {c}) = Cardinality(U) - 1
        /\ Cardinality(Leaving(U \ {c})') = Cardinality(Leaving(U)) - 1
    BY <1>7, <2>2, <1>0, OneLess DEF CreditKnown
  <2>4. Weight(U \ {c}, credit + 1)' = Weight(U, credit)
    BY <2>3, <1>0 DEF Weight, CreditKnown
  <2>5. Cardinality(Counted(ip)' \ (U \ {c})) <= ipConnections'[ip] + (credit + 1)
    <3>1. ipConnections'[ip] + 1 >= ipConnections[ip] /\ ipConnections'[ip] \in Nat
      BY <1>1, <1>0 DEF CreditKnown
    <3>2. Cardinality(Counted(ip) \ U) <= ipConnections[ip] + credit
      BY <1>0 DEF CreditKnown
    <3>3. Cardinality(Counted(ip) \ U) \in Nat /\ ipConnections[ip] \in Nat
      BY <1>0 DEF CreditKnown
    <3>4. ASSUME NEW a \in Nat, NEW b \in Nat, NEW d \in Nat, a <= b + credit, d + 1 >= b
          PROVE  a <= d + (credit + 1)
      BY <3>4
    <3>5. Cardinality(Counted(ip) \ U) <= ipConnections'[ip] + (credit + 1)
      BY <3>1, <3>2, <3>3, <3>4
    <3> QED BY <2>1, <3>5
  <2>6. Cardinality(LetIn(ip)') <= MaxPerIp + (credit + 1)
    BY <1>3, <1>0 DEF CreditKnown
  <2> QED BY <1>1, <1>5, <1>6, <1>7, <2>4, <2>5, <2>6 DEF InCreditBy
<1>8. CASE c \notin U
  <2>1. Counted(ip)' \ U = (Counted(ip) \ U) \ {c} /\ c \in Counted(ip) \ U /\ U \ {c} = U
    BY <1>2, <1>3, <1>8
  <2>2. /\ Cardinality(Counted(ip)' \ U) = Cardinality(Counted(ip) \ U) - 1
    BY <2>1, <1>0, OneLess DEF CreditKnown
  <2>3. Cardinality(Counted(ip)' \ U) <= ipConnections'[ip] + credit
    BY <1>1, <2>2, <1>0 DEF CreditKnown
  <2>4. Leaving(U)' = Leaving(U)
    BY <1>4, <2>1 DEF Leaving, InPhase
  <2>5. Weight(U, credit)' = Weight(U, credit)
    BY <2>4 DEF Weight
  <2> QED BY <1>1, <1>3, <1>5, <1>6, <1>8, <2>1, <2>3, <2>5 DEF InCreditBy
<1> QED BY <1>7, <1>8

\* A step at another address leaves the credit as it is.
LEMMA CreditElsewhere ==
  ASSUME TypeOK, NEW ip \in Ips, NEW U \in SUBSET Conns, NEW credit \in Nat,
         InCreditBy(ip, U, credit), NEW c \in Conns, c \notin From(ip), NEW p, Goto(c, p),
         ipConnections'[ip] = ipConnections[ip],
         connectionNum' \in Nat, connectionNum' >= connectionNum
  PROVE  InCreditBy(ip, U, credit)'
<1>0. CreditKnown(ip, U, credit)
  BY CreditNumbers
<1>1. \A d \in From(ip) : phase'[d] = phase[d]
  BY DEF From, Goto, TypeOK
<1>2. U \subseteq From(ip)
  BY DEF InCreditBy, Refused, InPhase
<1>3. /\ Counted(ip)' = Counted(ip) /\ LetIn(ip)' = LetIn(ip) /\ Refused(ip)' = Refused(ip)
      /\ Leaving(U)' = Leaving(U)
  BY <1>1, <1>2 DEF Counted, LetIn, Refused, Leaving, InPhase, From
<1>4. Weight(U, credit)' = Weight(U, credit)
  BY <1>3 DEF Weight
<1>5. Weight(U, credit) = 0 \/ Weight(U, credit) <= connectionNum' - (MaxConn + 1)
  BY <1>0 DEF CreditKnown
<1>6. /\ U \subseteq Refused(ip) /\ IsFiniteSet(Counted(ip))
      /\ Cardinality(Counted(ip) \ U) <= ipConnections[ip] + credit
      /\ Cardinality(LetIn(ip)) <= MaxPerIp + credit
  BY DEF InCreditBy
<1> QED BY <1>3, <1>4, <1>5, <1>6 DEF InCreditBy

LEMMA CreditPreserved ==
  ASSUME TypeOK, [Next]_vars, MaxPerIp > 0, NEW ip \in Ips, InCredit(ip)
  PROVE  InCredit(ip)'
<1>0. /\ connectionNum' \in Nat /\ connectionNum' >= connectionNum /\ connectionNum \in Nat
      /\ MaxConn \in Nat
  BY TypePreserved, LimitAssumption DEF TypeOK
<1>1. PICK U \in SUBSET Conns, credit \in Nat : InCreditBy(ip, U, credit)
  BY DEF InCredit
<1>2. CASE UNCHANGED vars
  BY <1>1, <1>2 DEF vars, InCredit, InCreditBy, Refused, Counted, LetIn, InPhase, From, Weight,
     Leaving
<1> SUFFICES ASSUME NEW c \in Conns,
                    \/ Accept(c) \/ Abandon(c) \/ Connected(c) \/ CountTotal(c) \/ CountIp(c)
                    \/ Advise(c) \/ Disconnect(c) \/ ReleaseIp(c)
             PROVE  InCredit(ip)'
  BY <1>2 DEF Next
<1>3. \A d \in U : phase[d] \in {"rejected", "releasing"}
  BY <1>1 DEF InCreditBy, Refused, RefusedPhases, InPhase
<1>4. ASSUME InCreditBy(ip, U, credit)' PROVE InCredit(ip)'
  BY <1>4 DEF InCredit
<1>5. CASE Accept(c) \/ Abandon(c) \/ Connected(c) \/ Advise(c)
  <2>1. PICK p \in Phases :
          /\ Goto(c, p) /\ UNCHANGED <<connectionNum, ipConnections>>
          /\ phase[c] \in CountedPhases <=> p \in CountedPhases
          /\ p \in LetInPhases => phase[c] \in LetInPhases
    BY <1>5 DEF Accept, Abandon, Connected, Advise, Phases, CountedPhases, LetInPhases
  <2>2. c \notin U
    BY <1>3, <1>5 DEF Accept, Abandon, Connected, Advise
  <2>3. InCreditBy(ip, U, credit)'
    BY <1>0, <1>1, <2>1, <2>2, CreditUnlessCounting
  <2> QED BY <1>4, <2>3
<1>6. CASE CountTotal(c) /\ connectionNum <= MaxConn
  <2>1. Goto(c, "checkIp") /\ phase[c] = "connected" /\ UNCHANGED ipConnections
    BY <1>6, <1>0 DEF CountTotal, AfterTotal
  <2>2. InCreditBy(ip, U, credit)'
    BY <1>0, <1>1, <1>3, <2>1, CreditUnlessCounting DEF Phases, CountedPhases, LetInPhases
  <2> QED BY <1>4, <2>2
<1>7. CASE CountTotal(c) /\ connectionNum > MaxConn
  <2>1. /\ Goto(c, "rejected") /\ phase[c] = "connected" /\ UNCHANGED ipConnections
        /\ connectionNum' = connectionNum + 1
    BY <1>7 DEF CountTotal
  <2>2. CASE c \in From(ip)
    <3>1. InCreditBy(ip, U \cup {c}, credit)'
      BY <1>1, <1>7, <2>1, <2>2, RefusalKeepsCredit
    <3> QED BY <3>1 DEF InCredit
  <2>3. CASE c \notin From(ip)
    BY <1>0, <1>1, <1>4, <2>1, <2>3, CreditElsewhere
  <2> QED BY <2>2, <2>3
<1>8. CASE CountIp(c)
  <2>1. CASE c \in From(ip)
    BY <1>1, <1>4, <1>8, <2>1, CountingKeepsCredit
  <2>2. CASE c \notin From(ip)
    <3>1. PICK p : Goto(c, p)
      BY <1>8 DEF CountIp
    <3>2. ipConnections'[ip] = ipConnections[ip]
      BY <1>8, <2>2 DEF CountIp, From, TypeOK
    <3> QED BY <1>0, <1>1, <1>4, <2>2, <3>1, <3>2, CreditElsewhere
  <2> QED BY <2>1, <2>2
<1>9. CASE Disconnect(c)
  <2>1. /\ Goto(c, "releasing") /\ phase[c] \in {"open", "rejected"} /\ UNCHANGED ipConnections
        /\ connectionNum' = connectionNum + 1
    BY <1>9 DEF Disconnect
  <2>2. CASE c \in U
    <3>1. phase[c] = "rejected"
      BY <1>3, <2>1, <2>2
    <3> QED BY <1>1, <1>4, <2>1, <2>2, <3>1, GoingKeepsCredit
  <2>3. CASE c \notin U
    <3>1. InCreditBy(ip, U, credit)'
      BY <1>0, <1>1, <2>1, <2>3, CreditUnlessCounting DEF Phases, CountedPhases, LetInPhases
    <3> QED BY <1>4, <3>1
  <2> QED BY <2>2, <2>3
<1>10. CASE ReleaseIp(c)
  <2>1. CASE c \in From(ip) /\ c \in U
    <3>1. InCreditBy(ip, U \ {c}, credit + 1)' /\ credit + 1 \in Nat /\ U \ {c} \in SUBSET Conns
      BY <1>1, <1>10, <2>1, GoneGivesCredit
    <3> QED BY <3>1 DEF InCredit
  <2>2. CASE c \in From(ip) /\ c \notin U
    BY <1>1, <1>4, <1>10, <2>2, GoneGivesCredit
  <2>3. CASE c \notin From(ip)
    <3>1. Goto(c, "none") /\ ipConnections'[ip] = ipConnections[ip]
      BY <1>10, <2>3 DEF ReleaseIp, From, TypeOK
    <3> QED BY <1>0, <1>1, <1>4, <2>3, <3>1, CreditElsewhere
  <2> QED BY <2>1, <2>2, <2>3
<1> QED BY <1>0, <1>5, <1>6, <1>7, <1>8, <1>9, <1>10

LEMMA LimitStepKeeps == LimitInv /\ [Next]_vars => LimitInv'
<1> SUFFICES ASSUME LimitInv, [Next]_vars PROVE LimitInv'
  OBVIOUS
<1>1. TypeOK'
  BY TypePreserved DEF LimitInv
<1>2. TotalExact'
  BY TotalPreserved
<1>3. BelowTotal' => \A ip \in Ips : AddressExact(ip)'
  BY AddressPreserved
<1>4. MaxPerIp > 0 => \A ip \in Ips : InCredit(ip)'
  BY CreditPreserved DEF LimitInv
<1> QED BY <1>1, <1>2, <1>3, <1>4 DEF LimitInv

\* At most one connection more than the maximum is admitted.  Until one is turned away by
\* the total, each address has exactly its connections counted; from then on it has more
\* open connections than its limit by no more than the connections of it that were turned
\* away and have gone (HttpConnectionLimit::tryAddConnection and releaseConnection).
THEOREM AdmissionIsBounded == Spec => []AdmissionBounded
<1>1. Init => LimitInv
  BY InitEstablishes
<1>2. LimitInv /\ [Next]_vars => LimitInv'
  BY LimitStepKeeps
<1>3. LimitInv => AdmissionBounded
  <2> SUFFICES ASSUME LimitInv PROVE AdmissionBounded
    OBVIOUS
  <2>1. AtMostOneOver
    BY DEF LimitInv, TotalExact, AtMostOneOver
  <2>2. IpCountExact
    BY DEF LimitInv, BelowTotal, AddressExact, IpCountExact
  <2>3. ASSUME MaxPerIp > 0, NEW ip \in Ips, Cardinality(OpenFrom(ip)) > MaxPerIp
        PROVE  2 * (Cardinality(OpenFrom(ip)) - MaxPerIp) <= connectionNum - (MaxConn + 1)
    <3>1. PICK U \in SUBSET Conns, credit \in Nat : InCreditBy(ip, U, credit)
      BY <2>3 DEF LimitInv, InCredit
    <3>2. /\ IsFiniteSet(LetIn(ip)) /\ Cardinality(LetIn(ip)) \in Nat
          /\ Cardinality(U) \in Nat /\ Cardinality(Leaving(U)) \in Nat
          /\ connectionNum \in Nat /\ MaxConn \in Nat /\ MaxPerIp \in Nat
      BY <3>1, CreditNumbers DEF LimitInv, CreditKnown
    <3>3. OpenFrom(ip) \subseteq LetIn(ip)
      BY DEF OpenFrom, Open, LetIn, InPhase, From, LetInPhases
    <3>4. Cardinality(OpenFrom(ip)) <= Cardinality(LetIn(ip)) /\ Cardinality(OpenFrom(ip)) \in Nat
      BY <3>2, <3>3, FS_Subset, FS_CardinalityType
    <3>5. Cardinality(OpenFrom(ip)) - MaxPerIp <= credit /\ credit > 0
      BY <2>3, <3>1, <3>2, <3>4 DEF InCreditBy
    <3>6. Weight(U, credit) >= 2 * credit /\ Weight(U, credit) # 0 /\ Weight(U, credit) \in Nat
      BY <3>2, <3>5 DEF Weight
    <3>7. Weight(U, credit) <= connectionNum - (MaxConn + 1)
      BY <3>1, <3>6 DEF InCreditBy
    <3> QED BY <3>2, <3>4, <3>5, <3>6, <3>7
  <2> QED BY <2>1, <2>2, <2>3 DEF AdmissionBounded, IpExcessIsRefused
<1> QED BY <1>1, <1>2, <1>3, PTL DEF Spec

-----------------------------------------------------------------------------
(* The data of a session: the mutex of Session, and who is inside it.      *)

Value == [type : Types \cup {"none"}, n : Nat]
Operation ==
  {Resting} \cup
  [op : Operations, key : Keys, type : Types, at : {"lock", "find", "known", "unknown"}]

DataTyped ==
  /\ ops \in [Handlers -> Operation]
  /\ got \in [Handlers -> Value]
  /\ increments \in [Keys -> Nat]
  /\ DOMAIN data \subseteq Keys
  /\ \A k \in DOMAIN data : data[k] \in Value

Inside(t) == ops[t].at \in {"find", "known", "unknown"}

\* Who is inside the lock_guard's scope holds the mutex.
HolderOnly == \A t \in Handlers : Inside(t) => mutex = t

\* What a thread has looked up is still so while it is inside.
LookupHolds ==
  \A t \in Handlers :
    /\ ops[t].at = "known" => ops[t].key \in DOMAIN data /\ got[t] = data[ops[t].key]
    /\ ops[t].at = "unknown" => ops[t].key \notin DOMAIN data /\ got[t] = Default(ops[t].type)

DataInv == DataTyped /\ HolderOnly /\ LookupHolds /\ NoLostModify

\* Only a thread inside the scope has the fields of an operation it is about to act on.
LEMMA InsideHasFields ==
  ASSUME DataTyped, NEW t \in Handlers, ops[t].at # "rest"
  PROVE  /\ ops[t] \in [op : Operations, key : Keys, type : Types,
                        at : {"lock", "find", "known", "unknown"}]
         /\ ops[t].key \in Keys /\ ops[t].type \in Types /\ ops[t].op \in Operations
BY DEF DataTyped, Operation, Resting

LEMMA DataStarts == DataInit => DataInv
BY DEF DataInit, DataInv, DataTyped, Value, Operation, Resting, HolderOnly, Inside, LookupHolds,
       NoLostModify, Default

\* A step inside the scope that ends there leaves nobody inside.
LEMMA DoneLeavesNobodyInside ==
  ASSUME DataInv, NEW t \in Handlers, Inside(t), Done(t)
  PROVE  /\ ops' \in [Handlers -> Operation]
         /\ HolderOnly'
         /\ LookupHolds'
<1>1. \A u \in Handlers : Inside(u) => u = t
  BY DEF DataInv, HolderOnly
<1>2. ops' \in [Handlers -> Operation]
  BY DEF DataInv, DataTyped, Done, Operation, Resting
<1>3. \A u \in Handlers : ~Inside(u)'
  BY <1>1 DEF Done, Resting, Inside, DataInv, DataTyped
<1>4. HolderOnly' /\ LookupHolds'
  BY <1>3 DEF HolderOnly, LookupHolds, Inside
<1> QED BY <1>2, <1>4

LEMMA BeginStep ==
  ASSUME DataInv, NEW t \in Handlers, Begin(t)
  PROVE  DataInv'
<1>1. PICK op \in Operations, key \in Keys, type \in Types :
        ops' = [ops EXCEPT ![t] = [op |-> op, key |-> key, type |-> type, at |-> "lock"]]
  BY DEF Begin
<1>2. DataTyped'
  BY <1>1 DEF Begin, DataInv, DataTyped, Operation
<1>3. \A u \in Handlers : u # t => ops'[u] = ops[u]
  BY <1>1 DEF DataInv, DataTyped
<1>4. ops'[t].at = "lock"
  BY <1>1 DEF DataInv, DataTyped
<1>5. HolderOnly'
  BY <1>3, <1>4 DEF Begin, DataInv, HolderOnly, Inside
<1>6. LookupHolds'
  BY <1>3, <1>4 DEF Begin, DataInv, LookupHolds, Default
<1>7. NoLostModify'
  BY DEF Begin, DataInv, NoLostModify
<1> QED BY <1>2, <1>5, <1>6, <1>7 DEF DataInv

LEMMA LockStep ==
  ASSUME "free" \notin Handlers, DataInv, NEW t \in Handlers, Lock(t)
  PROVE  DataInv'
<1>1. \A u \in Handlers : ~Inside(u)
  BY DEF Lock, Lockable, DataInv, HolderOnly
<1>2. ops' = [ops EXCEPT ![t].at = "find"]
  BY DEF Lock
<1>3. ops[t] \in [op : Operations, key : Keys, type : Types,
                  at : {"lock", "find", "known", "unknown"}]
  BY InsideHasFields DEF Lock, DataInv
<1>4. DataTyped'
  BY <1>2, <1>3 DEF Lock, DataInv, DataTyped, Operation
<1>5. \A u \in Handlers : u # t => ops'[u] = ops[u]
  BY <1>2 DEF DataInv, DataTyped
<1>6. ops'[t].at = "find" /\ mutex' = t
  BY <1>2, <1>3 DEF Lock, DataInv, DataTyped
<1>7. HolderOnly'
  BY <1>1, <1>5, <1>6 DEF HolderOnly, Inside
<1>8. LookupHolds'
  BY <1>1, <1>5, <1>6 DEF LookupHolds, Inside
<1>9. NoLostModify'
  BY DEF Lock, DataInv, NoLostModify
<1> QED BY <1>4, <1>7, <1>8, <1>9 DEF DataInv

LEMMA LookupStep ==
  ASSUME DataInv, NEW t \in Handlers, Lookup(t)
  PROVE  DataInv'
<1> DEFINE place == IF ops[t].key \in DOMAIN data THEN "known" ELSE "unknown"
           value == IF ops[t].key \in DOMAIN data THEN data[ops[t].key]
                                                   ELSE Default(ops[t].type)
<1>1. ops' = [ops EXCEPT ![t].at = place] /\ got' = [got EXCEPT ![t] = value]
  BY DEF Lookup
<1>2. ops[t] \in [op : Operations, key : Keys, type : Types,
                  at : {"lock", "find", "known", "unknown"}]
  BY InsideHasFields DEF Lookup, DataInv
<1>3. value \in Value
  BY <1>2 DEF DataInv, DataTyped, Value, Default
<1>4. DataTyped'
  BY <1>1, <1>2, <1>3 DEF Lookup, DataInv, DataTyped, Operation
<1>5. \A u \in Handlers : u # t => ops'[u] = ops[u] /\ got'[u] = got[u] /\ ~Inside(u)
  BY <1>1 DEF Lookup, DataInv, DataTyped, HolderOnly, Inside
<1>6. ops'[t] = [ops[t] EXCEPT !.at = place] /\ got'[t] = value
  BY <1>1 DEF DataInv, DataTyped
<1>7. ops'[t].at = place /\ ops'[t].key = ops[t].key /\ ops'[t].type = ops[t].type
  BY <1>6, <1>2
<1>8. HolderOnly'
  BY <1>5, <1>7 DEF Lookup, DataInv, HolderOnly, Inside
<1>9. LookupHolds'
  BY <1>5, <1>6, <1>7 DEF Lookup, LookupHolds, Inside, Default
<1>10. NoLostModify'
  BY DEF Lookup, DataInv, NoLostModify
<1> QED BY <1>4, <1>8, <1>9, <1>10 DEF DataInv

LEMMA InsertStep ==
  ASSUME DataInv, NEW t \in Handlers, insert(t)
  PROVE  DataInv'
<1>1. Inside(t) /\ Done(t)
  BY DEF insert, At, Inside
<1>2. ops[t].key \in Keys /\ ops[t].type \in Types
  BY <1>1, InsideHasFields DEF DataInv, Inside
<1>3. CASE Inserts(t)
  <2>1. ops[t].key \notin DOMAIN data
    BY <1>3 DEF DataInv, LookupHolds, Inserts
  <2>2. Default(ops[t].type) \in Value /\ Default(ops[t].type).n = 0
    BY <1>2 DEF Value, Default
  <2>3. data' = Put(data, ops[t].key, Default(ops[t].type)) /\ increments' = increments
    BY <1>3 DEF insert
  <2>4. /\ DOMAIN data' = DOMAIN data \cup {ops[t].key}
        /\ \A k \in DOMAIN data' :
             data'[k] = IF k = ops[t].key THEN Default(ops[t].type) ELSE data[k]
    BY <2>3 DEF Put
  <2>5. DOMAIN data' \subseteq Keys /\ \A k \in DOMAIN data' : data'[k] \in Value
    BY <2>4, <2>2, <1>2 DEF DataInv, DataTyped
  <2>6. NoLostModify'
    BY <2>1, <2>2, <2>3, <2>4 DEF DataInv, NoLostModify
  <2> QED BY <2>3, <2>5, <2>6, <1>1, DoneLeavesNobodyInside DEF insert, DataInv, DataTyped
<1>4. CASE ~Inserts(t)
  <2>1. data' = data /\ increments' = increments
    BY <1>4 DEF insert
  <2>2. NoLostModify'
    BY <2>1 DEF DataInv, NoLostModify
  <2> QED BY <2>1, <2>2, <1>1, DoneLeavesNobodyInside DEF insert, DataInv, DataTyped
<1> QED BY <1>3, <1>4

\* What modify() stores is one more than what is stored: nothing has come between.
LEMMA ModifyStep ==
  ASSUME DataInv, NEW t \in Handlers, modify(t)
  PROVE  DataInv'
<1>1. Inside(t) /\ Done(t)
  BY DEF modify, At, Inside
<1>2. ops[t].key \in Keys /\ ops[t].type \in Types
  BY <1>1, InsideHasFields DEF DataInv, Inside
<1>3. CASE Fits(t)
  <2> DEFINE key == ops[t].key
             new == [type |-> ops[t].type, n |-> got[t].n + 1]
  <2>1. got[t].n = increments[key]
    <3>1. ops[t].at \in {"known", "unknown"}
      BY DEF modify, At
    <3>2. increments[key] = IF key \in DOMAIN data THEN data[key].n ELSE 0
      BY <1>2 DEF DataInv, NoLostModify
    <3>3. CASE ops[t].at = "known"
      BY <3>2, <3>3 DEF DataInv, LookupHolds
    <3>4. CASE ops[t].at = "unknown"
      <4>1. key \notin DOMAIN data /\ got[t] = Default(ops[t].type)
        BY <3>4 DEF DataInv, LookupHolds
      <4> QED BY <3>2, <4>1 DEF Default
    <3> QED BY <3>1, <3>3, <3>4
  <2>2. data' = Put(data, key, new) /\ increments' = [increments EXCEPT ![key] = @ + 1]
    BY <1>3 DEF modify
  <2>3. new \in Value
    BY <1>2, <2>1 DEF Value, DataInv, DataTyped
  <2>4. /\ DOMAIN data' = DOMAIN data \cup {key}
        /\ \A k \in DOMAIN data' : data'[k] = IF k = key THEN new ELSE data[k]
    BY <2>2 DEF Put
  <2>5. DOMAIN data' \subseteq Keys /\ \A k \in DOMAIN data' : data'[k] \in Value
    BY <2>4, <2>3, <1>2 DEF DataInv, DataTyped
  <2>6. increments' \in [Keys -> Nat]
    BY <2>2, <1>2 DEF DataInv, DataTyped
  <2>7. \A k \in Keys : increments'[k] = IF k = key THEN increments[k] + 1 ELSE increments[k]
    BY <2>2 DEF DataInv, DataTyped
  <2>8. NoLostModify'
    BY <2>1, <2>4, <2>7 DEF DataInv, NoLostModify
  <2> QED BY <2>5, <2>6, <2>8, <1>1, DoneLeavesNobodyInside DEF modify, DataInv, DataTyped
<1>4. CASE ~Fits(t)
  <2>1. data' = data /\ increments' = increments
    BY <1>4 DEF modify
  <2>2. NoLostModify'
    BY <2>1 DEF DataInv, NoLostModify
  <2> QED BY <2>1, <2>2, <1>1, DoneLeavesNobodyInside DEF modify, DataInv, DataTyped
<1> QED BY <1>3, <1>4

LEMMA GetStep ==
  ASSUME DataInv, NEW t \in Handlers, get(t)
  PROVE  DataInv'
<1>1. Inside(t) /\ Done(t)
  BY DEF get, At, Inside
<1>2. Default(ops[t].type) \in Value
  BY <1>1, InsideHasFields DEF DataInv, Inside, Value, Default
<1>3. got' \in [Handlers -> Value]
  BY <1>2 DEF get, DataInv, DataTyped
<1>4. NoLostModify'
  BY DEF get, DataInv, NoLostModify
<1> QED BY <1>1, <1>3, <1>4, DoneLeavesNobodyInside DEF get, DataInv, DataTyped

LEMMA EraseStep ==
  ASSUME DataInv, NEW t \in Handlers, erase(t)
  PROVE  DataInv'
<1>1. Inside(t) /\ Done(t)
  BY DEF erase, At, Inside
<1> DEFINE gone == IF ops[t].op = "erase" THEN {ops[t].key} ELSE Keys
<1>2. /\ data' = Drop(data, gone)
      /\ increments' = [k \in Keys |-> IF k \in gone THEN 0 ELSE increments[k]]
  BY DEF erase
<1>3. DOMAIN data' = DOMAIN data \ gone /\ \A k \in DOMAIN data' : data'[k] = data[k]
  BY <1>2 DEF Drop
<1>4. increments' \in [Keys -> Nat]
  BY <1>2 DEF DataInv, DataTyped
<1>5. NoLostModify'
  BY <1>2, <1>3 DEF DataInv, NoLostModify
<1> QED BY <1>1, <1>3, <1>4, <1>5, DoneLeavesNobodyInside DEF erase, DataInv, DataTyped

LEMMA StepKeeps ==
  ASSUME "free" \notin Handlers
  PROVE  DataInv /\ [DataNext]_sessionDataVars => DataInv'
<1> SUFFICES ASSUME DataInv, [DataNext]_sessionDataVars PROVE DataInv'
  OBVIOUS
<1>1. CASE UNCHANGED sessionDataVars
  BY <1>1 DEF sessionDataVars, DataInv, DataTyped, HolderOnly, Inside, LookupHolds, NoLostModify
<1>2. ASSUME NEW t \in Handlers, UseAttributes(t) PROVE DataInv'
  BY <1>2 DEF UseAttributes, DataInv, DataTyped, HolderOnly, Inside, LookupHolds, NoLostModify
<1> QED
  BY <1>1, <1>2, BeginStep, LockStep, LookupStep, InsertStep, ModifyStep, GetStep, EraseStep
     DEF DataNext

\* Whatever handlers of whatever loops do with a session at once, what its modify() calls
\* counted is what is stored: the lock_guard of each call spans its look-up and its change.
THEOREM ModificationsKept ==
  ASSUME "free" \notin Handlers
  PROVE  DataSpec => []NoLostModify
<1>1. DataInit => DataInv
  BY DataStarts
<1>2. DataInv /\ [DataNext]_sessionDataVars => DataInv'
  BY StepKeeps
<1>3. DataInv => NoLostModify
  BY DEF DataInv
<1> QED BY <1>1, <1>2, <1>3, PTL DEF DataSpec

-----------------------------------------------------------------------------
(* The body of a request: what is kept or handed on is what has come,      *)
(* piece by piece, of the request the object now is.                       *)

Piece == Uses \X Int
Kept == [open : BOOLEAN, data : Seq(Piece)]
Heard == [data : Seq(Piece), ends : Seq({"ok", "exception"})]
Unheard == [data |-> <<>>, ends |-> <<>>]

BodyTyped ==
  /\ use \in Uses
  /\ progress \in {"head", "body", "end", "broken"}
  /\ received \in Seq(Piece)
  /\ content \in Seq(Piece)
  /\ file \in Kept
  /\ status \in {"none", "open", "finish", "error"}
  /\ reader \in {0, use}
  /\ exception \in BOOLEAN
  /\ finishCb \in {0, use}
  /\ asked \in {"nothing", "reads", "waits"}
  /\ readers \in [Uses -> Heard]
  /\ waits \in [Uses -> Nat]
  /\ unpacked \in BOOLEAN

\* What is kept is in memory or in the file, and fits.
Shaped(body) ==
  /\ body \in [content : Seq(Piece), file : Kept]
  /\ body.file.open => body.content = <<>>
  /\ ~body.file.open => body.file.data = <<>>
  /\ Len(body.content) <= MaxMemory
HeldOfUse(body) == IF body.file.open THEN body.file.data ELSE body.content

OfUse(pieces, u) == \A i \in DOMAIN pieces : pieces[i][1] = u

LEMMA HeldIsTyped ==
  ASSUME NEW body, Shaped(body)
  PROVE  HeldOfUse(body) \in Seq(Piece)
BY DEF Shaped, HeldOfUse, Kept

LEMMA SinglePiece ==
  ASSUME NEW piece \in Piece
  PROVE  /\ <<piece>> \in Seq(Piece) /\ Len(<<piece>>) = 1
         /\ OfUse(<<piece>>, piece[1])
BY DEF OfUse

\* appendToBody's piece is added to what is kept.
LEMMA KeepAdds ==
  ASSUME NEW body, Shaped(body), NEW piece \in Piece
  PROVE  /\ Shaped(Keep(body, <<piece>>))
         /\ HeldOfUse(Keep(body, <<piece>>)) = HeldOfUse(body) \o <<piece>>
<1> DEFINE pieces == <<piece>>
<1>1. pieces \in Seq(Piece) /\ Len(pieces) = 1
  BY SinglePiece
<1>2. body.content \in Seq(Piece) /\ body.file.data \in Seq(Piece)
      /\ body.file.open \in BOOLEAN /\ body = [content |-> body.content, file |-> body.file]
      /\ body.file = [open |-> body.file.open, data |-> body.file.data]
  BY DEF Shaped, Kept
<1>3. /\ body.content \o pieces \in Seq(Piece) /\ body.file.data \o pieces \in Seq(Piece)
      /\ Len(body.content \o pieces) = Len(body.content) + Len(pieces)
  BY <1>1, <1>2, ConcatProperties
<1>4. <<>> \in Seq(Piece) /\ Len(<<>>) = 0 /\ 0 <= MaxMemory
  BY BodyAssumption
<1> HIDE DEF pieces
<1>5. CASE body.file.open
  <2>1. Keep(body, pieces) = [content |-> body.content,
                              file |-> [open |-> body.file.open, data |-> body.file.data \o pieces]]
    BY <1>2, <1>5 DEF Keep
  <2>2. Shaped(Keep(body, pieces))
    BY <2>1, <1>2, <1>3, <1>5 DEF Shaped, Kept
  <2>3. HeldOfUse(Keep(body, pieces)) = HeldOfUse(body) \o pieces
    BY <2>1, <1>5 DEF HeldOfUse
  <2> QED BY <2>2, <2>3 DEF pieces
<1>6. CASE ~body.file.open /\ Len(body.content) + Len(pieces) <= MaxMemory
  <2>1. Keep(body, pieces) = [content |-> body.content \o pieces, file |-> body.file]
    BY <1>2, <1>6 DEF Keep
  <2>2. Shaped(Keep(body, pieces))
    BY <2>1, <1>2, <1>3, <1>6 DEF Shaped, Kept
  <2>3. HeldOfUse(Keep(body, pieces)) = HeldOfUse(body) \o pieces
    BY <2>1, <1>6 DEF HeldOfUse
  <2> QED BY <2>2, <2>3 DEF pieces
<1>7. CASE ~body.file.open /\ ~(Len(body.content) + Len(pieces) <= MaxMemory)
  <2>1. Keep(body, pieces) = [content |-> <<>>,
                              file |-> [open |-> TRUE, data |-> body.content \o pieces]]
    BY <1>7 DEF Keep
  <2>2. Shaped(Keep(body, pieces))
    BY <2>1, <1>2, <1>3, <1>4, <1>7 DEF Shaped, Kept
  <2>3. HeldOfUse(Keep(body, pieces)) = HeldOfUse(body) \o pieces
    BY <2>1, <1>7 DEF HeldOfUse
  <2> QED BY <2>2, <2>3 DEF pieces
<1> QED BY <1>5, <1>6, <1>7

LEMMA OfUseConcat ==
  ASSUME NEW s \in Seq(Piece), NEW t \in Seq(Piece), NEW u
  PROVE  OfUse(s \o t, u) <=> OfUse(s, u) /\ OfUse(t, u)
<1>1. /\ DOMAIN s = 1..Len(s) /\ DOMAIN t = 1..Len(t) /\ DOMAIN (s \o t) = 1..Len(s) + Len(t)
      /\ Len(s) \in Nat /\ Len(t) \in Nat
  BY ConcatProperties, LenProperties
<1>2. \A i \in 1..Len(s) : (s \o t)[i] = s[i]
  BY <1>1, ConcatProperties
<1>3. \A i \in 1..Len(t) : (s \o t)[Len(s) + i] = t[i] /\ Len(s) + i \in 1..Len(s) + Len(t)
  <2> SUFFICES ASSUME NEW i \in 1..Len(t)
               PROVE (s \o t)[Len(s) + i] = t[i] /\ Len(s) + i \in 1..Len(s) + Len(t)
    OBVIOUS
  <2>1. Len(s) + i \in 1..Len(s) + Len(t) /\ ~(Len(s) + i <= Len(s)) /\ (Len(s) + i) - Len(s) = i
    BY <1>1
  <2> QED BY <2>1, ConcatProperties
<1>4. \A i \in 1..Len(s) + Len(t) : i \in 1..Len(s) \/ \E j \in 1..Len(t) : i = Len(s) + j
  <2> SUFFICES ASSUME NEW i \in 1..Len(s) + Len(t), ~(i \in 1..Len(s))
               PROVE \E j \in 1..Len(t) : i = Len(s) + j
    OBVIOUS
  <2>1. i - Len(s) \in 1..Len(t) /\ i = Len(s) + (i - Len(s))
    BY <1>1
  <2> QED BY <2>1
<1>5. \A i \in 1..Len(s) : i \in 1..Len(s) + Len(t)
  BY <1>1
<1>6. OfUse(s \o t, u) => OfUse(s, u) /\ OfUse(t, u)
  <2> SUFFICES ASSUME OfUse(s \o t, u) PROVE OfUse(s, u) /\ OfUse(t, u)
    OBVIOUS
  <2>1. \A i \in 1..Len(s) + Len(t) : (s \o t)[i][1] = u
    BY <1>1 DEF OfUse
  <2>2. \A i \in 1..Len(s) : s[i][1] = u
    BY <2>1, <1>2, <1>5
  <2>3. \A i \in 1..Len(t) : t[i][1] = u
    BY <2>1, <1>3
  <2> QED BY <1>1, <2>2, <2>3 DEF OfUse
<1>7. OfUse(s, u) /\ OfUse(t, u) => OfUse(s \o t, u)
  <2> SUFFICES ASSUME OfUse(s, u), OfUse(t, u), NEW i \in 1..Len(s) + Len(t)
               PROVE (s \o t)[i][1] = u
    BY <1>1 DEF OfUse
  <2>1. CASE i \in 1..Len(s)
    BY <1>1, <1>2, <2>1 DEF OfUse
  <2>2. CASE \E j \in 1..Len(t) : i = Len(s) + j
    BY <1>1, <1>3, <2>2 DEF OfUse
  <2> QED BY <1>4, <2>1, <2>2
<1> QED BY <1>6, <1>7

\* What a body is inflated to: n pieces of this request, kept like any others.
LEMMA KeepAllIs ==
  ASSUME use \in Uses, NEW n \in Nat
  PROVE  /\ Shaped(KeepAll(n))
         /\ OfUse(HeldOfUse(KeepAll(n)), use) /\ Len(HeldOfUse(KeepAll(n))) = n
<1> DEFINE S == {d \in [content : Seq(Piece), file : Kept] : Shaped(d)}
           base == [content |-> <<>>, file |-> NoFile]
           step == [i \in 1..n |-> [d \in S |-> Keep(d, <<<<use, -i>>>>)]]
           Following(g) == [i \in 0..n |-> IF i = 0 THEN base ELSE Keep(g[i - 1], <<<<use, -i>>>>)]
           F == CHOOSE g : g = Following(g)
<1>1. \A d : Shaped(d) <=> d \in S
  BY DEF Shaped
<1>2. \A i \in 1..n : <<use, -i>> \in Piece /\ <<use, -i>>[1] = use
  BY DEF Piece
<1>3. Shaped(base) /\ HeldOfUse(base) = <<>>
  BY BodyAssumption DEF Shaped, NoFile, Kept, HeldOfUse
<1>4. step \in [1..n -> [S -> S]]
  <2>1. \A i \in 1..n : \A d \in S : Keep(d, <<<<use, -i>>>>) \in S
    <3> HIDE DEF S
    <3> QED BY <1>1, <1>2, KeepAdds
  <2> QED BY <2>1
<1>5. PICK f : Iterates(f, n, S, base, step)
  <2>1. base \in S
    BY <1>1, <1>3
  <2> HIDE DEF S, base, step
  <2> QED BY <2>1, <1>4, RecursionExists
<1>6. f \in [0..n -> S] /\ f[0] = base
  BY <1>5 DEF Iterates
<1>7. \A i \in 1..n : f[i] = Keep(f[i - 1], <<<<use, -i>>>>) /\ f[i - 1] \in S /\ f[i] \in S
  <2> SUFFICES ASSUME NEW i \in 1..n
               PROVE f[i] = Keep(f[i - 1], <<<<use, -i>>>>) /\ f[i - 1] \in S /\ f[i] \in S
    OBVIOUS
  <2>1. i - 1 \in 0..n /\ i \in 0..n
    OBVIOUS
  <2>2. f[i - 1] \in S /\ f[i] \in S /\ f[i] = step[i][f[i - 1]]
    BY <1>5, <2>1 DEF Iterates
  <2> HIDE DEF S
  <2> QED BY <2>2
<1> HIDE DEF S, base
<1>8. f = Following(f)
  <2>1. \A i \in 0..n : i = 0 \/ i \in 1..n
    OBVIOUS
  <2>2. \A i \in 0..n : f[i] = Following(f)[i]
    BY <1>6, <1>7, <2>1
  <2>3. [i \in 0..n |-> f[i]] = [i \in 0..n |-> Following(f)[i]]
    BY <2>2, Zenon
  <2> QED BY <1>6, <2>3
<1>9. KeepAll(n) = F[n]
  BY DEF KeepAll, base
<1>10. F = Following(F)
  <2> HIDE DEF F
  <2> QED BY <1>8 DEF F
<1> HIDE DEF F
<1>11. \A i \in 0..n : F[i] = f[i]
  <2>1. F[0] = base /\ \A i \in 1..n : F[i] = Keep(F[i - 1], <<<<use, -i>>>>)
    <3>1. \A i \in 0..n : F[i] = Following(F)[i]
      BY <1>10
    <3>2. 0 \in 0..n /\ \A i \in 1..n : i \in 0..n /\ i # 0
      OBVIOUS
    <3> QED BY <3>1, <3>2
  <2>2. GoOnAlike(F, f, n)
    BY <1>6, <1>7, <2>1 DEF GoOnAlike
  <2> QED BY <2>2, RecursionUnique
<1>12. \A i \in 0..n : OfUse(HeldOfUse(f[i]), use) /\ Len(HeldOfUse(f[i])) = i
  <2> DEFINE G == {i \in 0..n : OfUse(HeldOfUse(f[i]), use) /\ Len(HeldOfUse(f[i])) = i}
  <2>1. 0 \in G
    BY <1>3, <1>6 DEF OfUse
  <2>2. ASSUME NEW i \in 0..(n - 1), i \in G PROVE i + 1 \in G
    <3>1. i + 1 \in 1..n /\ (i + 1) - 1 = i /\ i + 1 \in 0..n
      OBVIOUS
    <3>2. f[i + 1] = Keep(f[i], <<<<use, -(i + 1)>>>>) /\ Shaped(f[i])
      BY <3>1, <1>7, <1>1
    <3> DEFINE p == <<use, -(i + 1)>>
    <3>3. p \in Piece /\ p[1] = use
      BY <3>1, <1>2
    <3> HIDE DEF p
    <3>4. HeldOfUse(f[i + 1]) = HeldOfUse(f[i]) \o <<p>>
      BY <3>2, <3>3, KeepAdds DEF p
    <3>5. HeldOfUse(f[i]) \in Seq(Piece) /\ <<p>> \in Seq(Piece) /\ Len(<<p>>) = 1 /\ OfUse(<<p>>, use)
      BY <3>2, <3>3, HeldIsTyped, SinglePiece
    <3>6. OfUse(HeldOfUse(f[i + 1]), use)
      BY <3>4, <3>5, <2>2, OfUseConcat
    <3>7. Len(HeldOfUse(f[i + 1])) = i + 1
      BY <3>4, <3>5, <2>2, ConcatProperties
    <3> QED BY <3>1, <3>6, <3>7
  <2>3. \A i \in 0..n : i \in G
    <3> HIDE DEF G
    <3> QED BY <2>1, <2>2, UpToInduction
  <2> QED BY <2>3
<1>13. n \in 0..n
  OBVIOUS
<1>14. KeepAll(n) = f[n] /\ Shaped(f[n])
  BY <1>9, <1>11, <1>13, <1>6, <1>1
<1> QED BY <1>12, <1>13, <1>14

-----------------------------------------------------------------------------
(* The invariant *)

\* What the stages of the connection and of the stream mean for each other.
Stages ==
  /\ progress = "head" => status = "none" /\ asked = "nothing" /\ HeldOfUse(Stored) = <<>> /\ received = <<>>
  /\ status = "open" => progress = "body"
  /\ status = "finish" => progress = "end"
  /\ status = "error" => progress = "broken"
  /\ progress = "body" /\ asked # "nothing" => status = "open"
  /\ unpacked => status = "none" /\ progress = "end"

\* Whatever came is with the reader or kept.
Whole == ~unpacked => readers[use].data \o HeldOfUse(Stored) = received

\* A reader is kept while its body comes, and has heard of its end after that.
Reading ==
  /\ asked = "reads" /\ progress = "body" =>
       reader = use /\ HeldOfUse(Stored) = <<>> /\ readers[use].ends = <<>>
  /\ asked # "reads" \/ progress # "body" => reader = 0
  /\ asked # "reads" => readers[use] = Unheard
  /\ asked = "reads" /\ progress = "end" => readers[use].ends = <<"ok">>
  /\ asked = "reads" /\ progress = "broken" => readers[use].ends = <<"exception">>
  /\ status = "error" /\ asked = "nothing" => exception
  /\ exception => asked # "reads" /\ progress = "broken"

\* The same of a callback that waits.
Waiting ==
  /\ asked = "waits" /\ progress = "body" => finishCb = use /\ waits[use] = 0
  /\ asked # "waits" \/ progress # "body" => finishCb = 0
  /\ asked # "waits" => waits[use] = 0
  /\ asked = "waits" /\ progress # "body" => waits[use] = 1

\* Requests to come have heard of nothing, and none hears of more than one end.
Coming == \A u \in Uses : u > use => readers[u] = Unheard /\ waits[u] = 0
OneEnd == \A u \in Uses : Len(readers[u].ends) <= 1 /\ waits[u] <= 1

Own ==
  /\ OfUse(received, use) /\ OfUse(HeldOfUse(Stored), use)
  /\ \A u \in Uses : OfUse(readers[u].data, u)

Bounded == Len(received) <= MaxBody /\ Len(HeldOfUse(Stored)) <= MaxBody

BodyInv ==
  /\ BodyTyped /\ Shaped(Stored) /\ Stages /\ Whole /\ Reading /\ Waiting
  /\ Coming /\ OneEnd /\ Own /\ Bounded

LEMMA BodyInvIsEnough == BodyInv => BodyExact
<1> SUFFICES ASSUME BodyInv PROVE BodyExact
  OBVIOUS
<1>1. HeldBody = HeldOfUse(Stored)
  BY DEF HeldBody, HeldOfUse, Stored
<1>2. BodyWhole
  BY <1>1 DEF BodyInv, Whole, BodyWhole
<1>3. OwnPieces
  BY DEF BodyInv, Own, OfUse, OwnPieces
<1>4. EndedOnce
  <2>1. progress = "body" => readers[use].ends = <<>> /\ waits[use] = 0
    BY DEF BodyInv, Reading, Waiting, Unheard, BodyTyped
  <2> QED BY <2>1 DEF BodyInv, OneEnd, Reading, Waiting, EndedOnce
<1>5. WithinLimits
  <2>1. Len(content) <= MaxMemory
    BY DEF BodyInv, Shaped, Stored
  <2>2. CASE file.open
    <3>1. HeldOfUse(Stored) = file.data
      BY <2>2 DEF HeldOfUse, Stored
    <3> QED BY <2>1, <3>1 DEF BodyInv, Bounded, WithinLimits
  <2>3. CASE ~file.open
    <3>1. file.data = <<>>
      BY <2>3 DEF BodyInv, Shaped, Stored
    <3>2. Len(file.data) = 0 /\ 0 <= MaxBody
      BY <3>1, BodyAssumption
    <3> QED BY <2>1, <3>2 DEF WithinLimits
  <2> QED BY <2>2, <2>3
<1> QED BY <1>2, <1>3, <1>4, <1>5 DEF BodyExact

LEMMA BodyStarts == BodyInit => BodyInv
<1> SUFFICES ASSUME BodyInit PROVE BodyInv
  OBVIOUS
<1>1. 1 \in Uses /\ MaxMemory \in Nat /\ MaxBody \in Nat
  BY BodyAssumption DEF Uses
<1>2. /\ <<>> \in Seq(Piece) /\ <<>> \in Seq({"ok", "exception"}) /\ Len(<<>>) = 0
      /\ <<>> \o <<>> = <<>>
  OBVIOUS
<1>3. HeldOfUse(Stored) = <<>> /\ Shaped(Stored)
  BY <1>1, <1>2 DEF BodyInit, HeldOfUse, Stored, NoFile, Shaped, Kept
<1>4. readers = [u \in Uses |-> Unheard]
  BY DEF BodyInit, Unheard
<1>5. BodyTyped
  <2>1. Unheard \in Heard /\ NoFile \in Kept
    BY <1>2 DEF Heard, Unheard, NoFile, Kept
  <2>2. readers \in [Uses -> Heard] /\ waits \in [Uses -> Nat]
    BY <1>4, <2>1 DEF BodyInit
  <2> QED BY <1>1, <1>2, <2>1, <2>2 DEF BodyInit, BodyTyped
<1>6. Stages /\ Reading /\ Waiting
  BY <1>1, <1>3, <1>4 DEF BodyInit, Stages, Reading, Waiting
<1>7. Whole
  BY <1>1, <1>2, <1>3, <1>4 DEF BodyInit, Whole, Unheard
<1>8. Coming /\ OneEnd
  BY <1>1, <1>2, <1>4 DEF BodyInit, Coming, OneEnd, Unheard
<1>9. Own /\ Bounded
  BY <1>1, <1>2, <1>3, <1>4 DEF BodyInit, Own, Bounded, OfUse, Unheard
<1> QED BY <1>3, <1>5, <1>6, <1>7, <1>8, <1>9 DEF BodyInv

\* A step that leaves what is kept and what was read.
LEMMA KeptUntouched ==
  ASSUME BodyInv, UNCHANGED <<use, received, content, file>>
  PROVE  /\ Stored' = Stored /\ HeldOfUse(Stored)' = HeldOfUse(Stored) /\ Shaped(Stored)' /\ Bounded'
         /\ readers' = readers /\ unpacked' = unpacked => Whole'
         /\ (\A u \in Uses : readers'[u].data = readers[u].data) => Own'
<1>1. Stored' = Stored
  BY DEF Stored
<1>2. HeldOfUse(Stored)' = HeldOfUse(Stored) /\ Shaped(Stored)'
  BY <1>1 DEF BodyInv, HeldOfUse, Shaped
<1> QED BY <1>1, <1>2 DEF BodyInv, Bounded, Whole, Own

LEMMA HeadersKeeps ==
  ASSUME BodyInv, Headers
  PROVE  BodyInv'
<1>1. <<>> \in Seq(Piece) /\ Len(<<>>) = 0 /\ MaxMemory \in Nat
  BY BodyAssumption
<1>2. HeldOfUse(Stored) = <<>> /\ content = <<>>
  <2>1. HeldOfUse(Stored) = <<>>
    BY DEF BodyInv, Stages, Headers
  <2> QED BY <2>1 DEF BodyInv, Shaped, Stored, HeldOfUse
<1>3. Shaped(Stored)' /\ HeldOfUse(Stored)' = HeldOfUse(Stored)
  <2>1. CASE file' = NoFile
    BY <1>1, <1>2, <2>1 DEF Headers, Shaped, Stored, HeldOfUse, NoFile, Kept
  <2>2. CASE file' = [open |-> TRUE, data |-> <<>>]
    BY <1>1, <1>2, <2>2 DEF Headers, Shaped, Stored, HeldOfUse, Kept
  <2> QED BY <2>1, <2>2 DEF Headers
<1>4. BodyTyped'
  BY <1>3 DEF BodyInv, BodyTyped, Headers, Shaped, Stored
<1>5. Stages'
  BY DEF BodyInv, Stages, Headers, Reading
<1>6. Reading' /\ Waiting'
  BY <1>3 DEF BodyInv, Stages, Headers, Reading, Waiting
<1>7. Whole' /\ Own' /\ Bounded' /\ Coming' /\ OneEnd'
  BY <1>3 DEF BodyInv, Headers, Whole, Own, Bounded, Coming, OneEnd
<1> QED BY <1>3, <1>4, <1>5, <1>6, <1>7 DEF BodyInv

LEMMA AppendKeeps ==
  ASSUME BodyInv, appendToBody
  PROVE  BodyInv'
<1> DEFINE piece == <<use, Len(received) + 1>>
<1>1. /\ received \in Seq(Piece) /\ Len(received) \in Nat /\ use \in Uses
      /\ Len(received) < MaxBody /\ MaxBody \in Nat
  BY BodyAssumption DEF BodyInv, BodyTyped, appendToBody
<1>2. piece \in Piece /\ piece[1] = use
  BY <1>1 DEF Piece
<1>3. /\ received' = Append(received, piece)
      /\ UNCHANGED <<use, progress, status, reader, exception, finishCb, asked, waits, unpacked>>
      /\ progress = "body"
  BY DEF appendToBody
<1>4. /\ reader # 0 => readers' = [readers EXCEPT ![reader].data = Append(@, piece)]
                       /\ UNCHANGED <<content, file>>
      /\ reader = 0 => Store(Keep(Stored, <<piece>>)) /\ UNCHANGED readers
  BY DEF appendToBody
<1> HIDE DEF piece
<1>5. /\ received' = received \o <<piece>> /\ received' \in Seq(Piece)
      /\ Len(received') = Len(received) + 1
      /\ <<piece>> \in Seq(Piece) /\ OfUse(<<piece>>, use)
  BY <1>1, <1>2, <1>3, AppendProperties, AppendIsConcat, SinglePiece
<1>6. OfUse(received', use)
  BY <1>1, <1>5, OfUseConcat DEF BodyInv, Own
<1>7. /\ HeldOfUse(Stored) \in Seq(Piece) /\ readers[use].data \in Seq(Piece) /\ readers[use] \in Heard
      /\ ~unpacked /\ readers[use].data \o HeldOfUse(Stored) = received
  BY <1>1, <1>3, HeldIsTyped DEF BodyInv, BodyTyped, Heard, Stages, Whole
<1>8. CASE reader # 0
  <2>1. reader = use /\ HeldOfUse(Stored) = <<>> /\ asked = "reads"
    BY <1>3, <1>8 DEF BodyInv, Reading
  <2>2. Stored' = Stored /\ HeldOfUse(Stored)' = <<>> /\ Shaped(Stored)'
    BY <1>4, <1>8, <2>1 DEF Stored, HeldOfUse, Shaped, BodyInv
  <2>3. readers[use].data = received
    BY <1>7, <2>1, ConcatEmptySeq
  <2>4. /\ readers'[use] = [readers[use] EXCEPT !.data = received']
        /\ \A u \in Uses : u # use => readers'[u] = readers[u]
        /\ readers' \in [Uses -> Heard]
    <3>1. readers \in [Uses -> Heard]
      BY DEF BodyInv, BodyTyped
    <3>2. readers' = [readers EXCEPT ![use].data = Append(@, piece)]
      BY <1>4, <1>8, <2>1
    <3>3. readers' = [readers EXCEPT ![use] = [readers[use] EXCEPT !.data = received']]
      BY <1>1, <1>3, <2>3, <3>1, <3>2
    <3>4. [readers[use] EXCEPT !.data = received'] \in Heard
      BY <1>5, <1>7 DEF Heard
    <3> QED BY <1>1, <3>1, <3>3, <3>4
  <2>5. /\ readers'[use].data = received' /\ readers'[use].ends = readers[use].ends
    BY <2>4, <1>7 DEF Heard
  <2>6. BodyTyped'
    BY <1>3, <1>4, <1>5, <1>8, <2>4 DEF BodyInv, BodyTyped
  <2>7. Stages' /\ Reading' /\ Waiting'
    BY <1>3, <2>1, <2>2, <2>5 DEF BodyInv, Stages, Reading, Waiting
  <2>8. Whole'
    BY <1>3, <1>5, <2>2, <2>5, ConcatEmptySeq DEF Whole
  <2>9. Coming' /\ OneEnd'
    <3>1. \A u \in Uses : u > use => u # use
      BY <1>1 DEF Uses
    <3>2. \A u \in Uses : readers'[u].ends = readers[u].ends
      BY <2>4, <2>5
    <3>3. Coming'
      BY <1>3, <2>4, <3>1 DEF BodyInv, Coming
    <3> QED BY <1>3, <3>2, <3>3 DEF BodyInv, OneEnd
  <2>10. Own'
    BY <1>3, <1>6, <2>2, <2>4, <2>5, ZenonT(40) DEF BodyInv, Own, OfUse
  <2>11. Bounded'
    BY <1>1, <1>5, <2>2 DEF Bounded
  <2> QED BY <2>2, <2>6, <2>7, <2>8, <2>9, <2>10, <2>11 DEF BodyInv
<1>9. CASE reader = 0
  <2>1. asked # "reads" /\ readers[use] = Unheard /\ UNCHANGED readers
    BY <1>1, <1>3, <1>4, <1>9 DEF BodyInv, Reading, Uses
  <2>2. Shaped(Keep(Stored, <<piece>>)) /\ HeldOfUse(Keep(Stored, <<piece>>)) = HeldOfUse(Stored) \o <<piece>>
    BY <1>2, KeepAdds DEF BodyInv
  <2>3. Stored' = Keep(Stored, <<piece>>)
    <3>1. content' = Keep(Stored, <<piece>>).content /\ file' = Keep(Stored, <<piece>>).file
      BY <1>4, <1>9 DEF Store
    <3> QED BY <2>2, <3>1 DEF Stored, Shaped
  <2>4. Shaped(Stored)' /\ HeldOfUse(Stored)' = HeldOfUse(Stored) \o <<piece>>
    BY <2>2, <2>3
  <2>5. HeldOfUse(Stored) = received
    BY <1>7, <2>1, ConcatEmptySeq DEF Unheard
  <2>6. HeldOfUse(Stored)' = received'
    BY <1>5, <2>4, <2>5
  <2>7. BodyTyped'
    BY <1>3, <1>5, <2>1, <2>4 DEF BodyInv, BodyTyped, Shaped, Stored
  <2>8. Stages' /\ Reading' /\ Waiting'
    BY <1>3, <2>1 DEF BodyInv, Stages, Reading, Waiting
  <2>9. Whole'
    <3>1. <<>> \o received' = received'
      BY <1>5, ConcatEmptySeq
    <3>2. readers'[use'].data = <<>>
      BY <1>3, <2>1 DEF Unheard
    <3> QED BY <2>6, <3>1, <3>2 DEF Whole
  <2>10. Coming' /\ OneEnd' /\ Own' /\ Bounded'
    BY <1>1, <1>3, <1>5, <1>6, <2>1, <2>6 DEF BodyInv, Coming, OneEnd, Own, Bounded
  <2> QED BY <2>4, <2>7, <2>8, <2>9, <2>10 DEF BodyInv
<1> QED BY <1>8, <1>9

\* The stream ends: the reader and the callback that are there hear of it.
LEMMA StreamEnds ==
  ASSUME BodyInv, NEW how \in {"ok", "exception"}, Streaming, progress = "body",
         progress' \in {"end", "broken"},
         EndReader(how), RunCallback, UNCHANGED <<use, asked>>
  PROVE  /\ readers' \in [Uses -> Heard] /\ waits' \in [Uses -> Nat]
         /\ reader' = 0 /\ finishCb' = 0
         /\ \A u \in Uses : readers'[u].data = readers[u].data
         /\ asked = "reads" => readers'[use].ends = <<how>>
         /\ asked # "reads" => readers'[use] = Unheard
         /\ Waiting' /\ Coming' /\ OneEnd'
<1>1. use \in Uses /\ readers \in [Uses -> Heard] /\ waits \in [Uses -> Nat] /\ use \in Nat \ {0}
      /\ \A u \in Uses : u > use => u # use
  BY BodyAssumption DEF BodyInv, BodyTyped, Uses
<1>2. CASE asked = "reads"
  <2>1. reader = use /\ readers[use].ends = <<>> /\ readers[use] \in Heard
    BY <1>1, <1>2 DEF BodyInv, Reading
  <2>2. readers' = [readers EXCEPT ![use].ends = Append(@, how)] /\ reader' = 0
    BY <1>1, <2>1 DEF EndReader
  <2>3. Append(readers[use].ends, how) = <<how>> /\ <<how>> \in Seq({"ok", "exception"})
        /\ Len(<<how>>) = 1
    BY <2>1
  <2>4. [readers[use] EXCEPT !.ends = <<how>>] \in Heard
    BY <2>1, <2>3 DEF Heard
  <2>5. readers' = [readers EXCEPT ![use] = [readers[use] EXCEPT !.ends = <<how>>]]
    BY <1>1, <2>2, <2>3
  <2>6. /\ readers' \in [Uses -> Heard]
        /\ readers'[use].ends = <<how>> /\ readers'[use].data = readers[use].data
        /\ \A u \in Uses : u # use => readers'[u] = readers[u]
    BY <1>1, <2>1, <2>4, <2>5 DEF Heard
  <2>7. finishCb = 0 /\ waits' = waits /\ finishCb' = 0
    BY <1>2 DEF BodyInv, Waiting, RunCallback
  <2>8. Waiting' /\ Coming'
    BY <1>1, <1>2, <2>6, <2>7 DEF BodyInv, Waiting, Coming
  <2>9. \A u \in Uses : Len(readers'[u].ends) <= 1
    <3>1. Len(readers'[use].ends) <= 1
      BY <2>3, <2>6
    <3>2. \A u \in Uses : u # use => Len(readers'[u].ends) <= 1
      BY <2>6 DEF BodyInv, OneEnd
    <3> QED BY <3>1, <3>2
  <2>10. OneEnd'
    BY <2>7, <2>9 DEF BodyInv, OneEnd
  <2> QED BY <1>1, <1>2, <2>2, <2>6, <2>7, <2>8, <2>10
<1>3. CASE asked # "reads"
  <2>1. reader = 0 /\ readers[use] = Unheard /\ readers' = readers /\ reader' = 0
    BY <1>3 DEF BodyInv, Reading, EndReader
  <2>2. CASE asked = "waits"
    <3>1. finishCb = use /\ waits[use] = 0
      BY <2>2 DEF BodyInv, Waiting
    <3>2. finishCb' = 0 /\ waits' = [waits EXCEPT ![use] = 1]
      BY <1>1, <3>1 DEF RunCallback
    <3>3. Waiting' /\ Coming' /\ OneEnd' /\ waits' \in [Uses -> Nat]
      BY <1>1, <2>1, <2>2, <3>2 DEF BodyInv, Waiting, Coming, OneEnd
    <3> QED BY <1>1, <1>3, <2>1, <3>2, <3>3
  <2>3. CASE asked # "waits"
    <3>1. finishCb = 0 /\ finishCb' = 0 /\ waits' = waits
      BY <2>3 DEF BodyInv, Waiting, RunCallback
    <3>2. Waiting' /\ Coming' /\ OneEnd'
      BY <2>1, <2>3, <3>1 DEF BodyInv, Waiting, Coming, OneEnd
    <3> QED BY <1>1, <1>3, <2>1, <3>1, <3>2
  <2> QED BY <2>2, <2>3
<1> QED BY <1>2, <1>3

LEMMA EndKeeps ==
  ASSUME BodyInv, End
  PROVE  BodyInv'
<1>1. /\ progress = "body" /\ progress' = "end"
      /\ UNCHANGED <<use, received, content, file, exception, asked, unpacked>>
  BY DEF End
<1>2. ~unpacked /\ ~exception
  BY <1>1 DEF BodyInv, Stages, Reading
<1>3. CASE Streaming
  <2>1. status' = "finish" /\ RunCallback /\ EndReader("ok")
    BY <1>3 DEF End
  <2>2. /\ readers' \in [Uses -> Heard] /\ waits' \in [Uses -> Nat]
        /\ reader' = 0 /\ finishCb' = 0
        /\ \A u \in Uses : readers'[u].data = readers[u].data
        /\ asked = "reads" => readers'[use].ends = <<"ok">>
        /\ asked # "reads" => readers'[use] = Unheard
        /\ Waiting' /\ Coming' /\ OneEnd'
    BY <1>1, <1>3, <2>1, StreamEnds
  <2>3. HeldOfUse(Stored)' = HeldOfUse(Stored) /\ Shaped(Stored)' /\ Bounded' /\ Own'
    BY <1>1, <2>2, KeptUntouched
  <2>4. BodyTyped'
    BY <1>1, <2>1, <2>2 DEF BodyInv, BodyTyped
  <2>5. Stages'
    BY <1>1, <1>2, <2>1 DEF Stages
  <2>6. Reading'
    BY <1>1, <1>2, <2>1, <2>2 DEF Reading
  <2>7. Whole'
    BY <1>1, <2>2, <2>3 DEF BodyInv, BodyTyped, Whole
  <2> QED BY <2>2, <2>3, <2>4, <2>5, <2>6, <2>7 DEF BodyInv
<1>4. CASE ~Streaming
  <2>1. UNCHANGED <<status, finishCb, waits, readers, reader>>
    BY <1>4 DEF End
  <2>2. status = "none" /\ asked = "nothing"
    BY <1>1, <1>4 DEF BodyInv, Stages, Streaming, BodyTyped
  <2>3. HeldOfUse(Stored)' = HeldOfUse(Stored) /\ Shaped(Stored)' /\ Bounded' /\ Own' /\ Whole'
    BY <1>1, <2>1, KeptUntouched
  <2>4. BodyTyped' /\ Stages'
    BY <1>1, <1>2, <2>1, <2>2 DEF BodyInv, BodyTyped, Stages
  <2>5. Reading' /\ Waiting' /\ Coming' /\ OneEnd'
    BY <1>1, <1>2, <2>1, <2>2 DEF BodyInv, Reading, Waiting, Coming, OneEnd
  <2> QED BY <2>3, <2>4, <2>5 DEF BodyInv
<1> QED BY <1>3, <1>4

LEMMA BreakKeeps ==
  ASSUME BodyInv, Break
  PROVE  BodyInv'
<1>1. /\ progress = "body" /\ progress' = "broken"
      /\ UNCHANGED <<use, received, content, file, asked, unpacked>>
  BY DEF Break
<1>2. ~unpacked /\ ~exception
  BY <1>1 DEF BodyInv, Stages, Reading
<1>3. CASE Streaming
  <2>1. status' = "error" /\ exception' = (reader = 0) /\ RunCallback /\ EndReader("exception")
    BY <1>3 DEF Break
  <2>2. /\ readers' \in [Uses -> Heard] /\ waits' \in [Uses -> Nat]
        /\ reader' = 0 /\ finishCb' = 0
        /\ \A u \in Uses : readers'[u].data = readers[u].data
        /\ asked = "reads" => readers'[use].ends = <<"exception">>
        /\ asked # "reads" => readers'[use] = Unheard
        /\ Waiting' /\ Coming' /\ OneEnd'
    BY <1>1, <1>3, <2>1, StreamEnds
  <2>3. HeldOfUse(Stored)' = HeldOfUse(Stored) /\ Shaped(Stored)' /\ Bounded' /\ Own'
    BY <1>1, <2>2, KeptUntouched
  <2>4. BodyTyped'
    BY <1>1, <2>1, <2>2 DEF BodyInv, BodyTyped
  <2>5. Stages'
    BY <1>1, <1>2, <2>1 DEF Stages
  <2>6. asked = "reads" => reader # 0
    BY <1>1 DEF BodyInv, BodyTyped, Reading, Uses
  <2>7. asked # "reads" => reader = 0
    BY DEF BodyInv, Reading
  <2>8. Reading'
    BY <1>1, <2>1, <2>2, <2>6, <2>7 DEF Reading
  <2>9. Whole'
    BY <1>1, <2>2, <2>3 DEF BodyInv, BodyTyped, Whole
  <2> QED BY <2>2, <2>3, <2>4, <2>5, <2>8, <2>9 DEF BodyInv
<1>4. CASE ~Streaming
  <2>1. UNCHANGED <<status, exception, finishCb, waits, readers, reader>>
    BY <1>4 DEF Break
  <2>2. status = "none" /\ asked = "nothing"
    BY <1>1, <1>4 DEF BodyInv, Stages, Streaming, BodyTyped
  <2>3. HeldOfUse(Stored)' = HeldOfUse(Stored) /\ Shaped(Stored)' /\ Bounded' /\ Own' /\ Whole'
    BY <1>1, <2>1, KeptUntouched
  <2>4. BodyTyped' /\ Stages'
    BY <1>1, <1>2, <2>1, <2>2 DEF BodyInv, BodyTyped, Stages
  <2>5. Reading' /\ Waiting' /\ Coming' /\ OneEnd'
    BY <1>1, <1>2, <2>1, <2>2 DEF BodyInv, Reading, Waiting, Coming, OneEnd
  <2> QED BY <2>3, <2>4, <2>5 DEF BodyInv
<1> QED BY <1>3, <1>4

LEMMA SetStreamReaderKeeps ==
  ASSUME BodyInv, setStreamReader
  PROVE  BodyInv'
<1>1. /\ Streaming /\ asked = "nothing" /\ asked' = "reads"
      /\ UNCHANGED <<use, progress, received, status, finishCb, waits, unpacked>>
  BY DEF setStreamReader
<1>2. /\ use \in Uses /\ readers \in [Uses -> Heard] /\ use # 0
      /\ readers[use] = Unheard /\ ~unpacked /\ reader = 0 /\ progress # "head"
      /\ \A u \in Uses : u > use => u # use
  BY <1>1, BodyAssumption DEF BodyInv, BodyTyped, Uses, Reading, Stages, Streaming
<1>3. \/ status = "open" /\ progress = "body"
      \/ status = "finish" /\ progress = "end"
      \/ status = "error" /\ progress = "broken"
  BY <1>1 DEF BodyInv, BodyTyped, Stages, Streaming
<1>4. <<>> \in Seq(Piece) /\ <<>> \in Seq({"ok", "exception"}) /\ Len(<<>>) = 0
  OBVIOUS
<1>5. Waiting'
  BY <1>1 DEF BodyInv, Waiting
<1>6. Stages'
  <2>1. progress = "body" => status = "open"
    BY <1>3
  <2> QED BY <1>1, <1>2, <2>1 DEF BodyInv, Stages
<1>7. CASE exception
  <2>1. /\ readers' = [readers EXCEPT ![use].ends = Append(@, "exception")]
        /\ exception' = FALSE
        /\ UNCHANGED <<content, file, reader>>
    BY <1>7 DEF setStreamReader
  <2>2. progress = "broken"
    BY <1>7 DEF BodyInv, Reading
  <2> DEFINE heard == [data |-> <<>>, ends |-> <<"exception">>]
  <2>3. heard \in Heard /\ Len(heard.ends) = 1 /\ heard.data = <<>>
    BY <1>4 DEF Heard
  <2>4. [readers[use] EXCEPT !.ends = Append(@, "exception")] = heard
    BY <1>2 DEF Unheard
  <2>5. /\ readers' \in [Uses -> Heard] /\ readers'[use] = heard
        /\ \A u \in Uses : u # use => readers'[u] = readers[u]
    BY <1>2, <2>1, <2>3, <2>4
  <2>6. \A u \in Uses : readers'[u].data = readers[u].data
    BY <1>2, <2>3, <2>5 DEF Unheard
  <2>7. HeldOfUse(Stored)' = HeldOfUse(Stored) /\ Shaped(Stored)' /\ Bounded' /\ Own'
    BY <1>1, <2>1, <2>6, KeptUntouched
  <2>8. BodyTyped'
    BY <1>1, <2>1, <2>5 DEF BodyInv, BodyTyped
  <2>9. Reading'
    BY <1>1, <1>2, <2>1, <2>2, <2>5 DEF Reading
  <2>10. Whole'
    BY <1>1, <1>2, <2>6, <2>7 DEF BodyInv, Whole
  <2>11. Coming'
    BY <1>1, <1>2, <2>5 DEF BodyInv, Coming
  <2>12. OneEnd'
    <3>1. Len(readers'[use].ends) <= 1
      BY <2>3, <2>5
    <3>2. \A u \in Uses : u # use => Len(readers'[u].ends) <= 1
      BY <2>5 DEF BodyInv, OneEnd
    <3> QED BY <1>1, <3>1, <3>2 DEF BodyInv, OneEnd
  <2> QED BY <1>5, <1>6, <2>7, <2>8, <2>9, <2>10, <2>11, <2>12 DEF BodyInv
<1>8. CASE ~exception
  <2>1. status # "error"
    BY <1>1, <1>8 DEF BodyInv, Reading
  <2> DEFINE ends == IF status = "finish" THEN <<"ok">> ELSE <<>>
             heard == [data |-> received, ends |-> ends]
  <2>2. HeldBody = HeldOfUse(Stored) /\ <<>> \o HeldOfUse(Stored) = received /\ HeldOfUse(Stored) = received
    <3>1. HeldBody = HeldOfUse(Stored)
      BY DEF HeldBody, HeldOfUse, Stored
    <3>2. <<>> \o HeldOfUse(Stored) = received
      BY <1>2 DEF BodyInv, Whole, Unheard
    <3>3. HeldOfUse(Stored) \in Seq(Piece)
      BY HeldIsTyped DEF BodyInv
    <3> QED BY <3>1, <3>2, <3>3, ConcatEmptySeq
  <2>3. /\ readers' = [readers EXCEPT
                         ![use] = [data |-> @.data \o HeldBody,
                                   ends |-> IF status = "finish" THEN Append(@.ends, "ok")
                                            ELSE @.ends]]
        /\ file' = NoFile
        /\ content' = IF file.open THEN content ELSE <<>>
        /\ reader' = IF status = "finish" THEN reader ELSE use
        /\ UNCHANGED exception
    BY <1>8 DEF setStreamReader
  <2>4. heard \in Heard /\ Len(ends) <= 1
    <3>1. ends \in Seq({"ok", "exception"}) /\ Len(ends) <= 1
      <4>1. <<"ok">> \in Seq({"ok", "exception"}) /\ Len(<<"ok">>) = 1
        OBVIOUS
      <4>2. ends = <<>> \/ ends = <<"ok">>
        OBVIOUS
      <4> HIDE DEF ends
      <4>3. CASE ends = <<>>
        <5>1. ends \in Seq({"ok", "exception"}) /\ Len(ends) = 0
          BY <1>4, <4>3, Zenon
        <5> HIDE <4>3
        <5> QED BY <5>1
      <4>4. CASE ends = <<"ok">>
        BY <4>1, <4>4
      <4> QED BY <4>2, <4>3, <4>4
    <3>2. received \in Seq(Piece)
      BY DEF BodyInv, BodyTyped
    <3> QED BY <3>1, <3>2 DEF Heard
  <2>5. readers' = [readers EXCEPT ![use] = heard]
    <3>1. readers[use].data \o HeldBody = received
      BY <1>2, <2>2 DEF Unheard
    <3>2. (IF status = "finish" THEN Append(readers[use].ends, "ok") ELSE readers[use].ends) = ends
      BY <1>2 DEF Unheard
    <3> QED BY <1>2, <2>3, <3>1, <3>2
  <2>6. /\ readers' \in [Uses -> Heard] /\ readers'[use] = heard
        /\ \A u \in Uses : u # use => readers'[u] = readers[u]
    BY <1>2, <2>4, <2>5
  <2> HIDE DEF ends
  <2>7. heard.data = received /\ heard.ends = ends
    OBVIOUS
  <2> HIDE DEF heard
  <2>8. content' = <<>> /\ file' = NoFile
    BY <2>3 DEF BodyInv, Shaped, Stored
  <2>9. HeldOfUse(Stored)' = <<>> /\ Shaped(Stored)'
    BY <1>4, <2>8, BodyAssumption DEF HeldOfUse, Stored, NoFile, Shaped, Kept
  <2>10. BodyTyped'
    <3>1. content' \in Seq(Piece) /\ file' \in Kept
      BY <2>9 DEF Shaped, Stored
    <3>2. reader' \in {0, use'}
      BY <1>1, <1>2, <2>3
    <3> QED BY <1>1, <2>3, <2>6, <3>1, <3>2 DEF BodyInv, BodyTyped
  <2>11. Reading'
    <3>1. status = "open" => reader' = use /\ ends = <<>>
      BY <2>3 DEF ends
    <3>2. status = "finish" => reader' = 0 /\ ends = <<"ok">>
      BY <1>2, <2>3 DEF ends
    <3>3. readers'[use'].ends = ends
      BY <1>1, <2>6, <2>7
    <3> QED BY <1>1, <1>3, <1>8, <2>1, <2>3, <2>9, <3>1, <3>2, <3>3 DEF Reading
  <2>12. Whole'
    <3>1. received \in Seq(Piece)
      BY DEF BodyInv, BodyTyped
    <3>2. received \o <<>> = received
      BY <3>1, ConcatEmptySeq
    <3> QED BY <1>1, <2>6, <2>7, <2>9, <3>2 DEF Whole
  <2>13. Coming'
    BY <1>1, <1>2, <2>6 DEF BodyInv, Coming
  <2>14. OneEnd'
    BY <1>1, <2>4, <2>6, <2>7 DEF BodyInv, OneEnd
  <2>15. Own'
    BY <1>1, <2>6, <2>7, <2>9 DEF BodyInv, Own, OfUse
  <2>16. Bounded'
    BY <1>1, <1>4, <2>9, BodyAssumption DEF BodyInv, Bounded
  <2> QED BY <1>5, <1>6, <2>9, <2>10, <2>11, <2>12, <2>13, <2>14, <2>15, <2>16 DEF BodyInv
<1> QED BY <1>7, <1>8

LEMMA WaitKeeps ==
  ASSUME BodyInv, waitForStreamFinish
  PROVE  BodyInv'
<1>1. /\ Streaming /\ asked = "nothing" /\ asked' = "waits"
      /\ UNCHANGED <<use, progress, received, content, file, status, reader, exception, readers,
                     unpacked>>
  BY DEF waitForStreamFinish
<1>2. use \in Uses /\ use # 0 /\ waits \in [Uses -> Nat] /\ waits[use] = 0 /\ finishCb = 0
      /\ \A u \in Uses : u > use => u # use
  BY <1>1, BodyAssumption DEF BodyInv, BodyTyped, Uses, Waiting
<1>3. HeldOfUse(Stored)' = HeldOfUse(Stored) /\ Shaped(Stored)' /\ Bounded' /\ Own' /\ Whole'
  BY <1>1, KeptUntouched
<1>4. /\ progress = "body" => status = "open"
      /\ status = "open" => progress = "body"
  BY <1>1 DEF BodyInv, BodyTyped, Stages, Streaming
<1>5. Stages'
  BY <1>1, <1>3, <1>4 DEF BodyInv, Stages, Streaming
<1>6. Reading'
  BY <1>1 DEF BodyInv, Reading
<1>7. CASE status = "open"
  <2>1. finishCb' = use /\ waits' = waits
    BY <1>7 DEF waitForStreamFinish
  <2>2. BodyTyped'
    BY <1>1, <2>1 DEF BodyInv, BodyTyped
  <2>3. Waiting' /\ Coming' /\ OneEnd'
    BY <1>1, <1>2, <1>4, <1>7, <2>1 DEF BodyInv, Waiting, Coming, OneEnd
  <2> QED BY <1>3, <1>5, <1>6, <2>2, <2>3 DEF BodyInv
<1>8. CASE status # "open"
  <2>1. finishCb' = finishCb /\ waits' = [waits EXCEPT ![use] = 1]
    BY <1>2, <1>8 DEF waitForStreamFinish
  <2>2. waits' \in [Uses -> Nat] /\ waits'[use] = 1 /\ \A u \in Uses : u # use => waits'[u] = waits[u]
    BY <1>2, <2>1
  <2>3. BodyTyped'
    BY <1>1, <2>1, <2>2 DEF BodyInv, BodyTyped
  <2>4. Waiting' /\ Coming' /\ OneEnd'
    BY <1>1, <1>2, <1>4, <1>8, <2>1, <2>2 DEF BodyInv, Waiting, Coming, OneEnd
  <2> QED BY <1>3, <1>5, <1>6, <2>3, <2>4 DEF BodyInv
<1> QED BY <1>7, <1>8

LEMMA QuitKeeps ==
  ASSUME BodyInv, quitStreamMode
  PROVE  BodyInv'
<1>1. /\ status \in {"finish", "error"} /\ asked = "waits" /\ status' = "none"
      /\ UNCHANGED <<use, progress, received, content, file, reader, exception, finishCb, asked,
                     readers, waits, unpacked>>
  BY DEF quitStreamMode
<1>2. HeldOfUse(Stored)' = HeldOfUse(Stored) /\ Shaped(Stored)' /\ Bounded' /\ Own' /\ Whole'
  BY <1>1, KeptUntouched
<1>3. progress \in {"end", "broken"}
  BY <1>1 DEF BodyInv, Stages
<1>4. BodyTyped' /\ Stages'
  BY <1>1, <1>2, <1>3 DEF BodyInv, BodyTyped, Stages
<1>5. Reading' /\ Waiting' /\ Coming' /\ OneEnd'
  BY <1>1, <1>2 DEF BodyInv, Reading, Waiting, Coming, OneEnd
<1> QED BY <1>2, <1>4, <1>5 DEF BodyInv

LEMMA DecompressKeeps ==
  ASSUME BodyInv, Decompress
  PROVE  BodyInv'
<1>1. /\ progress = "end" /\ ~Streaming /\ unpacked' = TRUE
      /\ UNCHANGED <<use, progress, received, status, reader, exception, finishCb, asked, readers,
                     waits>>
  BY DEF Decompress
<1>2. PICK n \in 0..(MaxBody + 1) :
        /\ n <= MaxBody
        /\ \/ Store(KeepAll(n))
           \/ content' = <<>> /\ file' = KeepAll(n).file
  BY DEF Decompress, WithinMax
<1>3. n \in Nat /\ use \in Uses /\ MaxBody \in Nat /\ MaxMemory \in Nat
  BY <1>2, BodyAssumption DEF BodyInv, BodyTyped
<1>4. Shaped(KeepAll(n)) /\ OfUse(HeldOfUse(KeepAll(n)), use) /\ Len(HeldOfUse(KeepAll(n))) = n
  BY <1>3, KeepAllIs
<1>5. <<>> \in Seq(Piece) /\ Len(<<>>) = 0 /\ OfUse(<<>>, use)
  BY DEF OfUse
<1>6. Shaped(Stored)' /\ OfUse(HeldOfUse(Stored)', use) /\ Len(HeldOfUse(Stored)') <= MaxBody
  <2>1. CASE Store(KeepAll(n))
    <3>1. Stored' = KeepAll(n)
      BY <1>4, <2>1 DEF Store, Stored, Shaped
    <3> QED BY <1>2, <1>4, <3>1
  <2>2. CASE content' = <<>> /\ file' = KeepAll(n).file
    <3>1. CASE KeepAll(n).file.open
      <4>1. KeepAll(n) = [content |-> <<>>, file |-> KeepAll(n).file]
        BY <1>4, <3>1 DEF Shaped
      <4>2. Stored' = KeepAll(n)
        BY <2>2, <4>1 DEF Stored
      <4> QED BY <1>2, <1>4, <4>2
    <3>2. CASE ~KeepAll(n).file.open
      <4>1. HeldOfUse(Stored)' = <<>>
        BY <2>2, <3>2 DEF HeldOfUse, Stored
      <4>2. Shaped(Stored)'
        BY <1>3, <1>4, <1>5, <2>2, <3>2 DEF Shaped, Stored
      <4> QED BY <1>3, <1>5, <4>1, <4>2
    <3> QED BY <3>1, <3>2
  <2> QED BY <1>2, <2>1, <2>2
<1>7. BodyTyped'
  <2>1. content' \in Seq(Piece) /\ file' \in Kept
    BY <1>6 DEF Shaped, Stored
  <2> QED BY <1>1, <2>1 DEF BodyInv, BodyTyped
<1>8. Stages'
  BY <1>1 DEF BodyInv, Stages, Streaming
<1>9. Reading' /\ Waiting' /\ Coming' /\ OneEnd' /\ Whole'
  BY <1>1 DEF BodyInv, Reading, Waiting, Coming, OneEnd, Whole
<1>10. Own' /\ Bounded'
  BY <1>1, <1>6 DEF BodyInv, Own, Bounded
<1> QED BY <1>6, <1>7, <1>8, <1>9, <1>10 DEF BodyInv

LEMMA ResetKeeps ==
  ASSUME BodyInv, reset
  PROVE  BodyInv'
<1>1. /\ use < MaxUses /\ use' = use + 1 /\ progress' = "head"
      /\ received' = <<>> /\ content' = <<>> /\ file' = NoFile
      /\ status' = "none" /\ reader' = 0 /\ finishCb' = 0 /\ exception' = FALSE
      /\ asked' = "nothing" /\ unpacked' = FALSE /\ UNCHANGED <<readers, waits>>
  BY DEF reset, ResetStream
<1>2. use' \in Uses /\ use' > use /\ \A u \in Uses : u > use' => u > use
  BY <1>1, BodyAssumption DEF BodyInv, BodyTyped, Uses
<1>3. readers'[use'] = Unheard /\ waits'[use'] = 0
  BY <1>1, <1>2 DEF BodyInv, Coming
<1>4. <<>> \in Seq(Piece) /\ Len(<<>>) = 0 /\ <<>> \o <<>> = <<>>
      /\ MaxMemory \in Nat /\ MaxBody \in Nat
  BY BodyAssumption
<1>5. HeldOfUse(Stored)' = <<>> /\ Shaped(Stored)'
  BY <1>1, <1>4 DEF HeldOfUse, Stored, NoFile, Shaped, Kept
<1>6. BodyTyped'
  <2>1. file' \in Kept
    BY <1>5 DEF Shaped, Stored
  <2> QED BY <1>1, <1>2, <1>4, <2>1 DEF BodyInv, BodyTyped
<1>7. Stages' /\ Reading' /\ Waiting'
  BY <1>1, <1>3, <1>5 DEF Stages, Reading, Waiting
<1>8. Whole'
  BY <1>3, <1>1, <1>4, <1>5 DEF Whole, Unheard
<1>9. Coming' /\ OneEnd'
  BY <1>1, <1>2 DEF BodyInv, Coming, OneEnd
<1>10. Own' /\ Bounded'
  BY <1>1, <1>4, <1>5 DEF BodyInv, Own, OfUse, Bounded
<1> QED BY <1>5, <1>6, <1>7, <1>8, <1>9, <1>10 DEF BodyInv

LEMMA BodyStays ==
  ASSUME BodyInv, UNCHANGED bodyVars
  PROVE  BodyInv'
<1>1. UNCHANGED <<use, progress, received, content, file, status, reader, exception, finishCb,
                  asked, readers, waits, unpacked>>
  BY DEF bodyVars
<1>2. HeldOfUse(Stored)' = HeldOfUse(Stored) /\ Shaped(Stored)' /\ Bounded' /\ Own' /\ Whole'
  BY <1>1, KeptUntouched
<1>3. BodyTyped' /\ Stages' /\ Reading' /\ Waiting' /\ Coming' /\ OneEnd'
  BY <1>1, <1>2 DEF BodyInv, BodyTyped, Stages, Reading, Waiting, Coming, OneEnd
<1> QED BY <1>2, <1>3 DEF BodyInv

\* Whenever a reader or a callback comes, between the pieces of a body and its end, the
\* handler gets the whole body of its own request, no piece of another's, and hears of the
\* end once; neither memory nor file grows past its limit.
THEOREM BodiesArriveWhole == BodySpec => []BodyExact
<1>1. BodyInv /\ [BodyNext]_bodyVars => BodyInv'
  <2> SUFFICES ASSUME BodyInv, [BodyNext]_bodyVars PROVE BodyInv'
    OBVIOUS
  <2> QED BY HeadersKeeps, AppendKeeps, EndKeeps, BreakKeeps, SetStreamReaderKeeps, WaitKeeps,
             QuitKeeps, DecompressKeeps, ResetKeeps, BodyStays DEF BodyNext
<1> QED BY BodyStarts, BodyInvIsEnough, <1>1, PTL DEF BodySpec

-----------------------------------------------------------------------------
(* Session ids: who has been given which, and the notices of their ends.   *)

Ids == 1..MaxIds
Session == [id : Ids, needToSet : BOOLEAN, needToChange : BOOLEAN]
SlotOf == [session : Nat \ {0}, touched : Nat]
Task == [id : Ids, due : Nat]
Asking == [cookie : 0..MaxIds, session : Nat]
Notice == [id : 0..MaxIds, old : 0..MaxIds, set : BOOLEAN]
Count == [started : Nat, destroyed : Nat]

SessionsTyped == sessions \in Seq(Session)
SlotsTyped ==
  /\ DOMAIN slots \subseteq Ids
  /\ \A id \in DOMAIN slots : slots[id] \in SlotOf /\ slots[id].session <= Len(sessions)
RequestsTyped ==
  /\ requests \in [Clients -> Seq(Asking)]
  /\ \A c \in Clients : \A i \in 1..Len(requests[c]) : requests[c][i].session <= Len(sessions)
OthersTyped ==
  /\ ticks \in Nat
  /\ erasures \subseteq Task
  /\ cookie \in [Clients -> 0..MaxIds]
  /\ owner \in [Ids -> Nat] /\ retired \in [Ids -> Nat] /\ used \in [Ids -> Nat]
  /\ announcing \in [Announcers -> Notice]
  /\ notices \in [Ids -> Count]
SessionTyped == SessionsTyped /\ SlotsTyped /\ RequestsTyped /\ OthersTyped

\* The ids that the generator has handed out come first.
Given(id) == owner[id] > 0
GivenFirst == \E n \in 0..MaxIds : \A id \in Ids : Given(id) <=> id <= n

SlotsAreOwned ==
  \A id \in DOMAIN slots : owner[id] = slots[id].session /\ used[id] = slots[id].touched

\* Only those ids are anywhere.
SessionsGiven == \A i \in 1..Len(sessions) : Given(sessions[i].id)
CookiesGiven ==
  /\ \A c \in Clients : cookie[c] # 0 => Given(cookie[c])
  /\ \A c \in Clients : \A i \in 1..Len(requests[c]) :
       requests[c][i].cookie # 0 => Given(requests[c][i].cookie)
NoticesGiven ==
  \A t \in Announcers : announcing[t] # Quiet =>
    announcing[t].id \in Ids /\ (t # "loop" => Given(announcing[t].id))

\* An id that leads nowhere any more was not used for the timeout, or replaced and erased.
GoneInTime ==
  \A id \in Ids : Given(id) =>
    \/ id \in DOMAIN slots
    \/ ticks >= used[id] + Timeout
    \/ ticks >= retired[id] + Grace

\* A task comes no sooner than the grace after its id was replaced.
DueAfterGrace ==
  /\ \A e \in erasures : e.due >= retired[e.id] + Grace
  /\ \A c \in Clients :
       announcing[c].old # 0 => announcing[c].old \in Ids /\ retired[announcing[c].old] <= ticks

\* The starts of an id, with those about to be announced, are no more than its ends, with
\* the one about to be announced and the one to come of its slot.
Starting(id) == {c \in Clients : announcing[c].id = id}
Ending(id) == IF announcing["loop"].id = id THEN 1 ELSE 0
Slots(id) == IF id \in DOMAIN slots THEN 1 ELSE 0
Balanced ==
  \A id \in Ids :
    /\ IsFiniteSet(Starting(id))
    /\ notices[id].started + Cardinality(Starting(id))
         <= notices[id].destroyed + Ending(id) + Slots(id)

SessionInv ==
  /\ SessionTyped /\ GivenFirst /\ SlotsAreOwned
  /\ SessionsGiven /\ CookiesGiven /\ NoticesGiven
  /\ GoneInTime /\ DueAfterGrace /\ OldIdReleased /\ Balanced

-----------------------------------------------------------------------------
LEMMA QuietIs ==
  /\ Quiet \in Notice /\ Quiet.id = 0 /\ Quiet.old = 0
  /\ \A id \in Ids : [Quiet EXCEPT !.id = id] \in Notice /\ [Quiet EXCEPT !.id = id].id = id
                     /\ [Quiet EXCEPT !.id = id].old = 0 /\ [Quiet EXCEPT !.id = id] # Quiet
                     /\ id # 0
<1>1. Ids \subseteq 0..MaxIds /\ 0 \in 0..MaxIds /\ \A id \in Ids : id # 0
  BY SessionAssumption DEF Ids
<1>2. Quiet \in Notice /\ Quiet.id = 0 /\ Quiet.old = 0
  BY <1>1 DEF Quiet, Notice
<1>3. ASSUME NEW id \in Ids
      PROVE  [Quiet EXCEPT !.id = id] \in Notice /\ [Quiet EXCEPT !.id = id].id = id
             /\ [Quiet EXCEPT !.id = id].old = 0
  BY <1>1 DEF Quiet, Notice
<1>4. \A id \in Ids : [Quiet EXCEPT !.id = id] # Quiet
  BY <1>1, <1>2, <1>3
<1> QED BY <1>1, <1>2, <1>3, <1>4

LEMMA FreshIdIs ==
  ASSUME OthersTyped, GivenFirst
  PROVE  /\ FreshId \in Nat \ {0}
         /\ \A id \in Ids : Given(id) <=> id < FreshId
<1>1. PICK n \in 0..MaxIds : \A id \in Ids : Given(id) <=> id <= n
  BY DEF GivenFirst
<1>2. {id \in 1..MaxIds : owner[id] > 0} = 1..n
  BY <1>1, SessionAssumption DEF Given, Ids
<1>3. Cardinality(1..n) = n
  BY FS_Interval
<1>4. FreshId = 1 + n
  BY <1>2, <1>3 DEF FreshId
<1> QED BY <1>1, <1>4, SessionAssumption DEF Ids

\* An id that is known, or the next one, is given to a session.
LEMMA OwnerGiven ==
  ASSUME OthersTyped, GivenFirst, NEW id \in Ids, id <= FreshId, NEW s \in Nat \ {0},
         owner' = [owner EXCEPT ![id] = s]
  PROVE  /\ owner' \in [Ids -> Nat] /\ GivenFirst' /\ Given(id)'
         /\ \A k \in Ids : k # id => owner'[k] = owner[k]
         /\ owner'[id] = s
         /\ \A k \in Ids : Given(k) => Given(k)'
<1>1. FreshId \in Nat \ {0} /\ \A k \in Ids : Given(k) <=> k < FreshId
  BY FreshIdIs
<1>2. owner \in [Ids -> Nat]
  BY DEF OthersTyped
<1>3. /\ owner' \in [Ids -> Nat] /\ owner'[id] = s
      /\ \A k \in Ids : k # id => owner'[k] = owner[k]
  BY <1>2
<1>4. Given(id)' /\ \A k \in Ids : k # id => (Given(k)' <=> Given(k))
  BY <1>2, <1>3 DEF Given
<1>5. PICK n \in 0..MaxIds : \A k \in Ids : Given(k) <=> k <= n
  BY DEF GivenFirst
<1>6. GivenFirst'
  <2>1. CASE Given(id)
    <3>1. \A k \in Ids : Given(k)' <=> k <= n
      BY <1>4, <1>5, <2>1
    <3> QED BY <3>1 DEF GivenFirst
  <2>2. CASE ~Given(id)
    <3>1. id = FreshId
      BY <1>1, <2>2 DEF Ids
    <3>2. id \in 0..MaxIds /\ \A k \in Ids : Given(k)' <=> k <= id
      BY <1>1, <1>4, <3>1 DEF Ids
    <3> QED BY <3>2 DEF GivenFirst
  <2> QED BY <2>1, <2>2
<1> QED BY <1>3, <1>4, <1>6

LEMMA SlotIs ==
  ASSUME NEW id \in Ids, NEW s, SlotsTyped, slots' = Slot(id, s)
  PROVE  /\ DOMAIN slots' = DOMAIN slots \cup {id}
         /\ slots'[id] = [session |-> s, touched |-> ticks]
         /\ \A k \in DOMAIN slots : k # id => slots'[k] = slots[k]
BY DEF Slot

LEMMA SessionInvIsEnough == SessionInv => IdsAccounted
<1> SUFFICES ASSUME SessionInv PROVE IdsAccounted
  OBVIOUS
<1>1. NoticesPaired
  <2> SUFFICES ASSUME NEW id \in 1..MaxIds
               PROVE  LET open == notices[id].started - notices[id].destroyed
                      IN  /\ id \notin DOMAIN slots /\ (\A t \in Announcers : announcing[t].id # id) => open <= 0
                          /\ open <= IF announcing["loop"].id = id THEN 2 ELSE 1
    BY DEF NoticesPaired
  <2>1. id \in Ids /\ notices[id].started \in Nat /\ notices[id].destroyed \in Nat
    BY DEF Ids, SessionInv, SessionTyped, OthersTyped, Count
  <2>2. /\ IsFiniteSet(Starting(id))
        /\ notices[id].started + Cardinality(Starting(id))
             <= notices[id].destroyed + Ending(id) + Slots(id)
    BY <2>1 DEF SessionInv, Balanced
  <2>3. Cardinality(Starting(id)) \in Nat
    BY <2>2, FS_CardinalityType
  <2>4. Ending(id) \in {0, 1} /\ Slots(id) \in {0, 1}
    BY DEF Ending, Slots
  <2>5. ~(announcing["loop"].id = id) => Ending(id) = 0
    BY DEF Ending
  <2>6. id \notin DOMAIN slots => Slots(id) = 0
    BY DEF Slots
  <2> HIDE DEF Ending, Slots, Starting
  <2>7. (\A t \in Announcers : announcing[t].id # id) => Ending(id) = 0
    BY <2>5 DEF Announcers
  <2>8. notices[id].started - notices[id].destroyed <= IF announcing["loop"].id = id THEN 2 ELSE 1
    BY <2>1, <2>2, <2>3, <2>4, <2>5
  <2>9. id \notin DOMAIN slots /\ (\A t \in Announcers : announcing[t].id # id)
          => notices[id].started - notices[id].destroyed <= 0
    BY <2>1, <2>2, <2>3, <2>4, <2>6, <2>7
  <2> QED BY <2>8, <2>9
<1> QED BY <1>1 DEF SessionInv, IdsAccounted

LEMMA SessionStarts == SessionInit => SessionInv
<1> SUFFICES ASSUME SessionInit PROVE SessionInv
  OBVIOUS
<1>1. <<>> \in Seq(Session) /\ <<>> \in Seq(Asking) /\ Len(<<>>) = 0 /\ 0 \in Nat
  OBVIOUS
<1>2. SessionsTyped /\ SlotsTyped
  BY <1>1 DEF SessionInit, SessionsTyped, SlotsTyped
<1>3. RequestsTyped
  BY <1>1 DEF SessionInit, RequestsTyped
<1>4. OthersTyped
  <2>1. NoNotices \in [Ids -> Count]
    BY DEF NoNotices, Ids, Count
  <2>2. [t \in Announcers |-> Quiet] \in [Announcers -> Notice]
    BY QuietIs
  <2>3. MaxTicks + 1 \in Nat /\ 0 \in 0..MaxIds
    BY SessionAssumption
  <2> QED BY <2>1, <2>2, <2>3 DEF SessionInit, OthersTyped, Ids
<1>5. \A id \in Ids : ~Given(id)
  BY DEF SessionInit, Given, Ids
<1>6. GivenFirst
  <2>1. 0 \in 0..MaxIds /\ \A id \in Ids : ~(id <= 0)
    BY SessionAssumption DEF Ids
  <2> QED BY <1>5, <2>1 DEF GivenFirst
<1>7. \A t \in Announcers : announcing[t] = Quiet
  BY DEF SessionInit
<1>8. SlotsAreOwned /\ SessionsGiven /\ CookiesGiven /\ NoticesGiven /\ GoneInTime /\ OldIdReleased
  BY <1>1, <1>5, <1>7 DEF SessionInit, SlotsAreOwned, SessionsGiven, CookiesGiven, NoticesGiven,
    GoneInTime, OldIdReleased
<1>9. DueAfterGrace
  BY <1>7, QuietIs DEF SessionInit, DueAfterGrace, Announcers
<1>10. Balanced
  <2>1. \A id \in Ids : Starting(id) = {}
    BY <1>7, QuietIs DEF Starting, Announcers
  <2>2. IsFiniteSet({}) /\ Cardinality({}) = 0
    BY FS_EmptySet
  <2>3. \A id \in Ids : notices[id].started = 0 /\ notices[id].destroyed = 0
    BY DEF SessionInit, NoNotices, Ids
  <2>4. \A id \in Ids : Ending(id) \in {0, 1} /\ Slots(id) \in {0, 1}
    BY DEF Ending, Slots
  <2>5. \A id \in Ids : notices[id].started + Cardinality(Starting(id))
                          <= notices[id].destroyed + Ending(id) + Slots(id)
    <3> SUFFICES ASSUME NEW id \in Ids
                 PROVE notices[id].started + Cardinality(Starting(id))
                          <= notices[id].destroyed + Ending(id) + Slots(id)
      OBVIOUS
    <3>1. Cardinality(Starting(id)) = 0
      BY <2>1, <2>2
    <3> QED BY <2>3, <2>4, <3>1
  <2> QED BY <2>1, <2>2, <2>5 DEF Balanced
<1> QED BY <1>2, <1>3, <1>4, <1>6, <1>8, <1>9, <1>10 DEF SessionInv, SessionTyped

-----------------------------------------------------------------------------
(* The notices *)

LEMMA BalancedStays ==
  ASSUME Balanced, UNCHANGED <<announcing, notices>>, DOMAIN slots \subseteq DOMAIN slots',
         SessionTyped
  PROVE  Balanced'
<1> SUFFICES ASSUME NEW id \in Ids
             PROVE  /\ IsFiniteSet(Starting(id)')
                    /\ notices'[id].started + Cardinality(Starting(id)')
                         <= notices'[id].destroyed + Ending(id)' + Slots(id)'
  BY DEF Balanced
<1>1. Starting(id)' = Starting(id) /\ Ending(id)' = Ending(id)
  BY DEF Starting, Ending
<1>2. Slots(id) <= Slots(id)' /\ Slots(id) \in {0, 1} /\ Slots(id)' \in {0, 1} /\ Ending(id) \in {0, 1}
  BY DEF Slots, Ending
<1>3. notices[id].started \in Nat /\ notices[id].destroyed \in Nat
  BY DEF SessionTyped, OthersTyped, Count
<1>4. /\ IsFiniteSet(Starting(id))
      /\ notices[id].started + Cardinality(Starting(id))
           <= notices[id].destroyed + Ending(id) + Slots(id)
  BY DEF Balanced
<1>5. Cardinality(Starting(id)) \in Nat
  BY <1>4, FS_CardinalityType
<1> HIDE DEF Starting, Ending, Slots
<1> QED BY <1>1, <1>2, <1>3, <1>4, <1>5

\* A session begins under an id that has none; its start is about to be announced.
LEMMA BalancedOpens ==
  ASSUME Balanced, SessionTyped, NEW c \in Clients, announcing[c] = Quiet,
         NEW id \in Ids, id \notin DOMAIN slots, DOMAIN slots' = DOMAIN slots \cup {id},
         NEW a \in Notice, a.id = id, announcing' = [announcing EXCEPT ![c] = a],
         UNCHANGED notices
  PROVE  Balanced'
<1>1. c \in Announcers /\ c # "loop" /\ announcing \in [Announcers -> Notice]
  BY SessionAssumption DEF Announcers, SessionTyped, OthersTyped
<1>2. announcing'[c] = a /\ \A t \in Announcers : t # c => announcing'[t] = announcing[t]
  BY <1>1
<1>3. Quiet.id = 0 /\ \A k \in Ids : k # 0
  BY QuietIs
<1> SUFFICES ASSUME NEW k \in Ids
             PROVE  /\ IsFiniteSet(Starting(k)')
                    /\ notices'[k].started + Cardinality(Starting(k)')
                         <= notices'[k].destroyed + Ending(k)' + Slots(k)'
  BY DEF Balanced
<1>4. Ending(k)' = Ending(k) /\ Ending(k) \in {0, 1} /\ Slots(k) \in {0, 1}
  BY <1>1, <1>2 DEF Ending, Slots, Announcers
<1>5. notices[k].started \in Nat /\ notices[k].destroyed \in Nat
  BY DEF SessionTyped, OthersTyped, Count
<1>6. /\ IsFiniteSet(Starting(k))
      /\ notices[k].started + Cardinality(Starting(k))
           <= notices[k].destroyed + Ending(k) + Slots(k)
  BY DEF Balanced
<1>7. Cardinality(Starting(k)) \in Nat
  BY <1>6, FS_CardinalityType
<1>8. CASE k = id
  <2>1. Starting(k)' = Starting(k) \cup {c} /\ c \notin Starting(k)
    BY <1>1, <1>2, <1>3, <1>8 DEF Starting, Announcers
  <2>2. IsFiniteSet(Starting(k)') /\ Cardinality(Starting(k)') = Cardinality(Starting(k)) + 1
    BY <1>6, <2>1, FS_AddElement
  <2>3. Slots(k) = 0 /\ Slots(k)' = 1
    BY <1>8 DEF Slots
  <2> HIDE DEF Starting, Ending, Slots
  <2> QED BY <1>4, <1>5, <1>6, <1>7, <2>2, <2>3
<1>9. CASE k # id
  <2>1. Starting(k)' = Starting(k)
    BY <1>1, <1>2, <1>3, <1>9 DEF Starting, Announcers
  <2>2. Slots(k)' = Slots(k)
    BY <1>9 DEF Slots
  <2> HIDE DEF Starting, Ending, Slots
  <2> QED BY <1>4, <1>5, <1>6, <1>7, <2>1, <2>2
<1> QED BY <1>8, <1>9

-----------------------------------------------------------------------------
(* The steps *)

LEMMA SendKeeps ==
  ASSUME SessionInv, NEW c \in Clients, Send(c)
  PROVE  SessionInv'
<1>1. /\ requests' = [requests EXCEPT ![c] = Append(@, [cookie |-> cookie[c], session |-> 0])]
      /\ UNCHANGED <<ticks, sessions, slots, erasures, cookie, owner, retired, used, announcing, notices>>
  BY DEF Send
<1>2. /\ requests \in [Clients -> Seq(Asking)] /\ cookie[c] \in 0..MaxIds
      /\ [cookie |-> cookie[c], session |-> 0] \in Asking
  BY DEF SessionInv, SessionTyped, RequestsTyped, OthersTyped, Asking
<1> DEFINE new == [cookie |-> cookie[c], session |-> 0]
<1>3. new.cookie = cookie[c] /\ new.session = 0 /\ new \in Asking
  BY <1>2
<1>4. requests' = [requests EXCEPT ![c] = Append(@, new)]
  BY <1>1
<1> HIDE DEF new
<1>5. /\ requests' \in [Clients -> Seq(Asking)]
      /\ \A d \in Clients : d # c => requests'[d] = requests[d]
      /\ \A i \in 1..Len(requests'[c]) :
           requests'[c][i] = new \/ (i \in 1..Len(requests[c]) /\ requests'[c][i] = requests[c][i])
  <2>1. requests'[c] = Append(requests[c], new) /\ requests[c] \in Seq(Asking)
    BY <1>2, <1>4
  <2>2. Append(requests[c], new) \in Seq(Asking)
    BY <1>3, <2>1
  <2>3. \A i \in 1..Len(requests'[c]) :
          requests'[c][i] = new \/ (i \in 1..Len(requests[c]) /\ requests'[c][i] = requests[c][i])
    BY <1>3, <2>1
  <2> QED BY <1>2, <1>4, <2>1, <2>2, <2>3
<1>6. RequestsTyped'
  <2>1. Len(sessions) \in Nat
    BY DEF SessionInv, SessionTyped, SessionsTyped
  <2>2. ASSUME NEW d \in Clients, NEW i \in 1..Len(requests'[d])
        PROVE  requests'[d][i].session <= Len(sessions)
    <3>1. CASE requests'[d][i] = new
      BY <1>3, <2>1, <3>1
    <3>2. CASE i \in 1..Len(requests[d]) /\ requests'[d][i] = requests[d][i]
      BY <3>2 DEF SessionInv, SessionTyped, RequestsTyped
    <3> QED BY <1>5, <3>1, <3>2
  <2> QED BY <1>1, <1>5, <2>2 DEF RequestsTyped
<1>7. CookiesGiven'
  <2>1. \A d \in Clients : \A i \in 1..Len(requests'[d]) :
          requests'[d][i].cookie # 0 => Given(requests'[d][i].cookie)
    BY <1>3, <1>5 DEF SessionInv, CookiesGiven
  <2> QED BY <1>1, <2>1 DEF SessionInv, CookiesGiven, Given
<1>8. SessionsTyped' /\ SlotsTyped' /\ OthersTyped'
  BY <1>1 DEF SessionInv, SessionTyped, SessionsTyped, SlotsTyped, OthersTyped
<1>9. GivenFirst' /\ SlotsAreOwned' /\ SessionsGiven' /\ NoticesGiven'
  BY <1>1 DEF SessionInv, GivenFirst, SlotsAreOwned, SessionsGiven, NoticesGiven, Given
<1>10. GoneInTime' /\ DueAfterGrace' /\ OldIdReleased'
  BY <1>1 DEF SessionInv, GoneInTime, DueAfterGrace, OldIdReleased, Given
<1>11. Balanced'
  BY <1>1, BalancedStays DEF SessionInv
<1> QED BY <1>6, <1>7, <1>8, <1>9, <1>10, <1>11 DEF SessionInv, SessionTyped

\* The next request to be looked at is one.
LEMMA UpcomingIs ==
  ASSUME RequestsTyped, NEW c \in Clients, Unfound(c) # {}
  PROVE  Upcoming(c) \in 1..Len(requests[c]) /\ requests[c][Upcoming(c)].session = 0
<1>1. Unfound(c) \subseteq 1..Len(requests[c]) /\ Unfound(c) \subseteq Nat
  BY DEF Unfound, RequestsTyped
<1>2. \E i \in Unfound(c) : \A j \in Unfound(c) : i <= j
  BY <1>1, LeastNumber
<1>3. Upcoming(c) \in Unfound(c)
  <2> HIDE DEF Unfound
  <2> QED BY <1>2 DEF Upcoming
<1> QED BY <1>1, <1>3 DEF Unfound

\* What findSessionForRequest finds or makes.
FindsAt(c, i, id, n) ==
  /\ id = IF requests[c][i].cookie = 0 THEN FreshId ELSE requests[c][i].cookie
  /\ slots' = Slot(id, n)
  /\ requests' = [requests EXCEPT ![c][i].session = n]
  /\ owner' = [owner EXCEPT ![id] = n]
  /\ used' = [used EXCEPT ![id] = ticks]
  /\ \/ id \in DOMAIN slots /\ n = slots[id].session /\ UNCHANGED <<sessions, announcing>>
     \/ /\ id \notin DOMAIN slots /\ n = Len(sessions) + 1
        /\ \E b \in BOOLEAN : sessions' = Append(sessions, NewSession(id, b))
        /\ announcing' = [announcing EXCEPT ![c] = [Quiet EXCEPT !.id = id]]

LEMMA FindSessionIs ==
  ASSUME SessionInv, NEW c \in Clients, FindSession(c)
  PROVE  /\ Upcoming(c) \in 1..Len(requests[c]) /\ announcing[c] = Quiet
         /\ UNCHANGED <<ticks, erasures, cookie, retired, notices>>
         /\ \E id \in Ids, n \in Nat \ {0} :
              /\ id <= FreshId
              /\ FindsAt(c, Upcoming(c), id, n)
<1> DEFINE i == Upcoming(c)
           id == IF requests[c][i].cookie = 0 THEN FreshId ELSE requests[c][i].cookie
           n == slots'[id].session
<1>1. /\ Unfound(c) # {} /\ Free(c) /\ id <= MaxIds
      /\ getSession(c, id, requests[c][i].cookie = 0)
      /\ requests' = [requests EXCEPT ![c][i].session = n]
      /\ owner' = [owner EXCEPT ![id] = n]
      /\ used' = [used EXCEPT ![id] = ticks]
      /\ UNCHANGED <<ticks, erasures, cookie, retired, notices>>
  BY DEF FindSession
<1>2. i \in 1..Len(requests[c])
  BY <1>1, UpcomingIs DEF SessionInv, SessionTyped
<1>3. requests[c][i] \in Asking
  BY <1>2 DEF SessionInv, SessionTyped, RequestsTyped
<1>4. FreshId \in Nat \ {0} /\ \A k \in Ids : Given(k) <=> k < FreshId
  BY FreshIdIs DEF SessionInv, SessionTyped
<1>5. id \in Ids /\ id <= FreshId
  <2>1. CASE requests[c][i].cookie = 0
    BY <1>1, <1>4, <2>1, SessionAssumption DEF Ids
  <2>2. CASE requests[c][i].cookie # 0
    <3>1. requests[c][i].cookie \in 0..MaxIds /\ Given(requests[c][i].cookie)
      BY <1>2, <1>3, <2>2 DEF SessionInv, CookiesGiven, Asking
    <3>2. requests[c][i].cookie \in Ids
      BY <2>2, <3>1, SessionAssumption DEF Ids
    <3>3. requests[c][i].cookie < FreshId
      BY <1>4, <3>1, <3>2
    <3> QED BY <1>4, <2>2, <3>2, <3>3 DEF Ids
  <2> QED BY <2>1, <2>2
<1>6. id = IF requests[c][i].cookie = 0 THEN FreshId ELSE requests[c][i].cookie
  OBVIOUS
<1>7. PICK b : b = (requests[c][i].cookie = 0)
  OBVIOUS
<1>8. b \in BOOLEAN
  BY <1>7
<1>9. getSession(c, id, b)
  BY <1>1, <1>7
<1> HIDE DEF id, i
<1>10. CASE id \in DOMAIN slots
  <2>1. slots' = Slot(id, slots[id].session) /\ UNCHANGED <<sessions, announcing>>
    BY <1>9, <1>10 DEF getSession
  <2>0. SlotsTyped
    BY DEF SessionInv, SessionTyped
  <2>2. n = slots[id].session
    <3>1. slots'[id] = [session |-> slots[id].session, touched |-> ticks]
      BY <1>5, <2>0, <2>1, SlotIs
    <3> QED BY <3>1
  <2>3. n \in Nat \ {0}
    BY <1>10, <2>2 DEF SessionInv, SessionTyped, SlotsTyped, SlotOf
  <2> HIDE DEF n
  <2>4. FindsAt(c, i, id, n)
    BY <1>1, <1>6, <1>10, <2>1, <2>2 DEF FindsAt
  <2> QED BY <1>1, <1>2, <1>5, <2>3, <2>4 DEF i, Free
<1>11. CASE id \notin DOMAIN slots
  <2>1. /\ sessions' = Append(sessions, NewSession(id, b))
        /\ slots' = Slot(id, Len(sessions) + 1)
        /\ announcing' = [announcing EXCEPT ![c] = [Quiet EXCEPT !.id = id]]
    BY <1>9, <1>11 DEF getSession, Announce
  <2>0. SlotsTyped
    BY DEF SessionInv, SessionTyped
  <2>2. n = Len(sessions) + 1
    <3>1. slots'[id] = [session |-> Len(sessions) + 1, touched |-> ticks]
      BY <1>5, <2>0, <2>1, SlotIs
    <3> QED BY <3>1
  <2>3. n \in Nat \ {0}
    BY <2>2 DEF SessionInv, SessionTyped, SessionsTyped
  <2> HIDE DEF n
  <2>4. FindsAt(c, i, id, n)
    BY <1>1, <1>6, <1>8, <1>11, <2>1, <2>2 DEF FindsAt
  <2> QED BY <1>1, <1>2, <1>5, <2>3, <2>4 DEF i, Free
<1> QED BY <1>10, <1>11

LEMMA FindSessionKeeps ==
  ASSUME SessionInv, NEW c \in Clients, FindSession(c)
  PROVE  SessionInv'
<1> DEFINE i == Upcoming(c)
<1>0. i \in 1..Len(requests[c]) /\ \E id \in Ids, n \in Nat \ {0} : id <= FreshId /\ FindsAt(c, i, id, n)
  BY FindSessionIs
<1> HIDE DEF i
<1>1. PICK id \in Ids, n \in Nat \ {0} :
        i \in 1..Len(requests[c]) /\ id <= FreshId /\ FindsAt(c, i, id, n)
  BY <1>0
<1>2. announcing[c] = Quiet /\ UNCHANGED <<ticks, erasures, cookie, retired, notices>>
  BY FindSessionIs
<1>3. /\ slots' = Slot(id, n)
      /\ requests' = [requests EXCEPT ![c][i].session = n]
      /\ owner' = [owner EXCEPT ![id] = n]
      /\ used' = [used EXCEPT ![id] = ticks]
  BY <1>1 DEF FindsAt
<1>4. /\ sessions' \in Seq(Session) /\ Len(sessions) <= Len(sessions') /\ n <= Len(sessions')
      /\ Len(sessions) \in Nat
      /\ \A k \in 1..Len(sessions) : sessions'[k] = sessions[k]
      /\ \A k \in 1..Len(sessions') : k \in 1..Len(sessions) \/ sessions'[k].id = id
      /\ id \notin DOMAIN slots => sessions'[n].id = id
      /\ id \in DOMAIN slots => n = slots[id].session /\ sessions' = sessions
  <2>1. sessions \in Seq(Session) /\ Len(sessions) \in Nat
    BY DEF SessionInv, SessionTyped, SessionsTyped
  <2>2. CASE id \in DOMAIN slots
    <3>1. n = slots[id].session /\ UNCHANGED sessions
      BY <1>1, <2>2 DEF FindsAt
    <3>2. n <= Len(sessions)
      BY <2>2, <3>1 DEF SessionInv, SessionTyped, SlotsTyped
    <3> QED BY <2>1, <2>2, <3>1, <3>2
  <2>3. CASE id \notin DOMAIN slots
    <3>1. PICK b \in BOOLEAN : n = Len(sessions) + 1 /\ sessions' = Append(sessions, NewSession(id, b))
      BY <1>1, <2>3 DEF FindsAt
    <3>2. NewSession(id, b) \in Session /\ NewSession(id, b).id = id
      BY DEF NewSession, Session
    <3> QED BY <2>1, <2>3, <3>1, <3>2
  <2> QED BY <2>2, <2>3
<1>5. /\ owner' \in [Ids -> Nat] /\ GivenFirst' /\ Given(id)'
      /\ \A k \in Ids : k # id => owner'[k] = owner[k]
      /\ owner'[id] = n
      /\ \A k \in Ids : Given(k) => Given(k)'
  BY <1>1, <1>3, OwnerGiven DEF SessionInv, SessionTyped
<1>6. /\ DOMAIN slots' = DOMAIN slots \cup {id}
      /\ slots'[id] = [session |-> n, touched |-> ticks]
      /\ \A k \in DOMAIN slots : k # id => slots'[k] = slots[k]
  BY <1>3, SlotIs DEF SessionInv, SessionTyped
<1>7. /\ used' \in [Ids -> Nat] /\ used'[id] = ticks
      /\ \A k \in Ids : k # id => used'[k] = used[k]
  BY <1>3 DEF SessionInv, SessionTyped, OthersTyped
<1>8. \/ announcing' = announcing
      \/ /\ id \notin DOMAIN slots
         /\ announcing' = [announcing EXCEPT ![c] = [Quiet EXCEPT !.id = id]]
  BY <1>1 DEF FindsAt
<1>9. /\ announcing' \in [Announcers -> Notice]
      /\ \A t \in Announcers : \/ announcing'[t] = announcing[t]
                               \/ t = c /\ announcing'[t].id = id /\ announcing'[t].old = 0
  BY <1>8, QuietIs DEF SessionInv, SessionTyped, OthersTyped
<1>10. /\ requests' \in [Clients -> Seq(Asking)]
       /\ \A d \in Clients : /\ Len(requests'[d]) = Len(requests[d])
                             /\ \A j \in 1..Len(requests[d]) :
                                  /\ requests'[d][j].cookie = requests[d][j].cookie
                                  /\ requests'[d][j].session = requests[d][j].session
                                     \/ requests'[d][j].session = n
  <2>1. requests \in [Clients -> Seq(Asking)] /\ requests[c] \in Seq(Asking)
    BY DEF SessionInv, SessionTyped, RequestsTyped
  <2>2. requests[c][i] \in Asking
    BY <1>1, <2>1
  <2> DEFINE new == [requests[c][i] EXCEPT !.session = n]
  <2>3. new \in Asking /\ new.cookie = requests[c][i].cookie /\ new.session = n
    BY <2>2 DEF Asking
  <2>4. requests' = [requests EXCEPT ![c] = [requests[c] EXCEPT ![i] = new]]
    BY <1>3, <2>1
  <2> HIDE DEF new
  <2>5. /\ [requests[c] EXCEPT ![i] = new] \in Seq(Asking)
        /\ Len([requests[c] EXCEPT ![i] = new]) = Len(requests[c])
        /\ [requests[c] EXCEPT ![i] = new][i] = new
        /\ \A j \in 1..Len(requests[c]) : j # i => [requests[c] EXCEPT ![i] = new][j] = requests[c][j]
    BY <1>1, <2>1, <2>3
  <2>6. requests' \in [Clients -> Seq(Asking)] /\ requests'[c] = [requests[c] EXCEPT ![i] = new]
        /\ \A d \in Clients : d # c => requests'[d] = requests[d]
    BY <2>1, <2>4, <2>5
  <2> QED BY <1>1, <2>3, <2>5, <2>6
<1>11. SessionTyped'
  <2>1. SlotsTyped'
    <3>1. slots'[id] \in SlotOf /\ slots'[id].session = n
      BY <1>6 DEF SlotOf, SessionInv, SessionTyped, OthersTyped
    <3>2. DOMAIN slots' \subseteq Ids
      BY <1>6 DEF SessionInv, SessionTyped, SlotsTyped
    <3>3. \A k \in DOMAIN slots' : k # id => slots'[k] \in SlotOf /\ slots'[k].session <= Len(sessions')
      BY <1>4, <1>6 DEF SessionInv, SessionTyped, SlotsTyped, SlotOf
    <3> QED BY <1>4, <3>1, <3>2, <3>3 DEF SlotsTyped
  <2>2. RequestsTyped'
    <3>1. \A d \in Clients : \A j \in 1..Len(requests'[d]) : requests'[d][j].session <= Len(sessions')
      <4> SUFFICES ASSUME NEW d \in Clients, NEW j \in 1..Len(requests[d])
                   PROVE requests'[d][j].session <= Len(sessions')
        BY <1>10
      <4>1. requests[d][j] \in Asking /\ requests[d][j].session <= Len(sessions)
        BY DEF SessionInv, SessionTyped, RequestsTyped
      <4>2. requests[d][j].session \in Nat
        BY <4>1 DEF Asking
      <4> QED BY <1>4, <1>10, <4>1, <4>2
    <3> QED BY <1>10, <3>1 DEF RequestsTyped
  <2>3. OthersTyped'
    BY <1>2, <1>5, <1>7, <1>9 DEF SessionInv, SessionTyped, OthersTyped
  <2> QED BY <1>4, <2>1, <2>2, <2>3 DEF SessionTyped, SessionsTyped
<1>12. SlotsAreOwned'
  <2>1. owner'[id] = slots'[id].session /\ used'[id] = slots'[id].touched
    BY <1>5, <1>6, <1>7
  <2>2. \A k \in DOMAIN slots : k # id => owner'[k] = slots'[k].session /\ used'[k] = slots'[k].touched
    BY <1>5, <1>6, <1>7 DEF SessionInv, SlotsAreOwned, SessionTyped, SlotsTyped
  <2> QED BY <1>6, <2>1, <2>2 DEF SlotsAreOwned
<1>13. SessionsGiven'
  <2> SUFFICES ASSUME NEW k \in 1..Len(sessions') PROVE owner'[sessions'[k].id] > 0
    BY DEF SessionsGiven, Given
  <2>1. CASE k \in 1..Len(sessions)
    <3>0. sessions[k] \in Session
      BY <2>1 DEF SessionInv, SessionTyped, SessionsTyped
    <3>1. sessions'[k] = sessions[k] /\ sessions[k].id \in Ids /\ Given(sessions[k].id)
      BY <1>4, <2>1, <3>0 DEF SessionInv, SessionsGiven, Session
    <3>2. Given(sessions[k].id) => owner'[sessions[k].id] > 0
      BY <1>5, <3>1 DEF Given
    <3> QED BY <3>1, <3>2 DEF Given
  <2>2. CASE sessions'[k].id = id
    BY <1>5, <2>2 DEF Given
  <2> QED BY <1>4, <2>1, <2>2
<1>14. CookiesGiven'
  <2>1. \A k \in 0..MaxIds : k # 0 /\ Given(k) => Given(k)'
    BY <1>5, SessionAssumption DEF Ids
  <2>2. ASSUME NEW d \in Clients, cookie'[d] # 0 PROVE owner'[cookie'[d]] > 0
    <3>1. cookie[d] \in 0..MaxIds /\ cookie[d] # 0 /\ Given(cookie[d])
      BY <1>2, <2>2 DEF SessionInv, CookiesGiven, SessionTyped, OthersTyped
    <3>2. owner'[cookie[d]] > 0
      BY <2>1, <3>1 DEF Given
    <3> QED BY <1>2, <3>2 DEF Given
  <2>3. ASSUME NEW d \in Clients, NEW j \in 1..Len(requests'[d]), requests'[d][j].cookie # 0
        PROVE  owner'[requests'[d][j].cookie] > 0
    <3>1. j \in 1..Len(requests[d]) /\ requests'[d][j].cookie = requests[d][j].cookie
      BY <1>10
    <3>0. requests[d][j] \in Asking
      BY <3>1 DEF SessionInv, SessionTyped, RequestsTyped
    <3>2. requests[d][j].cookie \in 0..MaxIds /\ Given(requests[d][j].cookie)
      BY <2>3, <3>0, <3>1 DEF SessionInv, CookiesGiven, Asking
    <3>3. owner'[requests[d][j].cookie] > 0
      BY <2>1, <2>3, <3>1, <3>2 DEF Given
    <3> QED BY <3>1, <3>3 DEF Given
  <2> QED BY <2>2, <2>3 DEF CookiesGiven, Given
<1>15. NoticesGiven'
  <2> SUFFICES ASSUME NEW t \in Announcers, announcing'[t] # Quiet
               PROVE announcing'[t].id \in Ids /\ (t # "loop" => owner'[announcing'[t].id] > 0)
    BY DEF NoticesGiven, Given
  <2>1. CASE announcing'[t] = announcing[t]
    <3>1. announcing[t].id \in Ids /\ (t # "loop" => Given(announcing[t].id))
      BY <2>1 DEF SessionInv, NoticesGiven
    <3>2. Given(announcing[t].id) => owner'[announcing[t].id] > 0
      BY <1>5, <3>1 DEF Given
    <3> QED BY <2>1, <3>1, <3>2
  <2>2. CASE announcing'[t].id = id
    BY <1>5, <2>2 DEF Given
  <2> QED BY <1>9, <2>1, <2>2
<1>16. GoneInTime'
  <2> SUFFICES ASSUME NEW k \in Ids, Given(k)'
               PROVE  \/ k \in DOMAIN slots'
                      \/ ticks' >= used'[k] + Timeout
                      \/ ticks' >= retired'[k] + Grace
    BY DEF GoneInTime
  <2>1. CASE k = id
    BY <1>6, <2>1
  <2>2. CASE k # id
    <3>1. Given(k) /\ used'[k] = used[k]
      BY <1>5, <1>7, <2>2 DEF Given
    <3> QED BY <1>2, <1>6, <3>1 DEF SessionInv, GoneInTime
  <2> QED BY <2>1, <2>2
<1>17. DueAfterGrace'
  <2>1. \A d \in Clients : announcing'[d] = announcing[d] \/ announcing'[d].old = 0
    BY <1>9 DEF Announcers
  <2> QED BY <1>2, <2>1 DEF SessionInv, DueAfterGrace
<1>18. OldIdReleased'
  <2> SUFFICES ASSUME NEW k \in DOMAIN slots', sessions'[slots'[k].session].id # k
               PROVE  \/ \E e \in erasures' : e.id = k
                      \/ \E d \in Clients : announcing'[d].old = k
    BY DEF OldIdReleased
  <2>1. k \in DOMAIN slots /\ slots'[k].session = slots[k].session
        /\ sessions'[slots[k].session] = sessions[slots[k].session]
    <3>1. CASE k = id
      <4>1. slots'[k].session = n
        BY <1>6, <3>1
      <4>2. id \in DOMAIN slots
        BY <1>4, <3>1, <4>1
      <4> QED BY <1>4, <3>1, <4>1, <4>2
    <3>2. CASE k # id
      <4>1. k \in DOMAIN slots /\ slots'[k] = slots[k]
        BY <1>6, <3>2
      <4>2. slots[k].session \in 1..Len(sessions)
        BY <1>4, <4>1 DEF SessionInv, SessionTyped, SlotsTyped, SlotOf
      <4> QED BY <1>4, <4>1, <4>2
    <3> QED BY <3>1, <3>2
  <2>2. \/ \E e \in erasures : e.id = k
        \/ \E d \in Clients : announcing[d].old = k
    BY <2>1 DEF SessionInv, OldIdReleased
  <2>3. ASSUME NEW d \in Clients, announcing[d].old = k
        PROVE  announcing'[d].old = k
    <3>1. k # 0
      BY <2>1, QuietIs DEF SessionInv, SessionTyped, SlotsTyped
    <3>2. d # c
      BY <1>2, <2>3, <3>1, QuietIs
    <3> QED BY <1>9, <2>3, <3>2 DEF Announcers
  <2> QED BY <1>2, <2>2, <2>3
<1>19. Balanced'
  <2>1. CASE announcing' = announcing
    BY <1>2, <1>6, <2>1, BalancedStays DEF SessionInv
  <2>2. CASE id \notin DOMAIN slots /\ announcing' = [announcing EXCEPT ![c] = [Quiet EXCEPT !.id = id]]
    BY <1>2, <1>6, <2>2, QuietIs, BalancedOpens DEF SessionInv
  <2> QED BY <1>8, <2>1, <2>2
<1> QED BY <1>5, <1>11, <1>12, <1>13, <1>14, <1>15, <1>16, <1>17, <1>18, <1>19 DEF SessionInv

\* Steps that leave the ids of the sessions alone, and everything that is kept of them.
LEMMA IdsStay ==
  ASSUME SessionInv, UNCHANGED <<ticks, slots, erasures, owner, retired, used, announcing, notices>>,
         sessions' \in Seq(Session), Len(sessions') = Len(sessions),
         \A k \in 1..Len(sessions) : sessions'[k].id = sessions[k].id,
         RequestsTyped', cookie' \in [Clients -> 0..MaxIds], CookiesGiven'
  PROVE  SessionInv'
<1>1. SessionsTyped' /\ SlotsTyped' /\ OthersTyped'
  BY DEF SessionInv, SessionTyped, SessionsTyped, SlotsTyped, OthersTyped
<1>2. GivenFirst' /\ SlotsAreOwned' /\ NoticesGiven'
  BY DEF SessionInv, GivenFirst, SlotsAreOwned, NoticesGiven, Given
<1>3. SessionsGiven'
  BY DEF SessionInv, SessionsGiven, Given
<1>4. GoneInTime' /\ DueAfterGrace'
  BY DEF SessionInv, GoneInTime, DueAfterGrace, Given
<1>5. OldIdReleased'
  <2>1. \A k \in DOMAIN slots : slots[k].session \in 1..Len(sessions)
    BY DEF SessionInv, SessionTyped, SessionsTyped, SlotsTyped, SlotOf
  <2> QED BY <2>1 DEF SessionInv, OldIdReleased
<1>6. Balanced'
  BY BalancedStays DEF SessionInv
<1> QED BY <1>1, <1>2, <1>3, <1>4, <1>5, <1>6 DEF SessionInv, SessionTyped

LEMMA ChangeToClientKeeps ==
  ASSUME SessionInv, NEW c \in Clients, ChangeToClient(c)
  PROVE  SessionInv'
<1>1. PICK i \in DOMAIN requests[c] :
        /\ requests[c][i].session # 0
        /\ sessions' = [sessions EXCEPT ![requests[c][i].session].needToChange = TRUE,
                                        ![requests[c][i].session].needToSet = TRUE]
  BY DEF ChangeToClient
<1>2. UNCHANGED <<ticks, slots, erasures, requests, cookie, owner, retired, used, announcing, notices>>
  BY DEF ChangeToClient
<1> DEFINE n == requests[c][i].session
<1>3. requests[c] \in Seq(Asking) /\ i \in 1..Len(requests[c]) /\ requests[c][i].session <= Len(sessions)
  BY DEF SessionInv, SessionTyped, RequestsTyped
<1>4. requests[c][i] \in Asking
  BY <1>3
<1>5. sessions \in Seq(Session) /\ Len(sessions) \in Nat
  BY DEF SessionInv, SessionTyped, SessionsTyped
<1>6. n \in 1..Len(sessions)
  BY <1>1, <1>3, <1>4, <1>5 DEF Asking
<1>7. sessions[n] \in Session
  BY <1>5, <1>6
<1> DEFINE new == [sessions[n] EXCEPT !.needToChange = TRUE, !.needToSet = TRUE]
<1>8. new \in Session /\ new.id = sessions[n].id
  BY <1>7 DEF Session
<1>9. sessions' = [sessions EXCEPT ![n] = new]
  BY <1>1, <1>5, <1>6
<1> HIDE DEF n, new
<1>10. /\ sessions' \in Seq(Session) /\ Len(sessions') = Len(sessions)
       /\ \A k \in 1..Len(sessions) : sessions'[k].id = sessions[k].id
  BY <1>5, <1>6, <1>8, <1>9
<1>11. RequestsTyped'
  BY <1>2, <1>10 DEF SessionInv, SessionTyped, RequestsTyped
<1>12. CookiesGiven' /\ cookie' \in [Clients -> 0..MaxIds]
  BY <1>2 DEF SessionInv, CookiesGiven, Given, SessionTyped, OthersTyped
<1> QED BY <1>2, <1>10, <1>11, <1>12, IdsStay

\* The oldest request goes.
LEMMA TailKeeps ==
  ASSUME SessionInv, NEW c \in Clients, requests[c] # <<>>, requests' = [requests EXCEPT ![c] = Tail(@)]
  PROVE  /\ Head(requests[c]) = requests[c][1] /\ 1 \in 1..Len(requests[c])
         /\ requests' \in [Clients -> Seq(Asking)]
         /\ \A d \in Clients : \A j \in 1..Len(requests'[d]) :
              \E k \in 1..Len(requests[d]) : requests'[d][j] = requests[d][k]
<1>1. requests \in [Clients -> Seq(Asking)] /\ requests[c] \in Seq(Asking)
  BY DEF SessionInv, SessionTyped, RequestsTyped
<1>2. /\ requests'[c] = Tail(requests[c])
      /\ \A d \in Clients : d # c => requests'[d] = requests[d]
  BY <1>1
<1>3. /\ Tail(requests[c]) \in Seq(Asking) /\ Len(Tail(requests[c])) = Len(requests[c]) - 1
      /\ Len(requests[c]) \in Nat \ {0}
      /\ \A j \in 1..Len(Tail(requests[c])) : Tail(requests[c])[j] = requests[c][j + 1]
  BY <1>1
<1>4. requests' \in [Clients -> Seq(Asking)]
  BY <1>1, <1>3
<1>5. ASSUME NEW d \in Clients, NEW j \in 1..Len(requests'[d])
      PROVE  \E k \in 1..Len(requests[d]) : requests'[d][j] = requests[d][k]
  <2>1. CASE d = c
    <3>0. j \in 1..(Len(requests[c]) - 1)
      BY <1>2, <1>3, <2>1
    <3>1. j + 1 \in 1..Len(requests[c]) /\ j \in 1..Len(Tail(requests[c]))
      BY <1>3, <3>0
    <3>2. requests'[c][j] = requests[c][j + 1]
      BY <1>2, <1>3, <3>1
    <3> QED BY <2>1, <3>1, <3>2
  <2>2. CASE d # c
    BY <1>2, <1>5, <2>2
  <2> QED BY <2>1, <2>2
<1> QED BY <1>1, <1>3, <1>4, <1>5

\* The oldest request is answered, the session keeping its id.
LEMMA RespondSameKeeps ==
  ASSUME SessionInv, NEW c \in Clients, Respond(c), ~sessions[Head(requests[c]).session].needToChange
  PROVE  SessionInv'
<1> DEFINE n == Head(requests[c]).session
<1>1. /\ requests[c] # <<>> /\ n # 0
      /\ requests' = [requests EXCEPT ![c] = Tail(@)]
      /\ sessions' = [sessions EXCEPT ![n].needToSet = FALSE]
      /\ cookie' = IF sessions[n].needToSet THEN [cookie EXCEPT ![c] = sessions[n].id] ELSE cookie
      /\ UNCHANGED <<ticks, slots, erasures, owner, retired, used, announcing, notices>>
  BY DEF Respond
<1>2. /\ n = requests[c][1].session /\ 1 \in 1..Len(requests[c])
      /\ requests' \in [Clients -> Seq(Asking)]
      /\ \A d \in Clients : \A j \in 1..Len(requests'[d]) :
           \E k \in 1..Len(requests[d]) : requests'[d][j] = requests[d][k]
  BY <1>1, TailKeeps
<1>3. requests[c][1] \in Asking /\ n <= Len(sessions)
  BY <1>2 DEF SessionInv, SessionTyped, RequestsTyped
<1>4. sessions \in Seq(Session) /\ Len(sessions) \in Nat
  BY DEF SessionInv, SessionTyped, SessionsTyped
<1>5. n \in 1..Len(sessions)
  BY <1>1, <1>2, <1>3, <1>4 DEF Asking
<1>6. sessions[n] \in Session
  BY <1>4, <1>5
<1> DEFINE new == [sessions[n] EXCEPT !.needToSet = FALSE]
<1>7. new \in Session /\ new.id = sessions[n].id /\ sessions[n].id \in Ids
  BY <1>6 DEF Session
<1>8. sessions' = [sessions EXCEPT ![n] = new]
  BY <1>1, <1>4, <1>5
<1> HIDE DEF n, new
<1>9. /\ sessions' \in Seq(Session) /\ Len(sessions') = Len(sessions)
      /\ \A k \in 1..Len(sessions) : sessions'[k].id = sessions[k].id
  BY <1>4, <1>5, <1>7, <1>8
<1>10. RequestsTyped'
  <2> SUFFICES ASSUME NEW d \in Clients, NEW j \in 1..Len(requests'[d])
               PROVE requests'[d][j].session <= Len(sessions')
    BY <1>2 DEF RequestsTyped
  <2>1. PICK k \in 1..Len(requests[d]) : requests'[d][j] = requests[d][k]
    BY <1>2
  <2> QED BY <1>9, <2>1 DEF SessionInv, SessionTyped, RequestsTyped
<1>11. Ids \subseteq 0..MaxIds
  BY SessionAssumption DEF Ids
<1>12. /\ cookie' \in [Clients -> 0..MaxIds]
       /\ \A d \in Clients : cookie'[d] = cookie[d] \/ cookie'[d] = sessions[n].id
  BY <1>1, <1>7, <1>11 DEF SessionInv, SessionTyped, OthersTyped
<1>13. Given(sessions[n].id)
  BY <1>5 DEF SessionInv, SessionsGiven
<1>14. CookiesGiven'
  <2>1. ASSUME NEW d \in Clients, cookie'[d] # 0 PROVE owner'[cookie'[d]] > 0
    <3>1. CASE cookie'[d] = cookie[d]
      BY <1>1, <2>1, <3>1 DEF SessionInv, CookiesGiven, Given
    <3>2. CASE cookie'[d] = sessions[n].id
      BY <1>1, <1>13, <3>2 DEF Given
    <3> QED BY <1>12, <3>1, <3>2
  <2>2. ASSUME NEW d \in Clients, NEW j \in 1..Len(requests'[d]), requests'[d][j].cookie # 0
        PROVE  owner'[requests'[d][j].cookie] > 0
    <3>1. PICK k \in 1..Len(requests[d]) : requests'[d][j] = requests[d][k]
      BY <1>2
    <3> QED BY <1>1, <2>2, <3>1 DEF SessionInv, CookiesGiven, Given
  <2> QED BY <2>1, <2>2 DEF CookiesGiven, Given
<1> QED BY <1>1, <1>9, <1>10, <1>12, <1>14, IdsStay

\* The oldest request is answered and its session gets a new id.
LEMMA RespondChangeKeeps ==
  ASSUME SessionInv, NEW c \in Clients, Respond(c), sessions[Head(requests[c]).session].needToChange
  PROVE  SessionInv'
<1>a. PICK n : n = Head(requests[c]).session
  OBVIOUS
<1>b. PICK old : old = sessions[n].id
  OBVIOUS
<1>c. PICK new : new = FreshId
  OBVIOUS
<1>d. PICK set : set = sessions[n].needToSet
  OBVIOUS
<1> DEFINE a == [id |-> new, old |-> old, set |-> set]
           changed == [id |-> new, needToSet |-> FALSE, needToChange |-> FALSE]
<1>1. /\ requests[c] # <<>> /\ n # 0 /\ announcing[c] = Quiet
      /\ requests' = [requests EXCEPT ![c] = Tail(@)]
      /\ new <= MaxIds
      /\ slots' = Slot(new, n)
      /\ announcing' = [announcing EXCEPT ![c] = a]
      /\ used' = [used EXCEPT ![new] = ticks]
      /\ owner' = [owner EXCEPT ![new] = n]
      /\ sessions' = [sessions EXCEPT ![n] = changed]
      /\ retired' = [retired EXCEPT ![old] = IF @ > ticks THEN ticks ELSE @]
      /\ UNCHANGED <<ticks, erasures, cookie, notices>>
  BY <1>a, <1>b, <1>c, <1>d DEF Respond, changeSessionId, Free
<1>2. /\ n = requests[c][1].session /\ 1 \in 1..Len(requests[c])
      /\ requests' \in [Clients -> Seq(Asking)]
      /\ \A d \in Clients : \A j \in 1..Len(requests'[d]) :
           \E k \in 1..Len(requests[d]) : requests'[d][j] = requests[d][k]
  BY <1>1, <1>a, TailKeeps
<1>3. requests[c][1] \in Asking /\ n <= Len(sessions)
  BY <1>2 DEF SessionInv, SessionTyped, RequestsTyped
<1>4. sessions \in Seq(Session) /\ Len(sessions) \in Nat
  BY DEF SessionInv, SessionTyped, SessionsTyped
<1>5. n \in 1..Len(sessions) /\ n \in Nat \ {0}
  BY <1>1, <1>2, <1>3, <1>4 DEF Asking
<1>6. sessions[n] \in Session
  BY <1>4, <1>5
<1>7. FreshId \in Nat \ {0} /\ \A k \in Ids : Given(k) <=> k < FreshId
  BY FreshIdIs DEF SessionInv, SessionTyped
<1>8. new \in Ids /\ new <= FreshId /\ ~Given(new)
  BY <1>1, <1>7, <1>c, SessionAssumption DEF Ids
<1>9. old \in Ids /\ set \in BOOLEAN /\ Given(old)
  BY <1>5, <1>6, <1>b, <1>d DEF Session, SessionInv, SessionsGiven
<1>10. Ids \subseteq 0..MaxIds
  BY SessionAssumption DEF Ids
<1>11. a \in Notice /\ a.id = new /\ a.old = old
  BY <1>8, <1>9, <1>10 DEF Notice
<1>12. changed \in Session /\ changed.id = new
  BY <1>8 DEF Session
<1>13. old = sessions[n].id
  BY <1>b
<1> HIDE DEF a, changed
<1>14. new \notin DOMAIN slots
  BY <1>8 DEF SessionInv, SlotsAreOwned, SessionTyped, SlotsTyped, SlotOf, Given
<1>15. /\ sessions' \in Seq(Session) /\ Len(sessions') = Len(sessions)
       /\ sessions'[n] = changed
       /\ \A k \in 1..Len(sessions) : k # n => sessions'[k] = sessions[k]
  BY <1>1, <1>4, <1>5, <1>12
<1>16. /\ owner' \in [Ids -> Nat] /\ GivenFirst' /\ Given(new)'
       /\ \A k \in Ids : k # new => owner'[k] = owner[k]
       /\ owner'[new] = n
       /\ \A k \in Ids : Given(k) => Given(k)'
  <2>1. OthersTyped /\ GivenFirst
    BY DEF SessionInv, SessionTyped
  <2>2. owner' = [owner EXCEPT ![new] = n]
    BY <1>1
  <2> QED BY <1>5, <1>8, <2>1, <2>2, OwnerGiven
<1>17. SlotsTyped
  BY DEF SessionInv, SessionTyped
<1>18. /\ DOMAIN slots' = DOMAIN slots \cup {new}
       /\ slots'[new] = [session |-> n, touched |-> ticks]
       /\ \A k \in DOMAIN slots : k # new => slots'[k] = slots[k]
  BY <1>1, <1>8, <1>17, SlotIs
<1>19. /\ used' \in [Ids -> Nat] /\ used'[new] = ticks
       /\ \A k \in Ids : k # new => used'[k] = used[k]
  BY <1>1, <1>8 DEF SessionInv, SessionTyped, OthersTyped
<1>20. /\ retired' \in [Ids -> Nat] /\ retired'[old] <= ticks
       /\ \A k \in Ids : retired'[k] <= retired[k]
  <2>1. retired \in [Ids -> Nat] /\ ticks \in Nat
    BY DEF SessionInv, SessionTyped, OthersTyped
  <2>2. retired'[old] = IF retired[old] > ticks THEN ticks ELSE retired[old]
    BY <1>1, <1>9, <2>1
  <2>3. \A k \in Ids : k # old => retired'[k] = retired[k]
    BY <1>1, <2>1
  <2>4. retired' \in [Ids -> Nat]
    BY <1>1, <2>1
  <2> QED BY <1>9, <2>1, <2>2, <2>3, <2>4
<1>21. /\ announcing' \in [Announcers -> Notice] /\ announcing'[c] = a
       /\ \A t \in Announcers : t # c => announcing'[t] = announcing[t]
  BY <1>1, <1>11 DEF SessionInv, SessionTyped, OthersTyped, Announcers
<1>22. RequestsTyped'
  <2> SUFFICES ASSUME NEW d \in Clients, NEW j \in 1..Len(requests'[d])
               PROVE requests'[d][j].session <= Len(sessions')
    BY <1>2 DEF RequestsTyped
  <2>1. PICK k \in 1..Len(requests[d]) : requests'[d][j] = requests[d][k]
    BY <1>2
  <2> QED BY <1>15, <2>1 DEF SessionInv, SessionTyped, RequestsTyped
<1>23. SlotsTyped'
  <2>1. slots'[new] \in SlotOf /\ slots'[new].session = n
    BY <1>5, <1>18 DEF SlotOf, SessionInv, SessionTyped, OthersTyped
  <2> QED BY <1>3, <1>8, <1>15, <1>17, <1>18, <2>1 DEF SlotsTyped
<1>24. SessionTyped'
  <2>1. OthersTyped'
    BY <1>1, <1>16, <1>19, <1>20, <1>21 DEF SessionInv, SessionTyped, OthersTyped
  <2> QED BY <1>15, <1>22, <1>23, <2>1 DEF SessionTyped, SessionsTyped
<1>25. SlotsAreOwned'
  <2>1. owner'[new] = slots'[new].session /\ used'[new] = slots'[new].touched
    BY <1>16, <1>18, <1>19
  <2>2. \A k \in DOMAIN slots : k # new => owner'[k] = slots'[k].session /\ used'[k] = slots'[k].touched
    BY <1>16, <1>17, <1>18, <1>19 DEF SessionInv, SlotsAreOwned, SlotsTyped
  <2> QED BY <1>18, <2>1, <2>2 DEF SlotsAreOwned
<1>26. SessionsGiven'
  <2> SUFFICES ASSUME NEW k \in 1..Len(sessions') PROVE owner'[sessions'[k].id] > 0
    BY DEF SessionsGiven, Given
  <2>1. CASE k = n
    BY <1>12, <1>15, <1>16, <2>1 DEF Given
  <2>2. CASE k # n
    <3>1. sessions[k] \in Session /\ sessions'[k] = sessions[k]
      BY <1>4, <1>15, <2>2
    <3>2. sessions[k].id \in Ids /\ Given(sessions[k].id)
      BY <1>15, <3>1 DEF Session, SessionInv, SessionsGiven
    <3>3. owner'[sessions[k].id] > 0
      BY <1>16, <3>2 DEF Given
    <3> QED BY <3>1, <3>3
  <2> QED BY <2>1, <2>2
<1>27. \A k \in 0..MaxIds : k # 0 /\ Given(k) => owner'[k] > 0
  BY <1>16, SessionAssumption DEF Ids, Given
<1>28. CookiesGiven'
  <2>1. ASSUME NEW d \in Clients, cookie'[d] # 0 PROVE owner'[cookie'[d]] > 0
    <3>1. cookie[d] \in 0..MaxIds /\ cookie[d] # 0 /\ Given(cookie[d]) /\ cookie'[d] = cookie[d]
      BY <1>1, <2>1 DEF SessionInv, CookiesGiven, SessionTyped, OthersTyped
    <3> QED BY <1>27, <3>1
  <2>2. ASSUME NEW d \in Clients, NEW j \in 1..Len(requests'[d]), requests'[d][j].cookie # 0
        PROVE  owner'[requests'[d][j].cookie] > 0
    <3>1. PICK k \in 1..Len(requests[d]) : requests'[d][j] = requests[d][k]
      BY <1>2
    <3>2. requests[d][k] \in Asking
      BY <3>1 DEF SessionInv, SessionTyped, RequestsTyped
    <3>3. requests[d][k].cookie \in 0..MaxIds /\ requests[d][k].cookie # 0 /\ Given(requests[d][k].cookie)
      BY <2>2, <3>1, <3>2 DEF SessionInv, CookiesGiven, Asking
    <3> QED BY <1>27, <3>1, <3>3
  <2> QED BY <2>1, <2>2 DEF CookiesGiven, Given
<1>29. NoticesGiven'
  <2> SUFFICES ASSUME NEW t \in Announcers, announcing'[t] # Quiet
               PROVE announcing'[t].id \in Ids /\ (t # "loop" => owner'[announcing'[t].id] > 0)
    BY DEF NoticesGiven, Given
  <2>1. CASE t = c
    <3>1. announcing'[t].id = new
      BY <1>11, <1>21, <2>1
    <3>2. owner'[new] > 0
      BY <1>5, <1>16
    <3> QED BY <1>8, <3>1, <3>2
  <2>2. CASE t # c
    <3>1. announcing'[t] = announcing[t]
      BY <1>21, <2>2
    <3>2. announcing[t].id \in Ids /\ (t # "loop" => Given(announcing[t].id))
      BY <3>1 DEF SessionInv, NoticesGiven
    <3>3. Given(announcing[t].id) => owner'[announcing[t].id] > 0
      BY <1>16, <3>2 DEF Given
    <3> QED BY <3>1, <3>2, <3>3
  <2> QED BY <2>1, <2>2
<1>30. GoneInTime'
  <2> SUFFICES ASSUME NEW k \in Ids, Given(k)'
               PROVE  \/ k \in DOMAIN slots'
                      \/ ticks' >= used'[k] + Timeout
                      \/ ticks' >= retired'[k] + Grace
    BY DEF GoneInTime
  <2>1. CASE k = new
    BY <1>18, <2>1
  <2>2. CASE k # new
    <3>1. Given(k) /\ used'[k] = used[k]
      BY <1>16, <1>19, <2>2 DEF Given
    <3>2. k \in DOMAIN slots \/ ticks >= used[k] + Timeout \/ ticks >= retired[k] + Grace
      BY <3>1 DEF SessionInv, GoneInTime
    <3>3. /\ retired'[k] <= retired[k] /\ retired[k] \in Nat /\ retired'[k] \in Nat
          /\ Grace \in Nat /\ ticks \in Nat /\ ticks' = ticks
      BY <1>1, <1>20, SessionAssumption DEF SessionInv, SessionTyped, OthersTyped
    <3> QED BY <1>18, <3>1, <3>2, <3>3
  <2> QED BY <2>1, <2>2
<1>31. DueAfterGrace'
  <2>1. ASSUME NEW e \in erasures PROVE e.due >= retired'[e.id] + Grace
    <3>1. e \in Task /\ e.due >= retired[e.id] + Grace
      BY DEF SessionInv, DueAfterGrace, SessionTyped, OthersTyped
    <3>2. e.id \in Ids /\ e.due \in Nat
      BY <3>1 DEF Task
    <3>3. /\ retired'[e.id] <= retired[e.id] /\ retired[e.id] \in Nat /\ retired'[e.id] \in Nat
          /\ Grace \in Nat
      BY <1>20, <3>2, SessionAssumption DEF SessionInv, SessionTyped, OthersTyped
    <3> QED BY <3>1, <3>2, <3>3
  <2>2. ASSUME NEW d \in Clients, announcing'[d].old # 0
        PROVE  announcing'[d].old \in Ids /\ retired'[announcing'[d].old] <= ticks
    <3>1. CASE d = c
      BY <1>9, <1>11, <1>20, <1>21, <3>1
    <3>2. CASE d # c
      <4>1. announcing'[d] = announcing[d]
        BY <1>21, <3>2 DEF Announcers
      <4>2. announcing[d].old \in Ids /\ retired[announcing[d].old] <= ticks
        BY <2>2, <4>1 DEF SessionInv, DueAfterGrace
      <4>3. /\ retired'[announcing[d].old] <= retired[announcing[d].old]
            /\ retired[announcing[d].old] \in Nat /\ retired'[announcing[d].old] \in Nat /\ ticks \in Nat
        BY <1>20, <4>2 DEF SessionInv, SessionTyped, OthersTyped
      <4> QED BY <4>1, <4>2, <4>3
    <3> QED BY <3>1, <3>2
  <2> QED BY <1>1, <2>1, <2>2 DEF DueAfterGrace
<1>32. OldIdReleased'
  <2> SUFFICES ASSUME NEW k \in DOMAIN slots', sessions'[slots'[k].session].id # k
               PROVE  \/ \E e \in erasures' : e.id = k
                      \/ \E d \in Clients : announcing'[d].old = k
    BY DEF OldIdReleased
  <2>1. k # new
    BY <1>12, <1>15, <1>18
  <2>2. k \in DOMAIN slots /\ slots'[k] = slots[k]
    BY <1>18, <2>1
  <2>3. CASE k = old
    BY <1>11, <1>21, <2>3
  <2>4. CASE k # old
    <3>1. slots[k].session \in 1..Len(sessions)
      BY <1>4, <2>2 DEF SessionInv, SessionTyped, SlotsTyped, SlotOf
    <3>2. sessions[slots[k].session].id # k
      <4>1. CASE slots[k].session = n
        BY <1>13, <2>4, <4>1
      <4>2. CASE slots[k].session # n
        BY <1>15, <2>2, <3>1, <4>2
      <4> QED BY <4>1, <4>2
    <3>3. \/ \E e \in erasures : e.id = k
          \/ \E d \in Clients : announcing[d].old = k
      BY <2>2, <3>2 DEF SessionInv, OldIdReleased
    <3>4. ASSUME NEW d \in Clients, announcing[d].old = k
          PROVE  announcing'[d].old = k
      <4>1. k # 0
        BY <1>17, <2>2, QuietIs DEF SlotsTyped
      <4>2. d # c
        BY <1>1, <3>4, <4>1, QuietIs
      <4> QED BY <1>21, <3>4, <4>2 DEF Announcers
    <3> QED BY <1>1, <3>3, <3>4
  <2> QED BY <2>3, <2>4
<1>33. Balanced'
  <2>1. Balanced /\ SessionTyped
    BY DEF SessionInv
  <2> QED BY <1>1, <1>8, <1>11, <1>14, <1>18, <2>1, BalancedOpens
<1> QED BY <1>16, <1>24, <1>25, <1>26, <1>28, <1>29, <1>30, <1>31, <1>32, <1>33 DEF SessionInv

\* The start advices have been called.
LEMMA NoticeStartKeeps ==
  ASSUME SessionInv, NEW c \in Clients, NoticeStart(c)
  PROVE  SessionInv'
<1> DEFINE a == announcing[c]
<1>1. /\ a # Quiet
      /\ notices' = [notices EXCEPT ![a.id].started = @ + 1]
      /\ erasures' = IF a.old # 0 THEN erasures \cup {[id |-> a.old, due |-> ticks + Grace]} ELSE erasures
      /\ cookie' = IF a.set THEN [cookie EXCEPT ![c] = a.id] ELSE cookie
      /\ announcing' = [announcing EXCEPT ![c] = Quiet]
      /\ UNCHANGED <<ticks, sessions, slots, requests, owner, retired, used>>
  BY DEF NoticeStart, Free, Started, Later
<1>2. c \in Announcers /\ c # "loop"
  BY SessionAssumption DEF Announcers
<1>3. /\ announcing \in [Announcers -> Notice] /\ notices \in [Ids -> Count] /\ ticks \in Nat
      /\ cookie \in [Clients -> 0..MaxIds]
  BY DEF SessionInv, SessionTyped, OthersTyped
<1>4. a.id \in Ids /\ Given(a.id)
  BY <1>1, <1>2 DEF SessionInv, NoticesGiven
<1>5. a.old # 0 => a.old \in Ids /\ retired[a.old] <= ticks
  BY DEF SessionInv, DueAfterGrace
<1>6. a.id = announcing[c].id /\ a.old = announcing[c].old
  OBVIOUS
<1> HIDE DEF a
<1>7. /\ announcing' \in [Announcers -> Notice] /\ announcing'[c] = Quiet
      /\ \A t \in Announcers : t # c => announcing'[t] = announcing[t]
  BY <1>1, <1>2, <1>3, QuietIs
<1>8. /\ notices' \in [Ids -> Count]
      /\ notices'[a.id].started = notices[a.id].started + 1
      /\ notices'[a.id].destroyed = notices[a.id].destroyed
      /\ \A k \in Ids : k # a.id => notices'[k] = notices[k]
  <2>1. notices[a.id] \in Count
    BY <1>3, <1>4
  <2>2. notices' = [notices EXCEPT ![a.id] = [notices[a.id] EXCEPT !.started = @ + 1]]
    BY <1>1
  <2>3. [notices[a.id] EXCEPT !.started = @ + 1] \in Count
    BY <2>1 DEF Count
  <2> QED BY <1>3, <1>4, <2>1, <2>2, <2>3 DEF Count
<1>9. /\ erasures' \subseteq Task
      /\ \A e \in erasures' : e \in erasures
                              \/ (a.old # 0 /\ e.id = a.old /\ e.due = ticks + Grace)
      /\ \A e \in erasures : e \in erasures'
      /\ a.old # 0 => \E e \in erasures' : e.id = a.old
  <2>1. erasures \subseteq Task /\ Grace \in Nat
    BY SessionAssumption DEF SessionInv, SessionTyped, OthersTyped
  <2>2. CASE a.old # 0
    <3>1. [id |-> a.old, due |-> ticks + Grace] \in Task
      BY <1>3, <1>5, <2>1, <2>2 DEF Task
    <3> QED BY <1>1, <2>1, <2>2, <3>1
  <2>3. CASE a.old = 0
    BY <1>1, <2>1, <2>3
  <2> QED BY <2>2, <2>3
<1>10. /\ cookie' \in [Clients -> 0..MaxIds]
       /\ \A d \in Clients : cookie'[d] = cookie[d] \/ cookie'[d] = a.id
  <2>1. a.id \in 0..MaxIds
    BY <1>4, SessionAssumption DEF Ids
  <2> QED BY <1>1, <1>3, <2>1
<1>11. SessionTyped'
  <2>1. OthersTyped'
    BY <1>1, <1>7, <1>8, <1>9, <1>10 DEF SessionInv, SessionTyped, OthersTyped
  <2> QED BY <1>1, <2>1 DEF SessionInv, SessionTyped, SessionsTyped, SlotsTyped, RequestsTyped
<1>12. GivenFirst' /\ SlotsAreOwned' /\ SessionsGiven' /\ GoneInTime'
  BY <1>1 DEF SessionInv, GivenFirst, SlotsAreOwned, SessionsGiven, GoneInTime, Given
<1>13. CookiesGiven'
  <2>1. ASSUME NEW d \in Clients, cookie'[d] # 0 PROVE owner'[cookie'[d]] > 0
    BY <1>1, <1>4, <1>10, <2>1 DEF SessionInv, CookiesGiven, Given
  <2>2. ASSUME NEW d \in Clients, NEW j \in 1..Len(requests'[d]), requests'[d][j].cookie # 0
        PROVE  owner'[requests'[d][j].cookie] > 0
    BY <1>1, <2>2 DEF SessionInv, CookiesGiven, Given
  <2> QED BY <2>1, <2>2 DEF CookiesGiven, Given
<1>14. NoticesGiven'
  BY <1>1, <1>7 DEF SessionInv, NoticesGiven, Given
<1>15. DueAfterGrace'
  <2>1. ASSUME NEW e \in erasures' PROVE e.due >= retired[e.id] + Grace
    <3>1. CASE e \in erasures
      BY <3>1 DEF SessionInv, DueAfterGrace
    <3>2. CASE a.old # 0 /\ e.id = a.old /\ e.due = ticks + Grace
      <4>1. retired[a.old] \in Nat /\ Grace \in Nat
        BY <1>5, <3>2, SessionAssumption DEF SessionInv, SessionTyped, OthersTyped
      <4> QED BY <1>3, <1>5, <3>2, <4>1
    <3> QED BY <1>9, <3>1, <3>2
  <2>2. ASSUME NEW d \in Clients, announcing'[d].old # 0
        PROVE  announcing'[d].old \in Ids /\ retired[announcing'[d].old] <= ticks
    <3>1. d # c
      BY <1>7, <2>2, QuietIs
    <3> QED BY <1>7, <2>2, <3>1 DEF SessionInv, DueAfterGrace, Announcers
  <2> QED BY <1>1, <2>1, <2>2 DEF DueAfterGrace
<1>16. OldIdReleased'
  <2> SUFFICES ASSUME NEW k \in DOMAIN slots, sessions[slots[k].session].id # k
               PROVE  \/ \E e \in erasures' : e.id = k
                      \/ \E d \in Clients : announcing'[d].old = k
    BY <1>1 DEF OldIdReleased
  <2>1. k # 0
    BY QuietIs DEF SessionInv, SessionTyped, SlotsTyped
  <2>2. CASE \E e \in erasures : e.id = k
    BY <1>9, <2>2
  <2>3. CASE \E d \in Clients : announcing[d].old = k
    <3>1. PICK d \in Clients : announcing[d].old = k
      BY <2>3
    <3>2. CASE d = c
      BY <1>6, <1>9, <2>1, <3>1, <3>2
    <3>3. CASE d # c
      BY <1>7, <3>1, <3>3 DEF Announcers
    <3> QED BY <3>2, <3>3
  <2> QED BY <2>2, <2>3 DEF SessionInv, OldIdReleased
<1>17. Balanced'
  <2> SUFFICES ASSUME NEW k \in Ids
               PROVE  /\ IsFiniteSet(Starting(k)')
                      /\ notices'[k].started + Cardinality(Starting(k)')
                           <= notices'[k].destroyed + Ending(k)' + Slots(k)'
    BY DEF Balanced
  <2>1. Ending(k)' = Ending(k) /\ Slots(k)' = Slots(k) /\ Ending(k) \in {0, 1} /\ Slots(k) \in {0, 1}
    BY <1>1, <1>2, <1>7 DEF Ending, Slots, Announcers
  <2>2. notices[k].started \in Nat /\ notices[k].destroyed \in Nat
    BY <1>3 DEF Count
  <2>3. /\ IsFiniteSet(Starting(k))
        /\ notices[k].started + Cardinality(Starting(k))
             <= notices[k].destroyed + Ending(k) + Slots(k)
    BY DEF SessionInv, Balanced
  <2>4. Cardinality(Starting(k)) \in Nat
    BY <2>3, FS_CardinalityType
  <2>5. CASE k = a.id
    <3>0. Quiet.id = 0 /\ k # 0
      BY QuietIs
    <3>1. Starting(k)' = Starting(k) \ {c} /\ c \in Starting(k)
      BY <1>2, <1>6, <1>7, <2>5, <3>0 DEF Starting, Announcers
    <3>2. IsFiniteSet(Starting(k)') /\ Cardinality(Starting(k)') = Cardinality(Starting(k)) - 1
      BY <2>3, <3>1, FS_RemoveElement
    <3> HIDE DEF Starting, Ending, Slots
    <3> QED BY <1>8, <2>1, <2>2, <2>3, <2>4, <2>5, <3>2
  <2>6. CASE k # a.id
    <3>0. Quiet.id = 0 /\ k # 0
      BY QuietIs
    <3>1. Starting(k)' = Starting(k)
      BY <1>2, <1>6, <1>7, <2>6, <3>0 DEF Starting, Announcers
    <3> HIDE DEF Starting, Ending, Slots
    <3> QED BY <1>8, <2>1, <2>3, <2>6, <3>1
  <2> QED BY <2>5, <2>6
<1> QED BY <1>11, <1>12, <1>13, <1>14, <1>15, <1>16, <1>17 DEF SessionInv

LEMMA MapTickKeeps ==
  ASSUME SessionInv, MapTick
  PROVE  SessionInv'
<1>1. /\ ticks' = ticks + 1 /\ ticks \in Nat
      /\ UNCHANGED <<sessions, slots, erasures, requests, cookie, owner, retired, used, announcing, notices>>
  BY DEF MapTick, SessionInv, SessionTyped, OthersTyped
<1>2. SessionTyped'
  BY <1>1 DEF SessionInv, SessionTyped, SessionsTyped, SlotsTyped, RequestsTyped, OthersTyped
<1>3. GivenFirst' /\ SlotsAreOwned' /\ SessionsGiven' /\ CookiesGiven' /\ NoticesGiven'
  BY <1>1 DEF SessionInv, GivenFirst, SlotsAreOwned, SessionsGiven, CookiesGiven, NoticesGiven, Given
<1>4. GoneInTime'
  <2> SUFFICES ASSUME NEW k \in Ids, Given(k)
               PROVE  k \in DOMAIN slots \/ ticks' >= used[k] + Timeout \/ ticks' >= retired[k] + Grace
    BY <1>1 DEF GoneInTime, Given
  <2>1. used[k] \in Nat /\ retired[k] \in Nat /\ Timeout \in Nat /\ Grace \in Nat
    BY SessionAssumption DEF SessionInv, SessionTyped, OthersTyped
  <2>2. k \in DOMAIN slots \/ ticks >= used[k] + Timeout \/ ticks >= retired[k] + Grace
    BY DEF SessionInv, GoneInTime
  <2> QED BY <1>1, <2>1, <2>2
<1>5. DueAfterGrace'
  <2>1. ASSUME NEW d \in Clients, announcing[d].old # 0
        PROVE  announcing[d].old \in Ids /\ retired[announcing[d].old] <= ticks'
    <3>1. announcing[d].old \in Ids /\ retired[announcing[d].old] <= ticks
      BY <2>1 DEF SessionInv, DueAfterGrace
    <3>2. retired[announcing[d].old] \in Nat
      BY <3>1 DEF SessionInv, SessionTyped, OthersTyped
    <3> QED BY <1>1, <3>1, <3>2
  <2> QED BY <1>1, <2>1 DEF SessionInv, DueAfterGrace
<1>6. OldIdReleased'
  BY <1>1 DEF SessionInv, OldIdReleased
<1>7. Balanced'
  BY <1>1, BalancedStays DEF SessionInv
<1> QED BY <1>2, <1>3, <1>4, <1>5, <1>6, <1>7 DEF SessionInv

\* A slot goes, and the end of the session under its id is about to be announced.
LEMMA DroppedKeeps ==
  ASSUME SessionInv, NEW id \in Ids, announcing["loop"] = Quiet, Dropped(id), Announce("loop", id),
         erasures' \subseteq erasures, \A e \in erasures : e.id # id => e \in erasures',
         UNCHANGED <<ticks, sessions, requests, cookie, owner, retired, used, notices>>,
         Given(id) /\ id \in DOMAIN slots => ticks >= used[id] + Timeout \/ ticks >= retired[id] + Grace
  PROVE  SessionInv'
<1>1. "loop" \in Announcers /\ "loop" \notin Clients
  BY SessionAssumption DEF Announcers
<1>2. /\ DOMAIN slots' = DOMAIN slots \ {id}
      /\ \A k \in DOMAIN slots' : slots'[k] = slots[k]
  BY DEF Dropped
<1>3. /\ announcing' \in [Announcers -> Notice]
      /\ announcing'["loop"].id = id
      /\ \A c \in Clients : announcing'[c] = announcing[c]
  <2>1. /\ announcing \in [Announcers -> Notice]
        /\ announcing' = [announcing EXCEPT !["loop"] = [Quiet EXCEPT !.id = id]]
    BY DEF SessionInv, SessionTyped, OthersTyped, Announce
  <2> QED BY <1>1, <2>1, QuietIs DEF Announcers
<1>4. SessionTyped'
  <2>1. SlotsTyped' /\ OthersTyped'
    BY <1>2, <1>3 DEF SessionInv, SessionTyped, SlotsTyped, OthersTyped
  <2> QED BY <2>1 DEF SessionInv, SessionTyped, SessionsTyped, RequestsTyped
<1>5. GivenFirst' /\ SlotsAreOwned' /\ SessionsGiven' /\ CookiesGiven'
  BY <1>2 DEF SessionInv, GivenFirst, SlotsAreOwned, SessionsGiven, CookiesGiven, Given
<1>6. NoticesGiven'
  <2> SUFFICES ASSUME NEW t \in Announcers, announcing'[t] # Quiet
               PROVE announcing'[t].id \in Ids /\ (t # "loop" => Given(announcing'[t].id))
    BY DEF NoticesGiven, Given
  <2>1. CASE t = "loop"
    BY <1>3, <2>1
  <2>2. CASE t # "loop"
    BY <1>3, <2>2 DEF Announcers, SessionInv, NoticesGiven
  <2> QED BY <2>1, <2>2
<1>7. GoneInTime'
  BY <1>2 DEF SessionInv, GoneInTime, Given
<1>8. DueAfterGrace'
  BY <1>3 DEF SessionInv, DueAfterGrace
<1>9. OldIdReleased'
  <2> SUFFICES ASSUME NEW k \in DOMAIN slots', sessions[slots'[k].session].id # k
               PROVE  \/ \E e \in erasures' : e.id = k
                      \/ \E d \in Clients : announcing'[d].old = k
    BY DEF OldIdReleased
  <2>1. k \in DOMAIN slots /\ k # id /\ slots'[k] = slots[k]
    BY <1>2
  <2>2. \/ \E e \in erasures : e.id = k
        \/ \E d \in Clients : announcing[d].old = k
    BY <2>1 DEF SessionInv, OldIdReleased
  <2> QED BY <1>3, <2>1, <2>2
<1>10. Balanced'
  <2> SUFFICES ASSUME NEW k \in Ids
               PROVE  /\ IsFiniteSet(Starting(k)')
                      /\ notices'[k].started + Cardinality(Starting(k)')
                           <= notices'[k].destroyed + Ending(k)' + Slots(k)'
    BY DEF Balanced
  <2>1. Starting(k)' = Starting(k)
    BY <1>3 DEF Starting
  <2>2. notices[k].started \in Nat /\ notices[k].destroyed \in Nat
    BY DEF SessionInv, SessionTyped, OthersTyped, Count
  <2>3. /\ IsFiniteSet(Starting(k))
        /\ notices[k].started + Cardinality(Starting(k))
             <= notices[k].destroyed + Ending(k) + Slots(k)
    BY DEF SessionInv, Balanced
  <2>4. Cardinality(Starting(k)) \in Nat
    BY <2>3, FS_CardinalityType
  <2>5. Ending(k) = 0
    BY QuietIs DEF Ending
  <2>6. Ending(k)' \in {0, 1} /\ Slots(k) \in {0, 1} /\ Slots(k)' \in {0, 1}
    BY DEF Ending, Slots
  <2>7. k = id => Ending(k)' = 1
    BY <1>3 DEF Ending
  <2>8. k # id => Slots(k)' = Slots(k)
    BY <1>2 DEF Slots
  <2> HIDE DEF Starting, Ending, Slots
  <2>9. CASE k = id
    BY <2>1, <2>2, <2>3, <2>4, <2>5, <2>6, <2>7, <2>9
  <2>10. CASE k # id
    BY <2>1, <2>2, <2>3, <2>4, <2>5, <2>6, <2>8, <2>10
  <2> QED BY <2>9, <2>10
<1> QED BY <1>4, <1>5, <1>6, <1>7, <1>8, <1>9, <1>10 DEF SessionInv

LEMMA ExpireSlotKeeps ==
  ASSUME SessionInv, NEW id \in DOMAIN slots, ExpireSlot(id)
  PROVE  SessionInv'
<1>1. /\ announcing["loop"] = Quiet /\ ticks >= slots[id].touched + Timeout
      /\ Dropped(id) /\ Announce("loop", id)
      /\ UNCHANGED <<ticks, sessions, erasures, requests, cookie, owner, retired, used, notices>>
  BY DEF ExpireSlot, Free
<1>2. id \in Ids /\ used[id] = slots[id].touched
  BY DEF SessionInv, SessionTyped, SlotsTyped, SlotsAreOwned
<1> QED BY <1>1, <1>2, DroppedKeeps

LEMMA EraseOldKeeps ==
  ASSUME SessionInv, NEW e \in erasures, EraseOld(e)
  PROVE  SessionInv'
<1>1. /\ announcing["loop"] = Quiet /\ ticks >= e.due /\ erasures' = erasures \ {e}
      /\ Dropped(e.id) /\ Announce("loop", e.id)
      /\ UNCHANGED <<ticks, sessions, requests, cookie, owner, retired, used, notices>>
  BY DEF EraseOld, Free
<1>2. e.id \in Ids /\ e.due \in Nat /\ e.due >= retired[e.id] + Grace
  BY DEF SessionInv, SessionTyped, OthersTyped, DueAfterGrace, Task
<1>3. ticks >= retired[e.id] + Grace
  <2>1. ticks \in Nat /\ retired[e.id] \in Nat /\ Grace \in Nat
    BY <1>2, SessionAssumption DEF SessionInv, SessionTyped, OthersTyped
  <2> QED BY <1>1, <1>2, <2>1
<1>4. erasures' \subseteq erasures /\ \A x \in erasures : x.id # e.id => x \in erasures'
  BY <1>1
<1> QED BY <1>1, <1>2, <1>3, <1>4, DroppedKeeps

LEMMA NoticeEndKeeps ==
  ASSUME SessionInv, NoticeEnd
  PROVE  SessionInv'
<1> DEFINE a == announcing["loop"]
<1>1. /\ a # Quiet
      /\ notices' = [notices EXCEPT ![a.id].destroyed = @ + 1]
      /\ announcing' = [announcing EXCEPT !["loop"] = Quiet]
      /\ UNCHANGED <<ticks, sessions, slots, erasures, requests, cookie, owner, retired, used>>
  BY DEF NoticeEnd, Free, Destroyed
<1>2. "loop" \in Announcers /\ "loop" \notin Clients
  BY SessionAssumption DEF Announcers
<1>3. announcing \in [Announcers -> Notice] /\ notices \in [Ids -> Count]
  BY DEF SessionInv, SessionTyped, OthersTyped
<1>4. a.id \in Ids /\ a.id = announcing["loop"].id
  BY <1>1, <1>2 DEF SessionInv, NoticesGiven
<1> HIDE DEF a
<1>5. /\ announcing' \in [Announcers -> Notice] /\ announcing'["loop"] = Quiet
      /\ \A c \in Clients : announcing'[c] = announcing[c]
  BY <1>1, <1>2, <1>3, QuietIs DEF Announcers
<1>6. /\ notices' \in [Ids -> Count]
      /\ notices'[a.id].started = notices[a.id].started
      /\ notices'[a.id].destroyed = notices[a.id].destroyed + 1
      /\ \A k \in Ids : k # a.id => notices'[k] = notices[k]
  <2>1. notices[a.id] \in Count
    BY <1>3, <1>4
  <2>2. notices' = [notices EXCEPT ![a.id] = [notices[a.id] EXCEPT !.destroyed = @ + 1]]
    BY <1>1
  <2>3. [notices[a.id] EXCEPT !.destroyed = @ + 1] \in Count
    BY <2>1 DEF Count
  <2> QED BY <1>3, <1>4, <2>1, <2>2, <2>3 DEF Count
<1>7. SessionTyped'
  <2>1. OthersTyped'
    BY <1>1, <1>5, <1>6 DEF SessionInv, SessionTyped, OthersTyped
  <2> QED BY <1>1, <2>1 DEF SessionInv, SessionTyped, SessionsTyped, SlotsTyped, RequestsTyped
<1>8. GivenFirst' /\ SlotsAreOwned' /\ SessionsGiven' /\ GoneInTime' /\ CookiesGiven'
  BY <1>1 DEF SessionInv, GivenFirst, SlotsAreOwned, SessionsGiven, GoneInTime, CookiesGiven, Given
<1>9. NoticesGiven'
  BY <1>1, <1>5 DEF SessionInv, NoticesGiven, Given, Announcers
<1>10. DueAfterGrace' /\ OldIdReleased'
  BY <1>1, <1>5 DEF SessionInv, DueAfterGrace, OldIdReleased
<1>11. Balanced'
  <2> SUFFICES ASSUME NEW k \in Ids
               PROVE  /\ IsFiniteSet(Starting(k)')
                      /\ notices'[k].started + Cardinality(Starting(k)')
                           <= notices'[k].destroyed + Ending(k)' + Slots(k)'
    BY DEF Balanced
  <2>1. Starting(k)' = Starting(k) /\ Slots(k)' = Slots(k) /\ Slots(k) \in {0, 1}
    BY <1>1, <1>5 DEF Starting, Slots
  <2>2. notices[k].started \in Nat /\ notices[k].destroyed \in Nat
    BY <1>3 DEF Count
  <2>3. /\ IsFiniteSet(Starting(k))
        /\ notices[k].started + Cardinality(Starting(k))
             <= notices[k].destroyed + Ending(k) + Slots(k)
    BY DEF SessionInv, Balanced
  <2>4. Cardinality(Starting(k)) \in Nat
    BY <2>3, FS_CardinalityType
  <2>5. Ending(k)' = 0
    BY <1>5, QuietIs DEF Ending
  <2>6. Ending(k) = IF k = a.id THEN 1 ELSE 0
    BY <1>4 DEF Ending
  <2> HIDE DEF Starting, Ending, Slots
  <2>7. CASE k = a.id
    BY <1>6, <2>1, <2>2, <2>3, <2>4, <2>5, <2>6, <2>7
  <2>8. CASE k # a.id
    BY <1>6, <2>1, <2>2, <2>3, <2>4, <2>5, <2>6, <2>8
  <2> QED BY <2>7, <2>8
<1> QED BY <1>7, <1>8, <1>9, <1>10, <1>11 DEF SessionInv

LEMMA SessionStaysIdle ==
  ASSUME SessionInv, UNCHANGED sessionVars
  PROVE  SessionInv'
<1>1. UNCHANGED <<ticks, sessions, slots, erasures, requests, cookie, owner, retired, used, announcing, notices>>
  BY DEF sessionVars
<1>2. sessions \in Seq(Session) /\ RequestsTyped' /\ cookie' \in [Clients -> 0..MaxIds] /\ CookiesGiven'
  BY <1>1 DEF SessionInv, SessionTyped, SessionsTyped, RequestsTyped, OthersTyped, CookiesGiven, Given
<1> QED BY <1>1, <1>2, IdsStay

LEMMA SessionKeeps == SessionInv /\ [SessionNext]_sessionVars => SessionInv'
<1> SUFFICES ASSUME SessionInv, [SessionNext]_sessionVars PROVE SessionInv'
  OBVIOUS
<1>1. ASSUME NEW c \in Clients,
             Send(c) \/ FindSession(c) \/ ChangeToClient(c) \/ Respond(c) \/ NoticeStart(c)
      PROVE  SessionInv'
  <2>1. CASE Respond(c)
    BY <2>1, RespondSameKeeps, RespondChangeKeeps
  <2> QED BY <1>1, <2>1, SendKeeps, FindSessionKeeps, ChangeToClientKeeps, NoticeStartKeeps
<1>2. CASE \E id \in DOMAIN slots : ExpireSlot(id)
  BY <1>2, ExpireSlotKeeps
<1>3. CASE \E e \in erasures : EraseOld(e)
  BY <1>3, EraseOldKeeps
<1> QED BY <1>1, <1>2, <1>3, MapTickKeeps, NoticeEndKeeps, SessionStaysIdle DEF SessionNext

-----------------------------------------------------------------------------
LEMMA SessionsInvariant == SessionSpec => []SessionInv
<1> QED BY SessionStarts, SessionKeeps, PTL DEF SessionSpec

\* No id outlives its use and none goes without notice, whatever the clients, the bounds and the
\* order in which requests, the timer, the tasks of changeSessionId and the advices come.
THEOREM SessionIdsAccounted == SessionSpec => []IdsAccounted
<1> QED BY SessionsInvariant, SessionInvIsEnough, PTL

\* The step of findSessionForRequest gives the session the id led to, unless its time is over.
LEMMA FoundIsOwned ==
  ASSUME SessionInv, [SessionNext]_sessionVars, NEW c \in Clients,
         Unfound(c) # {}, Unfound(c)' # Unfound(c), Len(requests'[c]) = Len(requests[c])
  PROVE  LET i == Upcoming(c)
             old == requests[c][i].cookie
         IN  \/ old = 0
             \/ requests'[c][i].session = owner[old]
             \/ ticks >= used[old] + Timeout
             \/ ticks >= retired[old] + Grace
<1>1. requests \in [Clients -> Seq(Asking)]
  BY DEF SessionInv, SessionTyped, RequestsTyped
<1>2. requests'[c] # requests[c]
  BY DEF Unfound
<1>3. ASSUME NEW d \in Clients, Send(d) PROVE FALSE
  <2>1. requests' = [requests EXCEPT ![d] = Append(@, [cookie |-> cookie[d], session |-> 0])]
    BY <1>3 DEF Send
  <2>2. d = c /\ requests'[c] = Append(requests[c], [cookie |-> cookie[c], session |-> 0])
    BY <1>1, <1>2, <2>1
  <2>3. Len(requests'[c]) = Len(requests[c]) + 1 /\ Len(requests[c]) \in Nat
    BY <1>1, <2>2
  <2> QED BY <2>3
<1>4. ASSUME NEW d \in Clients, Respond(d) PROVE FALSE
  <2>1. requests[d] # <<>> /\ requests' = [requests EXCEPT ![d] = Tail(@)]
    BY <1>4 DEF Respond
  <2>2. d = c /\ requests'[c] = Tail(requests[c]) /\ requests[c] # <<>>
    BY <1>1, <1>2, <2>1
  <2>3. Len(requests'[c]) = Len(requests[c]) - 1 /\ Len(requests[c]) \in Nat
    BY <1>1, <2>2
  <2> QED BY <2>3
<1>5. ASSUME NEW d \in Clients, FindSession(d)
      PROVE  LET i == Upcoming(c)
                 old == requests[c][i].cookie
             IN  \/ old = 0
                 \/ requests'[c][i].session = owner[old]
                 \/ ticks >= used[old] + Timeout
                 \/ ticks >= retired[old] + Grace
  <2> DEFINE i == Upcoming(d)
             old == requests[c][i].cookie
  <2>1. /\ i \in 1..Len(requests[d])
        /\ \E id \in Ids, n \in Nat \ {0} : id <= FreshId /\ FindsAt(d, i, id, n)
    BY <1>5, FindSessionIs
  <2> HIDE DEF i
  <2>2. PICK id \in Ids, n \in Nat \ {0} : id <= FreshId /\ FindsAt(d, i, id, n)
    BY <2>1
  <2>3. /\ id = IF requests[d][i].cookie = 0 THEN FreshId ELSE requests[d][i].cookie
        /\ requests' = [requests EXCEPT ![d][i].session = n]
        /\ id \in DOMAIN slots => n = slots[id].session
    BY <2>2 DEF FindsAt
  <2>4. d = c
    BY <1>1, <1>2, <2>3
  <2>5. requests'[c][i].session = n
    <3>1. requests[c] \in Seq(Asking) /\ i \in 1..Len(requests[c])
      BY <1>1, <2>1, <2>4
    <3>2. requests'[c] = [requests[c] EXCEPT ![i].session = n]
      BY <1>1, <2>3, <2>4
    <3>3. requests[c][i] \in Asking
      BY <3>1
    <3> QED BY <3>1, <3>2, <3>3 DEF Asking
  <2>6. ASSUME old # 0
        PROVE  requests'[c][i].session = owner[old] \/ ticks >= used[old] + Timeout \/ ticks >= retired[old] + Grace
    <3>1. id = old
      BY <2>3, <2>4, <2>6
    <3>2. CASE id \in DOMAIN slots
      BY <2>3, <2>5, <3>1, <3>2 DEF SessionInv, SlotsAreOwned
    <3>3. CASE id \notin DOMAIN slots
      <4>1. Given(id)
        BY <2>1, <2>4, <2>6, <3>1 DEF SessionInv, CookiesGiven
      <4> QED BY <3>1, <3>3, <4>1 DEF SessionInv, GoneInTime
    <3> QED BY <3>2, <3>3
  <2> QED BY <2>4, <2>6 DEF i
<1>6. UNCHANGED requests => FALSE
  BY <1>2
<1>7. ASSUME NEW d \in Clients, ChangeToClient(d) \/ NoticeStart(d) PROVE FALSE
  BY <1>6, <1>7 DEF ChangeToClient, NoticeStart
<1>8. ASSUME MapTick \/ (\E id \in DOMAIN slots : ExpireSlot(id)) \/ (\E e \in erasures : EraseOld(e)) \/ NoticeEnd
      PROVE  FALSE
  BY <1>6, <1>8 DEF MapTick, ExpireSlot, EraseOld, NoticeEnd
<1>9. SessionNext
  BY <1>6 DEF sessionVars
<1> HIDE DEF Unfound
<1> QED BY <1>3, <1>4, <1>5, <1>7, <1>8, <1>9 DEF SessionNext

\* A client that comes back in time gets the session it had, whoever comes between.
THEOREM SessionsKept == SessionSpec => ClientKeepsSession
<1>1. SessionInv /\ [SessionNext]_sessionVars =>
        [\A c \in Clients :
           (Unfound(c) # {} /\ Unfound(c)' # Unfound(c) /\ Len(requests'[c]) = Len(requests[c])) =>
             LET i == Upcoming(c)
                 old == requests[c][i].cookie
             IN  \/ old = 0
                 \/ requests'[c][i].session = owner[old]
                 \/ ticks >= used[old] + Timeout
                 \/ ticks >= retired[old] + Grace]_sessionVars
  BY FoundIsOwned
<1> QED BY <1>1, SessionsInvariant, PTL DEF SessionSpec, ClientKeepsSession

-----------------------------------------------------------------------------
(* Rate limiters: the windows of the limiters that a key has had one after *)
(* another do not meet.                                                    *)

Checks == {"ipCheck", "userCheck"}
Points == {"idle", "passed", "rejected", "global", "ip", "ipCheck", "user", "userCheck"}
Who == {None} \cup {q.ip : q \in Requests} \cup {q.user : q \in Requests}
AnyKey == {Key(i, kind, who) : i \in 1..Len(Strategies), kind \in {"global", "ip", "user"}, who \in Who}
SharedKey(i) == Key(i, "global", None)
SharedKeys == {SharedKey(i) : i \in 1..Len(Strategies)}
Limiter == [key : AnyKey, capacity : Nat, start : Nat, count : Nat]
Point == {p \in [at : Points, strategy : 0..Len(Strategies), request : Requests \cup {None}, limiter : Nat] :
            p.at # "idle" => p.strategy # 0 /\ p.request \in Requests}

GrantsTyped ==
  /\ IsFiniteSet(grants)
  /\ \A g \in grants : /\ g.time \in 0..now /\ g.limiter \in 1..Len(limiters)
                       /\ g.key = limiters[g.limiter].key
TableTyped ==
  \A k \in DOMAIN table :
    /\ table[k].limiter \in 1..Len(limiters) /\ table[k].touched \in Nat
    /\ limiters[table[k].limiter].key = k
SharedStay ==
  \A i \in 1..Len(Strategies) :
    Strategies[i].capacity > 0 =>
      SharedKey(i) \in DOMAIN table /\ table[SharedKey(i)].touched = MaxTime + 1
PointsHold == \A t \in Threads : pc[t].at \in Checks => pc[t].limiter \in 1..Len(limiters)
HodorTyped ==
  /\ now \in 0..MaxTime
  /\ pc \in [Threads -> Point]
  /\ limiters \in Seq(Limiter)
  /\ GrantsTyped /\ TableTyped /\ SharedStay /\ PointsHold

\* What a limiter has granted since its window began it has counted.
Granted(l) == {g \in grants : g.limiter = l /\ g.time >= limiters[l].start}
InWindow ==
  \A l \in 1..Len(limiters) :
    /\ Cardinality(Granted(l)) <= limiters[l].count
    /\ limiters[l].count <= limiters[l].capacity
    /\ limiters[l].start <= now

\* It grants in its window, or before it.
NoneAfter == \A g \in grants : g.time < limiters[g.limiter].start + TimeUnit

\* The windows of the limiters a key has had do not meet, and nothing is granted between.
Apart ==
  \A l, m \in 1..Len(limiters) : l < m /\ limiters[l].key = limiters[m].key =>
    /\ limiters[l].start + TimeUnit <= limiters[m].start
    /\ \A g \in grants : g.limiter = m => g.time >= limiters[l].start + TimeUnit

\* The limiter of a key in the table is its last, touched no sooner than its window began;
\* the windows of a key that is not there are over.
Newest ==
  \A k \in DOMAIN table :
    /\ limiters[table[k].limiter].start <= table[k].touched
    /\ \A l \in 1..Len(limiters) : limiters[l].key = k => l <= table[k].limiter
Over ==
  \A l \in 1..Len(limiters) :
    limiters[l].key \in DOMAIN table \/ limiters[l].key \in SharedKeys
    \/ limiters[l].start + TimeUnit <= now

\* A thread asks the limiter that stands in the table.
Held(l) ==
  /\ limiters[l].key \in DOMAIN table /\ table[limiters[l].key].limiter = l
  /\ table[limiters[l].key].touched >= now
AskedIsHeld == \A t \in Threads : pc[t].at \in Checks => Held(pc[t].limiter)

Windows == InWindow /\ NoneAfter /\ Apart /\ Newest /\ Over /\ AskedIsHeld
HodorInv == HodorTyped /\ (TimeUnit > 0 => Windows)

-----------------------------------------------------------------------------
LEMMA ExpireIs == limiterExpireTime \in Nat /\ limiterExpireTime >= 3 * TimeUnit
<1> DEFINE S == {ConfiguredExpire, 3 * TimeUnit}
<1>1. ConfiguredExpire \in Nat /\ 3 * TimeUnit \in Nat
  BY HodorAssumption
<1>2. \E x \in S : \A y \in S : x >= y
  <2>1. CASE ConfiguredExpire >= 3 * TimeUnit
    BY <1>1, <2>1
  <2>2. CASE ~(ConfiguredExpire >= 3 * TimeUnit)
    <3>1. 3 * TimeUnit >= ConfiguredExpire /\ 3 * TimeUnit >= 3 * TimeUnit
      BY <1>1, <2>2
    <3> QED BY <3>1
  <2> QED BY <2>1, <2>2
<1>3. Max(S) \in S /\ \A y \in S : Max(S) >= y
  <2> HIDE DEF S
  <2> QED BY <1>2 DEF Max
<1> QED BY <1>1, <1>3 DEF limiterExpireTime

\* The keys of requests are keys, and nobody shares the limiters of addresses and users.
LEMMA KeysAre ==
  /\ \A i \in 1..Len(Strategies) : SharedKey(i) \in AnyKey
  /\ \A i, j \in 1..Len(Strategies) : SharedKey(i) = SharedKey(j) => i = j
  /\ \A i \in 1..Len(Strategies), q \in Requests :
       /\ Key(i, "ip", q.ip) \in AnyKey \ SharedKeys
       /\ Key(i, "user", q.user) \in AnyKey \ SharedKeys
<1>1. None \in Who /\ \A q \in Requests : q.ip \in Who /\ q.user \in Who
  BY DEF Who
<1>2. \A i \in 1..Len(Strategies), kind \in {"global", "ip", "user"}, who \in Who : Key(i, kind, who) \in AnyKey
  BY DEF AnyKey
<1>3. \A i, j, who : Key(i, "ip", who) # SharedKey(j) /\ Key(i, "user", who) # SharedKey(j)
  BY DEF Key, SharedKey
<1>4. \A i, j : SharedKey(i) = SharedKey(j) => i = j
  BY DEF Key, SharedKey
<1> QED BY <1>1, <1>2, <1>3, <1>4 DEF SharedKey, SharedKeys

LEMMA PointIs ==
  ASSUME NEW p \in Point
  PROVE  /\ p.at \in Points /\ p.limiter \in Nat
         /\ p.at # "idle" => p.strategy \in 1..Len(Strategies) /\ p.request \in Requests
<1>1. /\ p \in [at : Points, strategy : 0..Len(Strategies), request : Requests \cup {None}, limiter : Nat]
      /\ p.at # "idle" => p.strategy # 0 /\ p.request \in Requests
  BY DEF Point
<1>2. p.strategy \in 0..Len(Strategies) /\ Len(Strategies) \in Nat
  BY <1>1, HodorAssumption
<1> QED BY <1>1, <1>2

\* Where a thread goes next.
AskingFor(t, at, l) == [pc[t] EXCEPT !.at = at, !.limiter = l]
LEMMA NextPoints ==
  ASSUME pc \in [Threads -> Point], NEW t \in Threads, pc[t].at # "idle"
  PROVE  /\ \A at \in Points \ {"idle"} : Then(t, at) \in Point /\ Then(t, at).at = at
         /\ AfterGlobal(t) \in Point /\ AfterGlobal(t).at \notin Checks
         /\ NextStrategy(t) \in Point /\ NextStrategy(t).at \notin Checks
         /\ \A at \in Points \ {"idle"}, l \in Nat :
              AskingFor(t, at, l) \in Point /\ AskingFor(t, at, l).at = at /\ AskingFor(t, at, l).limiter = l
<1> DEFINE p == pc[t]
<1>1. /\ p \in [at : Points, strategy : 0..Len(Strategies), request : Requests \cup {None}, limiter : Nat]
      /\ p.strategy # 0 /\ p.request \in Requests
  BY DEF Point
<1>2. ASSUME NEW at \in Points \ {"idle"}
      PROVE  [p EXCEPT !.at = at] \in Point /\ [p EXCEPT !.at = at].at = at
  BY <1>1 DEF Point
<1>3. ASSUME NEW at \in Points \ {"idle"}, NEW l \in Nat
      PROVE  /\ [p EXCEPT !.at = at, !.limiter = l] \in Point
             /\ [p EXCEPT !.at = at, !.limiter = l].at = at
             /\ [p EXCEPT !.at = at, !.limiter = l].limiter = l
  BY <1>1 DEF Point
<1>4. {"passed", "ip", "user", "global"} \subseteq Points \ {"idle"}
      /\ \A at \in {"passed", "ip", "user", "global"} : at \notin Checks
  BY DEF Points, Checks
<1>5. AfterGlobal(t) \in Point /\ AfterGlobal(t).at \notin Checks
  BY <1>2, <1>4 DEF AfterGlobal, Then
<1>6. NextStrategy(t) \in Point /\ NextStrategy(t).at \notin Checks
  <2>1. CASE p.strategy = Len(Strategies)
    BY <1>2, <1>4, <2>1 DEF NextStrategy
  <2>2. CASE p.strategy # Len(Strategies)
    <3>1. p.strategy + 1 \in 0..Len(Strategies) /\ p.strategy + 1 # 0
      <4>1. p.strategy \in 0..Len(Strategies) /\ Len(Strategies) \in Nat
        BY <1>1, HodorAssumption
      <4> QED BY <2>2, <4>1
    <3>2. NextStrategy(t) = [p EXCEPT !.at = "global", !.strategy = p.strategy + 1]
      BY <1>1, <2>2 DEF NextStrategy
    <3>3. /\ [p EXCEPT !.at = "global", !.strategy = p.strategy + 1] \in Point
          /\ [p EXCEPT !.at = "global", !.strategy = p.strategy + 1].at = "global"
      BY <1>1, <1>4, <3>1 DEF Point
    <3> QED BY <1>4, <3>2, <3>3
  <2> QED BY <2>1, <2>2
<1> QED BY <1>2, <1>3, <1>5, <1>6 DEF Then, AskingFor

LEMMA HodorStarts == HodorInit => HodorInv
<1> SUFFICES ASSUME HodorInit PROVE HodorInv
  OBVIOUS
<1> DEFINE Shared == {i \in DOMAIN Strategies : Strategies[i].capacity > 0}
           N == Len(Strategies)
<1>1. N \in Nat \ {0} /\ DOMAIN Strategies = 1..N
  BY HodorAssumption
<1>2. /\ now = 0 /\ grants = {}
      /\ pc = [t \in Threads |-> Idle]
      /\ limiters = [i \in 1..N |-> [key |-> SharedKey(i), start |-> 0, count |-> 0,
                                     capacity |-> Strategies[i].capacity]]
      /\ table = [k \in {SharedKey(i) : i \in Shared} |->
                    [limiter |-> CHOOSE i \in Shared : k = SharedKey(i), touched |-> MaxTime + 1]]
  BY <1>1 DEF HodorInit, SharedKey
<1>3. Shared \subseteq 1..N
  BY <1>1
<1> HIDE DEF Shared
<1>4. /\ limiters \in Seq(Limiter) /\ Len(limiters) = N
      /\ \A l \in 1..N : /\ limiters[l].key = SharedKey(l) /\ limiters[l].start = 0
                         /\ limiters[l].count = 0 /\ limiters[l].capacity = Strategies[l].capacity
  <2>1. \A l \in 1..N : Strategies[l].capacity \in Nat /\ SharedKey(l) \in AnyKey
    BY <1>1, HodorAssumption, KeysAre
  <2>2. \A l \in 1..N : [key |-> SharedKey(l), start |-> 0, count |-> 0,
                         capacity |-> Strategies[l].capacity] \in Limiter
    BY <2>1 DEF Limiter
  <2>3. \A l \in 1..N : limiters[l] \in Limiter
    BY <1>2, <2>2
  <2>4. limiters \in [1..N -> Limiter]
    BY <1>2, <2>2
  <2>5. limiters \in Seq(Limiter) /\ Len(limiters) = N
    BY <1>1, <2>4
  <2> QED BY <1>2, <2>5
<1>5. Idle \in Point /\ Idle.at = "idle" /\ "idle" \notin Checks
  <2>1. 0 \in 0..N /\ "idle" \in Points
    BY <1>1 DEF Points
  <2> QED BY <2>1 DEF Idle, Point, Checks
<1>6. ASSUME NEW k \in DOMAIN table
      PROVE  /\ table[k].limiter \in 1..N /\ k = SharedKey(table[k].limiter)
             /\ table[k].touched = MaxTime + 1
  <2>1. \E i \in Shared : k = SharedKey(i)
    BY <1>2
  <2>2. PICK j : j = CHOOSE i \in Shared : k = SharedKey(i)
    OBVIOUS
  <2>3. j \in Shared /\ k = SharedKey(j)
    BY <2>1, <2>2
  <2>4. table[k] = [limiter |-> j, touched |-> MaxTime + 1]
    BY <1>2, <2>2
  <2> QED BY <1>3, <2>3, <2>4
<1>7. HodorTyped
  <2>1. now \in 0..MaxTime /\ MaxTime + 1 \in Nat
    BY <1>2, HodorAssumption
  <2>2. pc \in [Threads -> Point] /\ PointsHold
    BY <1>2, <1>5 DEF PointsHold
  <2>3. GrantsTyped
    BY <1>2, FS_EmptySet DEF GrantsTyped
  <2>4. TableTyped
    BY <1>4, <1>6, <2>1 DEF TableTyped
  <2>5. SharedStay
    <3> SUFFICES ASSUME NEW i \in 1..N, Strategies[i].capacity > 0
                 PROVE  SharedKey(i) \in DOMAIN table /\ table[SharedKey(i)].touched = MaxTime + 1
      BY DEF SharedStay
    <3>1. i \in Shared
      BY <1>1 DEF Shared
    <3> QED BY <1>2, <1>6, <3>1
  <2> QED BY <1>4, <2>1, <2>2, <2>3, <2>4, <2>5 DEF HodorTyped
<1>8. Windows
  <2>1. InWindow
    <3> SUFFICES ASSUME NEW l \in 1..Len(limiters)
                 PROVE  /\ Cardinality(Granted(l)) <= limiters[l].count
                        /\ limiters[l].count <= limiters[l].capacity /\ limiters[l].start <= now
      BY DEF InWindow
    <3>1. Granted(l) = {}
      BY <1>2 DEF Granted
    <3>2. Cardinality(Granted(l)) = 0
      BY <3>1, FS_EmptySet
    <3>3. Strategies[l].capacity \in Nat
      BY <1>1, <1>4, HodorAssumption
    <3> QED BY <1>2, <1>4, <3>2, <3>3
  <2>2. NoneAfter /\ AskedIsHeld
    BY <1>2, <1>5 DEF NoneAfter, AskedIsHeld
  <2>3. Apart
    <3> SUFFICES ASSUME NEW l \in 1..N, NEW m \in 1..N, l < m, limiters[l].key = limiters[m].key
                 PROVE FALSE
      BY <1>4 DEF Apart
    <3>1. l = m
      BY <1>4, KeysAre
    <3> QED BY <3>1
  <2>4. Newest
    <3> SUFFICES ASSUME NEW k \in DOMAIN table
                 PROVE  /\ limiters[table[k].limiter].start <= table[k].touched
                        /\ \A l \in 1..N : limiters[l].key = k => l <= table[k].limiter
      BY <1>4 DEF Newest
    <3>1. \A l \in 1..N : limiters[l].key = k => l = table[k].limiter
      BY <1>4, <1>6, KeysAre
    <3> QED BY <1>4, <1>6, <3>1, HodorAssumption
  <2>5. Over
    BY <1>4 DEF Over, SharedKeys
  <2> QED BY <2>1, <2>2, <2>3, <2>4, <2>5 DEF Windows
<1> QED BY <1>7, <1>8 DEF HodorInv

\* A thread goes on; what is checked stays.
LEMMA PointKeeps ==
  ASSUME HodorInv, NEW t \in Threads, NEW p \in Point, p.at \notin Checks,
         pc' = [pc EXCEPT ![t] = p], UNCHANGED <<now, limiters, table, grants>>
  PROVE  HodorInv'
<1>1. /\ pc' \in [Threads -> Point]
      /\ \A u \in Threads : pc'[u].at \in Checks => pc'[u] = pc[u]
  BY DEF HodorInv, HodorTyped
<1>2. GrantsTyped' /\ TableTyped' /\ SharedStay'
  BY DEF HodorInv, HodorTyped, GrantsTyped, TableTyped, SharedStay
<1>3. PointsHold'
  BY <1>1 DEF HodorInv, HodorTyped, PointsHold
<1>4. HodorTyped'
  BY <1>1, <1>2, <1>3 DEF HodorInv, HodorTyped
<1>5. ASSUME TimeUnit > 0 PROVE Windows'
  <2>1. Windows
    BY <1>5 DEF HodorInv
  <2>2. \A l : Granted(l)' = Granted(l) /\ Held(l)' = Held(l)
    BY DEF Granted, Held
  <2>3. InWindow'
    BY <2>1, <2>2 DEF Windows, InWindow
  <2>4. NoneAfter' /\ Apart' /\ Newest' /\ Over'
    BY <2>1 DEF Windows, NoneAfter, Apart, Newest, Over
  <2>5. AskedIsHeld'
    BY <1>1, <2>1, <2>2 DEF Windows, AskedIsHeld
  <2> QED BY <2>3, <2>4, <2>5 DEF Windows
<1> QED BY <1>4, <1>5 DEF HodorInv

\* What a grant makes of a limiter.
LEMMA SpentIs ==
  ASSUME NEW old \in Limiter, now \in Nat
  PROVE  /\ Spent(old) \in Limiter /\ Spent(old).key = old.key /\ Spent(old).capacity = old.capacity
         /\ \/ now - old.start >= TimeUnit /\ Spent(old).start = now /\ Spent(old).count = 1
            \/ /\ ~(now - old.start >= TimeUnit) /\ Spent(old).start = old.start
               /\ Spent(old).count = old.count + 1
<1>0. old \in [key : AnyKey, capacity : Nat, start : Nat, count : Nat]
  BY DEF Limiter
<1>1. CASE now - old.start >= TimeUnit
  <2>1. Spent(old) = [old EXCEPT !.start = now, !.count = 1]
    BY <1>1 DEF Spent
  <2>2. [old EXCEPT !.start = now, !.count = 1] \in [key : AnyKey, capacity : Nat, start : Nat, count : Nat]
    BY <1>0
  <2> QED BY <1>0, <1>1, <2>1, <2>2 DEF Limiter
<1>2. CASE ~(now - old.start >= TimeUnit)
  <2>1. Spent(old) = [old EXCEPT !.count = @ + 1]
    BY <1>2 DEF Spent
  <2>2. [old EXCEPT !.count = @ + 1] \in [key : AnyKey, capacity : Nat, start : Nat, count : Nat]
    BY <1>0
  <2> QED BY <1>0, <1>2, <2>1, <2>2 DEF Limiter
<1> QED BY <1>1, <1>2

\* A limiter that is asked grants or not, once.
LEMMA AskKeeps ==
  ASSUME HodorInv, NEW t \in Threads, pc[t].at # "idle", NEW l \in 1..Len(limiters),
         TimeUnit > 0 => Held(l), NEW next \in Point, next.at \notin Checks,
         Ask(t, l, next), UNCHANGED <<now, table>>
  PROVE  HodorInv'
<1>1. CASE /\ ~IsAllowed(limiters[l])
           /\ pc' = [pc EXCEPT ![t].at = "rejected"]
           /\ UNCHANGED <<limiters, grants>>
  <2>1. pc \in [Threads -> Point] /\ "rejected" \in Points \ {"idle"} /\ "rejected" \notin Checks
    BY DEF HodorInv, HodorTyped, Points, Checks
  <2>2. Then(t, "rejected") \in Point /\ Then(t, "rejected").at \notin Checks
    <3>1. \A at \in Points \ {"idle"} : Then(t, at) \in Point /\ Then(t, at).at = at
      BY <2>1, NextPoints
    <3> QED BY <2>1, <3>1
  <2>3. pc' = [pc EXCEPT ![t] = Then(t, "rejected")]
    BY <1>1, <2>1 DEF Then
  <2> QED BY <1>1, <2>2, <2>3, PointKeeps
<1>2. CASE /\ IsAllowed(limiters[l])
           /\ limiters' = [limiters EXCEPT ![l] = Spent(@)]
           /\ grants' = grants \cup {[key |-> limiters[l].key, time |-> now, limiter |-> l,
                                      thread |-> t, nth |-> Cardinality(grants)]}
           /\ pc' = [pc EXCEPT ![t] = next]
  <2> DEFINE new == Spent(limiters[l])
  <2>a. PICK g0 : g0 = [key |-> limiters[l].key, time |-> now, limiter |-> l,
                        thread |-> t, nth |-> Cardinality(grants)]
    OBVIOUS
  <2>1. g0.key = limiters[l].key /\ g0.time = now /\ g0.limiter = l /\ grants' = grants \cup {g0}
    BY <1>2, <2>a
  <2>2. /\ now \in 0..MaxTime /\ limiters \in Seq(Limiter) /\ limiters[l] \in Limiter
        /\ pc \in [Threads -> Point] /\ now \in Nat /\ TimeUnit \in Nat /\ Len(limiters) \in Nat
    BY HodorAssumption DEF HodorInv, HodorTyped
  <2>3. /\ limiters[l].start \in Nat /\ limiters[l].count \in Nat /\ limiters[l].capacity \in Nat
        /\ limiters[l].key \in AnyKey
    BY <2>2 DEF Limiter
  <2>4. /\ new \in Limiter /\ new.key = limiters[l].key /\ new.capacity = limiters[l].capacity
        /\ \/ now - limiters[l].start >= TimeUnit /\ new.start = now /\ new.count = 1
           \/ /\ ~(now - limiters[l].start >= TimeUnit) /\ new.start = limiters[l].start
              /\ new.count = limiters[l].count + 1
    BY <2>2, SpentIs
  <2>5. limiters' = [limiters EXCEPT ![l] = new]
    BY <1>2
  <2> HIDE DEF new
  <2>6. /\ limiters' \in Seq(Limiter) /\ Len(limiters') = Len(limiters) /\ limiters'[l] = new
        /\ \A m \in 1..Len(limiters) : m # l => limiters'[m] = limiters[m]
    BY <2>2, <2>4, <2>5
  <2>7. \A m \in 1..Len(limiters) : limiters'[m].key = limiters[m].key
    BY <2>4, <2>6
  <2>8. /\ pc' \in [Threads -> Point]
        /\ \A u \in Threads : pc'[u].at \in Checks => pc'[u] = pc[u]
    BY <1>2, <2>2
  <2>9. GrantsTyped'
    <3>1. GrantsTyped
      BY DEF HodorInv, HodorTyped
    <3>2. IsFiniteSet(grants')
      BY <2>1, <3>1, FS_AddElement DEF GrantsTyped
    <3>3. ASSUME NEW g \in grants'
          PROVE  /\ g.time \in 0..now /\ g.limiter \in 1..Len(limiters)
                 /\ g.key = limiters'[g.limiter].key
      <4>1. CASE g \in grants
        BY <2>7, <3>1, <4>1 DEF GrantsTyped
      <4>2. CASE g = g0
        BY <2>1, <2>2, <2>7, <4>2
      <4> QED BY <2>1, <4>1, <4>2
    <3> QED BY <2>6, <3>2, <3>3 DEF GrantsTyped
  <2>10. HodorTyped'
    <3>1. TableTyped'
      BY <2>6, <2>7 DEF HodorInv, HodorTyped, TableTyped
    <3>2. SharedStay'
      BY DEF HodorInv, HodorTyped, SharedStay
    <3>3. PointsHold'
      BY <2>6, <2>8 DEF HodorInv, HodorTyped, PointsHold
    <3> QED BY <2>2, <2>6, <2>8, <2>9, <3>1, <3>2, <3>3 DEF HodorTyped
  <2>11. ASSUME TimeUnit > 0 PROVE Windows'
    <3>1. Windows /\ Held(l) /\ HodorTyped
      BY <2>11 DEF HodorInv
    <3>2. /\ Cardinality(Granted(l)) <= limiters[l].count /\ limiters[l].count <= limiters[l].capacity
          /\ limiters[l].start <= now
      BY <3>1 DEF Windows, InWindow
    <3>3. new.start \in Nat /\ limiters[l].start <= new.start /\ new.start <= now /\ now < new.start + TimeUnit
      BY <2>2, <2>3, <2>4, <2>11, <3>2
    <3>4. new.count <= new.capacity
      <4>1. limiters[l].capacity > 0
        BY <1>2, <2>3 DEF IsAllowed
      <4>2. ~(now - limiters[l].start >= TimeUnit) => limiters[l].count < limiters[l].capacity
        BY <1>2 DEF IsAllowed
      <4> QED BY <2>3, <2>4, <4>1, <4>2
    <3>5. \A g \in grants : /\ g.time \in Nat /\ g.limiter \in 1..Len(limiters)
                            /\ g.time < limiters[g.limiter].start + TimeUnit
      BY <2>2, <3>1 DEF Windows, NoneAfter, HodorTyped, GrantsTyped
    <3>6. IsFiniteSet(grants)
      BY <3>1 DEF HodorTyped, GrantsTyped
    <3>7. \A m \in 1..Len(limiters) : limiters[m].start \in Nat /\ limiters'[m].start \in Nat
      <4>1. \A m \in 1..Len(limiters) : limiters[m] \in Limiter /\ limiters'[m] \in Limiter
        BY <2>2, <2>6
      <4> QED BY <4>1 DEF Limiter
    <3>8. InWindow'
      <4> SUFFICES ASSUME NEW m \in 1..Len(limiters)
                   PROVE  /\ Cardinality(Granted(m)') <= limiters'[m].count
                          /\ limiters'[m].count <= limiters'[m].capacity
                          /\ limiters'[m].start <= now
        BY <2>6 DEF InWindow
      <4>1. CASE m # l
        <5>1. limiters'[m] = limiters[m]
          BY <2>6, <4>1
        <5>2. Granted(m)' = Granted(m)
          BY <2>1, <4>1, <5>1 DEF Granted
        <5> QED BY <3>1, <5>1, <5>2 DEF Windows, InWindow
      <4>2. CASE m = l
        <5>1. Cardinality(Granted(l)') <= new.count
          <6>1. CASE now - limiters[l].start >= TimeUnit
            <7>1. new.start = now /\ new.count = 1
              BY <2>4, <6>1
            <7>2. \A g \in grants : g.limiter = l => ~(g.time >= now)
              BY <2>2, <2>3, <3>5, <6>1
            <7>3. Granted(l)' \in SUBSET {g0}
              BY <2>1, <2>6, <7>1, <7>2 DEF Granted
            <7>4. IsFiniteSet({g0}) /\ Cardinality({g0}) = 1
              BY FS_Singleton
            <7>5. Cardinality(Granted(l)') <= 1
              <8> HIDE DEF Granted
              <8> QED BY <7>3, <7>4, FS_Subset
            <7> QED BY <7>1, <7>5
          <6>2. CASE ~(now - limiters[l].start >= TimeUnit)
            <7>1. new.start = limiters[l].start /\ new.count = limiters[l].count + 1
              BY <2>4, <6>2
            <7>2. Granted(l)' \in SUBSET (Granted(l) \cup {g0})
              BY <2>1, <2>6, <7>1 DEF Granted
            <7>3. IsFiniteSet(Granted(l))
              <8>1. Granted(l) \in SUBSET grants
                BY DEF Granted
              <8> QED BY <3>6, <8>1, FS_Subset
            <7> HIDE DEF Granted
            <7>4. /\ IsFiniteSet(Granted(l) \cup {g0})
                  /\ Cardinality(Granted(l) \cup {g0}) <= Cardinality(Granted(l)) + 1
                  /\ Cardinality(Granted(l)) \in Nat
              <8>1. Cardinality(Granted(l)) \in Nat
                BY <7>3, FS_CardinalityType
              <8>2. /\ IsFiniteSet(Granted(l) \cup {g0})
                    /\ Cardinality(Granted(l) \cup {g0}) =
                         IF g0 \in Granted(l) THEN Cardinality(Granted(l)) ELSE Cardinality(Granted(l)) + 1
                BY <7>3, FS_AddElement
              <8> QED BY <8>1, <8>2
            <7>5. /\ Cardinality(Granted(l)') <= Cardinality(Granted(l) \cup {g0})
                  /\ Cardinality(Granted(l)') \in Nat /\ Cardinality(Granted(l) \cup {g0}) \in Nat
              BY <7>2, <7>4, FS_Subset, FS_CardinalityType
            <7> QED BY <2>3, <3>2, <7>1, <7>4, <7>5
          <6> QED BY <6>1, <6>2
        <5> HIDE DEF Granted
        <5> QED BY <2>6, <3>3, <3>4, <4>2, <5>1
      <4> QED BY <4>1, <4>2
    <3>9. NoneAfter'
      <4> SUFFICES ASSUME NEW g \in grants' PROVE g.time < limiters'[g.limiter].start + TimeUnit
        BY DEF NoneAfter
      <4>1. CASE g = g0
        BY <2>1, <2>6, <3>3, <4>1
      <4>2. CASE g \in grants /\ g.limiter = l
        BY <2>2, <2>3, <2>6, <3>3, <3>5, <4>2
      <4>3. CASE g \in grants /\ g.limiter # l
        BY <2>6, <3>5, <4>3
      <4> QED BY <2>1, <4>1, <4>2, <4>3
    <3>10. Apart'
      <4> SUFFICES ASSUME NEW a \in 1..Len(limiters), NEW b \in 1..Len(limiters), a < b,
                          limiters[a].key = limiters[b].key
                   PROVE  /\ limiters'[a].start + TimeUnit <= limiters'[b].start
                          /\ \A g \in grants' : g.limiter = b => g.time >= limiters'[a].start + TimeUnit
        BY <2>6, <2>7 DEF Apart
      <4>1. /\ limiters[a].start + TimeUnit <= limiters[b].start
            /\ \A g \in grants : g.limiter = b => g.time >= limiters[a].start + TimeUnit
        BY <3>1 DEF Windows, Apart
      <4>2. a # l
        <5>1. ASSUME a = l PROVE FALSE
          <6>1. limiters[l].key \in DOMAIN table /\ table[limiters[l].key].limiter = l
            BY <3>1 DEF Held
          <6>2. b <= l
            BY <3>1, <5>1, <6>1 DEF Windows, Newest
          <6> QED BY <5>1, <6>2
        <5> QED BY <5>1
      <4>3. limiters'[a] = limiters[a]
        BY <2>6, <4>2
      <4>4. CASE b = l
        <5>1. limiters[a].start + TimeUnit <= new.start
          BY <2>2, <2>3, <3>3, <3>7, <4>1, <4>4
        <5>2. now >= limiters[a].start + TimeUnit
          BY <2>2, <3>3, <3>7, <5>1
        <5> QED BY <2>1, <2>6, <4>1, <4>3, <4>4, <5>1, <5>2
      <4>5. CASE b # l
        BY <2>1, <2>6, <4>1, <4>3, <4>5
      <4> QED BY <4>4, <4>5
    <3>11. Newest'
      <4> SUFFICES ASSUME NEW k \in DOMAIN table
                   PROVE  /\ limiters'[table[k].limiter].start <= table[k].touched
                          /\ \A m \in 1..Len(limiters) : limiters[m].key = k => m <= table[k].limiter
        BY <2>6, <2>7 DEF Newest
      <4>1. /\ limiters[table[k].limiter].start <= table[k].touched
            /\ \A m \in 1..Len(limiters) : limiters[m].key = k => m <= table[k].limiter
        BY <3>1 DEF Windows, Newest
      <4>2. /\ table[k].limiter \in 1..Len(limiters) /\ limiters[table[k].limiter].key = k
            /\ table[k].touched \in Nat
        BY <3>1 DEF HodorTyped, TableTyped
      <4>3. CASE table[k].limiter = l
        <5>1. table[k].touched >= now
          BY <3>1, <4>2, <4>3 DEF Held
        <5> QED BY <2>2, <2>6, <3>3, <4>1, <4>2, <4>3, <5>1
      <4>4. CASE table[k].limiter # l
        BY <2>6, <4>1, <4>2, <4>4
      <4> QED BY <4>3, <4>4
    <3>12. Over'
      <4> SUFFICES ASSUME NEW m \in 1..Len(limiters)
                   PROVE  \/ limiters[m].key \in DOMAIN table \/ limiters[m].key \in SharedKeys
                          \/ limiters'[m].start + TimeUnit <= now
        BY <2>6, <2>7 DEF Over
      <4>1. CASE m = l
        BY <3>1, <4>1 DEF Held
      <4>2. CASE m # l
        BY <2>6, <3>1, <4>2 DEF Windows, Over
      <4> QED BY <4>1, <4>2
    <3>13. AskedIsHeld'
      <4> SUFFICES ASSUME NEW u \in Threads, pc'[u].at \in Checks PROVE Held(pc[u].limiter)'
        BY <2>8 DEF AskedIsHeld, Held
      <4>1. pc'[u] = pc[u]
        BY <2>8
      <4>2. pc[u].limiter \in 1..Len(limiters) /\ Held(pc[u].limiter)
        BY <3>1, <4>1 DEF HodorTyped, PointsHold, Windows, AskedIsHeld
      <4> QED BY <2>7, <4>1, <4>2 DEF Held
    <3> QED BY <3>8, <3>9, <3>10, <3>11, <3>12, <3>13 DEF Windows
  <2> QED BY <2>10, <2>11 DEF HodorInv
<1> QED BY <1>1, <1>2 DEF Ask

\* The limiter of an address or a user is found or made, and touched.
LEMMA ModifyKeeps ==
  ASSUME HodorInv, NEW t \in Threads, pc[t].at # "idle", NEW key \in AnyKey \ SharedKeys,
         NEW capacity \in Nat, NEW at \in Checks, Modify(t, key, capacity, at),
         UNCHANGED <<now, grants>>
  PROVE  HodorInv'
<1>a. PICK l : l = IF key \in DOMAIN table THEN table[key].limiter ELSE Len(limiters) + 1
  OBVIOUS
<1>b. PICK new : new = NewLimiter(key, capacity)
  OBVIOUS
<1>1. /\ limiters' = IF key \in DOMAIN table THEN limiters ELSE Append(limiters, new)
      /\ table' = [k \in DOMAIN table \cup {key} |->
                     IF k = key THEN [limiter |-> l, touched |-> now] ELSE table[k]]
      /\ pc' = [pc EXCEPT ![t].at = at, ![t].limiter = l]
  BY <1>a, <1>b DEF Modify
<1>2. /\ now \in 0..MaxTime /\ limiters \in Seq(Limiter) /\ pc \in [Threads -> Point]
      /\ now \in Nat /\ TimeUnit \in Nat /\ Len(limiters) \in Nat
      /\ GrantsTyped /\ TableTyped /\ SharedStay /\ PointsHold
  BY HodorAssumption DEF HodorInv, HodorTyped
<1>3. /\ new \in Limiter /\ new.key = key /\ new.capacity = capacity /\ new.start = now /\ new.count = 0
  BY <1>2, <1>b DEF NewLimiter, Limiter
<1>4. /\ limiters' \in Seq(Limiter) /\ Len(limiters') \in Nat /\ l \in 1..Len(limiters')
      /\ \A m \in 1..Len(limiters) : m \in 1..Len(limiters') /\ limiters'[m] = limiters[m]
      /\ limiters'[l].key = key
      /\ \/ key \in DOMAIN table /\ limiters' = limiters /\ l = table[key].limiter
         \/ /\ key \notin DOMAIN table /\ l = Len(limiters) + 1 /\ Len(limiters') = l
            /\ limiters'[l] = new
  <2>1. CASE key \in DOMAIN table
    BY <1>1, <1>2, <1>a, <2>1 DEF TableTyped
  <2>2. CASE key \notin DOMAIN table
    <3>1. limiters' = Append(limiters, new) /\ l = Len(limiters) + 1
      BY <1>1, <1>a, <2>2
    <3> QED BY <1>2, <1>3, <2>2, <3>1
  <2> QED BY <2>1, <2>2
<1>5. /\ DOMAIN table' = DOMAIN table \cup {key}
      /\ table'[key].limiter = l /\ table'[key].touched = now
      /\ \A k \in DOMAIN table : k # key => table'[k] = table[k]
  BY <1>1
<1>6. /\ pc' \in [Threads -> Point] /\ pc'[t].limiter = l
      /\ \A u \in Threads : u # t => pc'[u] = pc[u]
  <2>1. at \in Points \ {"idle"} /\ l \in Nat
    BY <1>4 DEF Checks, Points
  <2>2. AskingFor(t, at, l) \in Point /\ AskingFor(t, at, l).limiter = l
    BY <1>2, <2>1, NextPoints
  <2>3. pc' = [pc EXCEPT ![t] = AskingFor(t, at, l)]
    BY <1>1, <1>2 DEF AskingFor
  <2> QED BY <1>2, <2>2, <2>3
<1>7. \A m \in 1..Len(limiters') : m \in 1..Len(limiters) \/ (m = l /\ l = Len(limiters) + 1 /\ limiters'[l] = new
                                                            /\ key \notin DOMAIN table)
  BY <1>2, <1>4
<1>8. HodorTyped'
  <2>1. GrantsTyped'
    BY <1>2, <1>4 DEF GrantsTyped
  <2>2. TableTyped'
    <3> SUFFICES ASSUME NEW k \in DOMAIN table'
                 PROVE  /\ table'[k].limiter \in 1..Len(limiters') /\ table'[k].touched \in Nat
                        /\ limiters'[table'[k].limiter].key = k
      BY DEF TableTyped
    <3>1. CASE k = key
      BY <1>2, <1>4, <1>5, <3>1
    <3>2. CASE k # key
      BY <1>2, <1>4, <1>5, <3>2 DEF TableTyped
    <3> QED BY <3>1, <3>2
  <2>3. SharedStay'
    <3> SUFFICES ASSUME NEW i \in 1..Len(Strategies), Strategies[i].capacity > 0
                 PROVE  SharedKey(i) \in DOMAIN table' /\ table'[SharedKey(i)].touched = MaxTime + 1
      BY DEF SharedStay
    <3>1. SharedKey(i) \in SharedKeys
      BY DEF SharedKeys
    <3>2. SharedKey(i) \in DOMAIN table /\ table[SharedKey(i)].touched = MaxTime + 1
      BY <1>2 DEF SharedStay
    <3> HIDE DEF SharedKey
    <3> QED BY <1>5, <3>1, <3>2
  <2>4. PointsHold'
    BY <1>2, <1>4, <1>6 DEF PointsHold
  <2> QED BY <1>2, <1>4, <1>6, <2>1, <2>2, <2>3, <2>4 DEF HodorTyped
<1>9. ASSUME TimeUnit > 0 PROVE Windows'
  <2>1. Windows
    BY <1>9 DEF HodorInv
  <2>2. \A g \in grants : g.time \in Nat /\ g.time <= now /\ g.limiter \in 1..Len(limiters)
    BY <1>2 DEF GrantsTyped
  <2>3. \A m \in 1..Len(limiters) : limiters[m].start \in Nat
    <3>1. \A m \in 1..Len(limiters) : limiters[m] \in Limiter
      BY <1>2
    <3> QED BY <3>1 DEF Limiter
  <2>4. InWindow'
    <3> SUFFICES ASSUME NEW m \in 1..Len(limiters')
                 PROVE  /\ Cardinality(Granted(m)') <= limiters'[m].count
                        /\ limiters'[m].count <= limiters'[m].capacity
                        /\ limiters'[m].start <= now
      BY DEF InWindow
    <3>1. CASE m \in 1..Len(limiters)
      <4>1. limiters'[m] = limiters[m]
        BY <1>4, <3>1
      <4>2. Granted(m)' = Granted(m)
        BY <4>1 DEF Granted
      <4> QED BY <2>1, <3>1, <4>1, <4>2 DEF Windows, InWindow
    <3>2. CASE m = l /\ l = Len(limiters) + 1 /\ limiters'[l] = new
      <4>1. \A g \in grants : g.limiter # m
        BY <1>2, <2>2, <3>2
      <4>2. Granted(m)' = {}
        BY <4>1 DEF Granted
      <4>3. Cardinality(Granted(m)') = 0
        BY <4>2, FS_EmptySet
      <4> QED BY <1>2, <1>3, <3>2, <4>3
    <3> QED BY <1>7, <3>1, <3>2
  <2>5. NoneAfter'
    BY <1>4, <2>1, <2>2 DEF Windows, NoneAfter
  <2>6. Apart'
    <3> SUFFICES ASSUME NEW a \in 1..Len(limiters'), NEW b \in 1..Len(limiters'), a < b,
                        limiters'[a].key = limiters'[b].key
                 PROVE  /\ limiters'[a].start + TimeUnit <= limiters'[b].start
                        /\ \A g \in grants : g.limiter = b => g.time >= limiters'[a].start + TimeUnit
      BY DEF Apart
    <3>1. a \in 1..Len(limiters) /\ limiters'[a] = limiters[a]
      BY <1>2, <1>4, <1>7
    <3>2. CASE b \in 1..Len(limiters)
      BY <1>4, <2>1, <3>1, <3>2 DEF Windows, Apart
    <3>3. CASE b = l /\ l = Len(limiters) + 1 /\ limiters'[l] = new /\ key \notin DOMAIN table
      <4>1. limiters[a].key = key
        BY <1>3, <3>1, <3>3
      <4>2. limiters[a].start + TimeUnit <= now
        BY <2>1, <3>1, <3>3, <4>1 DEF Windows, Over
      <4>3. \A g \in grants : g.limiter # b
        BY <1>2, <2>2, <3>3
      <4> QED BY <1>3, <3>1, <3>3, <4>2, <4>3
    <3> QED BY <1>7, <3>2, <3>3
  <2>7. Newest'
    <3> SUFFICES ASSUME NEW k \in DOMAIN table'
                 PROVE  /\ limiters'[table'[k].limiter].start <= table'[k].touched
                        /\ \A m \in 1..Len(limiters') : limiters'[m].key = k => m <= table'[k].limiter
      BY DEF Newest
    <3>1. CASE k = key
      <4>1. limiters'[l].start <= now
        <5>1. CASE key \in DOMAIN table
          BY <1>4, <2>1, <5>1 DEF Windows, InWindow
        <5>2. CASE key \notin DOMAIN table
          BY <1>2, <1>3, <1>4, <5>2
        <5> QED BY <5>1, <5>2
      <4>2. \A m \in 1..Len(limiters') : limiters'[m].key = key => m <= l
        <5>1. CASE key \in DOMAIN table
          BY <1>4, <2>1, <5>1 DEF Windows, Newest
        <5>2. CASE key \notin DOMAIN table
          BY <1>4, <5>2
        <5> QED BY <5>1, <5>2
      <4> QED BY <1>5, <3>1, <4>1, <4>2
    <3>2. CASE k # key
      <4>1. /\ k \in DOMAIN table /\ table'[k] = table[k] /\ table[k].limiter \in 1..Len(limiters)
            /\ limiters'[table[k].limiter] = limiters[table[k].limiter]
        BY <1>2, <1>4, <1>5, <3>2 DEF TableTyped
      <4>2. /\ limiters[table[k].limiter].start <= table[k].touched
            /\ \A m \in 1..Len(limiters) : limiters[m].key = k => m <= table[k].limiter
        BY <2>1, <4>1 DEF Windows, Newest
      <4>3. \A m \in 1..Len(limiters') : limiters'[m].key = k => m \in 1..Len(limiters) /\ limiters[m].key = k
        BY <1>4, <1>7, <3>2
      <4> QED BY <4>1, <4>2, <4>3
    <3> QED BY <3>1, <3>2
  <2>8. Over'
    <3> SUFFICES ASSUME NEW m \in 1..Len(limiters')
                 PROVE  \/ limiters'[m].key \in DOMAIN table' \/ limiters'[m].key \in SharedKeys
                        \/ limiters'[m].start + TimeUnit <= now
      BY DEF Over
    <3>1. CASE m \in 1..Len(limiters)
      BY <1>4, <1>5, <2>1, <3>1 DEF Windows, Over
    <3>2. CASE m = l
      BY <1>4, <1>5, <3>2
    <3> QED BY <1>7, <3>1, <3>2
  <2>9. AskedIsHeld'
    <3> SUFFICES ASSUME NEW u \in Threads, pc'[u].at \in Checks
                 PROVE  LET m == pc'[u].limiter
                        IN  /\ limiters'[m].key \in DOMAIN table' /\ table'[limiters'[m].key].limiter = m
                            /\ table'[limiters'[m].key].touched >= now
      BY DEF AskedIsHeld, Held
    <3>1. CASE u = t
      BY <1>2, <1>4, <1>5, <1>6, <3>1
    <3>2. CASE u # t
      <4>1. pc'[u] = pc[u] /\ pc[u].limiter \in 1..Len(limiters) /\ Held(pc[u].limiter)
        BY <1>2, <1>6, <2>1, <3>2 DEF PointsHold, Windows, AskedIsHeld
      <4>2. limiters'[pc[u].limiter] = limiters[pc[u].limiter]
        BY <1>4, <4>1
      <4>3. CASE limiters[pc[u].limiter].key = key
        <5>1. l = pc[u].limiter
          BY <1>4, <4>1, <4>3 DEF Held
        <5> QED BY <1>2, <1>5, <4>1, <4>2, <4>3, <5>1
      <4>4. CASE limiters[pc[u].limiter].key # key
        BY <1>5, <4>1, <4>2, <4>4 DEF Held
      <4> QED BY <4>3, <4>4
    <3> QED BY <3>1, <3>2
  <2> QED BY <2>4, <2>5, <2>6, <2>7, <2>8, <2>9 DEF Windows
<1> QED BY <1>8, <1>9 DEF HodorInv

LEMMA TickKeeps ==
  ASSUME HodorInv, Tick
  PROVE  HodorInv'
<1>1. /\ now < MaxTime /\ now' = now + 1 /\ UNCHANGED <<pc, limiters, table, grants>>
      /\ \A t \in Threads : pc[t].at \notin Checks
  BY DEF Tick, Checks
<1>2. now \in 0..MaxTime /\ now' \in 0..MaxTime /\ now \in Nat /\ MaxTime \in Nat
  BY <1>1, HodorAssumption DEF HodorInv, HodorTyped
<1>3. HodorTyped'
  <2>1. GrantsTyped'
    <3>1. \A g \in grants : g.time \in 0..now => g.time \in 0..now'
      BY <1>1, <1>2
    <3> QED BY <1>1, <3>1 DEF HodorInv, HodorTyped, GrantsTyped
  <2>2. TableTyped' /\ SharedStay' /\ PointsHold'
    BY <1>1 DEF HodorInv, HodorTyped, TableTyped, SharedStay, PointsHold
  <2> QED BY <1>1, <1>2, <2>1, <2>2 DEF HodorInv, HodorTyped
<1>4. ASSUME TimeUnit > 0 PROVE Windows'
  <2>1. Windows
    BY <1>4 DEF HodorInv
  <2>2. \A m \in 1..Len(limiters) : limiters[m].start \in Nat
    <3>1. \A m \in 1..Len(limiters) : limiters[m] \in Limiter
      BY DEF HodorInv, HodorTyped
    <3> QED BY <3>1 DEF Limiter
  <2>3. \A l : Granted(l)' = Granted(l)
    BY <1>1 DEF Granted
  <2>4. InWindow'
    <3> SUFFICES ASSUME NEW m \in 1..Len(limiters)
                 PROVE  /\ Cardinality(Granted(m)) <= limiters[m].count
                        /\ limiters[m].count <= limiters[m].capacity
                        /\ limiters[m].start <= now'
      BY <1>1, <2>3 DEF InWindow
    <3> QED BY <1>1, <1>2, <2>1, <2>2 DEF Windows, InWindow
  <2>5. NoneAfter' /\ Apart' /\ Newest'
    BY <1>1, <2>1 DEF Windows, NoneAfter, Apart, Newest
  <2>6. Over'
    <3> SUFFICES ASSUME NEW m \in 1..Len(limiters)
                 PROVE  \/ limiters[m].key \in DOMAIN table \/ limiters[m].key \in SharedKeys
                        \/ limiters[m].start + TimeUnit <= now'
      BY <1>1 DEF Over
    <3> QED BY <1>1, <1>2, <2>1, <2>2, HodorAssumption DEF Windows, Over
  <2>7. AskedIsHeld'
    BY <1>1 DEF AskedIsHeld
  <2> QED BY <2>4, <2>5, <2>6, <2>7 DEF Windows
<1> QED BY <1>3, <1>4 DEF HodorInv

\* A limiter nobody has asked for three windows goes.
LEMMA ExpireKeeps ==
  ASSUME HodorInv, NEW key \in DOMAIN table, Expire(key)
  PROVE  HodorInv'
<1>1. /\ now >= table[key].touched + limiterExpireTime
      /\ DOMAIN table' = DOMAIN table \ {key}
      /\ \A k \in DOMAIN table' : table'[k] = table[k]
      /\ UNCHANGED <<now, pc, limiters, grants>>
  BY DEF Expire
<1>2. /\ limiterExpireTime \in Nat /\ limiterExpireTime >= 3 * TimeUnit
      /\ TimeUnit \in Nat /\ now \in Nat /\ now <= MaxTime /\ MaxTime \in Nat
      /\ table[key].touched \in Nat
  BY ExpireIs, HodorAssumption DEF HodorInv, HodorTyped, TableTyped
<1>3. HodorTyped'
  <2>1. GrantsTyped' /\ TableTyped' /\ PointsHold'
    BY <1>1 DEF HodorInv, HodorTyped, GrantsTyped, TableTyped, PointsHold
  <2>2. table[key].touched # MaxTime + 1
    BY <1>1, <1>2
  <2>3. SharedStay'
    BY <1>1, <2>2 DEF HodorInv, HodorTyped, SharedStay
  <2> QED BY <1>1, <2>1, <2>3 DEF HodorInv, HodorTyped
<1>4. ASSUME TimeUnit > 0 PROVE Windows'
  <2>1. Windows
    BY <1>4 DEF HodorInv
  <2>2. \A m \in 1..Len(limiters) : limiters[m].start \in Nat
    <3>1. \A m \in 1..Len(limiters) : limiters[m] \in Limiter
      BY DEF HodorInv, HodorTyped
    <3> QED BY <3>1 DEF Limiter
  <2>3. \A l : Granted(l)' = Granted(l)
    BY <1>1 DEF Granted
  <2>4. InWindow'
    BY <1>1, <2>1, <2>3 DEF Windows, InWindow
  <2>5. NoneAfter' /\ Apart' /\ Newest'
    BY <1>1, <2>1 DEF Windows, NoneAfter, Apart, Newest
  <2>6. Over'
    <3> SUFFICES ASSUME NEW m \in 1..Len(limiters), limiters[m].key = key
                 PROVE  limiters[m].start + TimeUnit <= now
      BY <1>1, <2>1 DEF Windows, Over
    <3> DEFINE l == table[key].limiter
    <3>1. limiters[l].start <= table[key].touched /\ m <= l /\ l \in 1..Len(limiters) /\ limiters[l].key = key
      BY <2>1 DEF Windows, Newest, HodorInv, HodorTyped, TableTyped
    <3>2. limiters[m].start <= limiters[l].start
      <4>1. CASE m = l
        BY <2>2, <4>1
      <4>2. CASE m # l
        <5>1. m < l
          BY <3>1, <4>2
        <5>2. limiters[m].start + TimeUnit <= limiters[l].start
          BY <2>1, <3>1, <5>1 DEF Windows, Apart
        <5> QED BY <1>2, <2>2, <3>1, <5>2
      <4> QED BY <4>1, <4>2
    <3> HIDE DEF l
    <3> QED BY <1>1, <1>2, <2>2, <3>1, <3>2
  <2>7. AskedIsHeld'
    <3>1. ASSUME NEW t \in Threads, pc[t].at \in Checks PROVE Held(pc[t].limiter)'
      <4>1. Held(pc[t].limiter)
        BY <2>1, <3>1 DEF Windows, AskedIsHeld
      <4>2. limiters[pc[t].limiter].key # key
        BY <1>1, <1>2, <1>4, <4>1 DEF Held
      <4> QED BY <1>1, <4>1, <4>2 DEF Held
    <3> QED BY <1>1, <3>1 DEF AskedIsHeld
  <2> QED BY <2>4, <2>5, <2>6, <2>7 DEF Windows
<1> QED BY <1>3, <1>4 DEF HodorInv

-----------------------------------------------------------------------------
LEMMA CheckGlobalKeeps ==
  ASSUME HodorInv, NEW t \in Threads, CheckGlobal(t)
  PROVE  HodorInv'
<1>1. pc[t].at = "global" /\ pc \in [Threads -> Point] /\ UNCHANGED <<now, table>>
  BY DEF CheckGlobal, HodorInv, HodorTyped
<1> DEFINE i == pc[t].strategy
<1>2. i \in 1..Len(Strategies) /\ pc[t].at # "idle"
  BY <1>1, PointIs
<1>3. /\ AfterGlobal(t) \in Point /\ AfterGlobal(t).at \notin Checks
      /\ NextStrategy(t) \in Point /\ NextStrategy(t).at \notin Checks
  BY <1>1, <1>2, NextPoints
<1>4. \/ pc' = [pc EXCEPT ![t] = NextStrategy(t)] /\ UNCHANGED <<limiters, grants>>
      \/ pc' = [pc EXCEPT ![t] = AfterGlobal(t)] /\ UNCHANGED <<limiters, grants>>
      \/ Strategies[i].capacity # 0 /\ Ask(t, table[SharedKey(i)].limiter, AfterGlobal(t))
  BY DEF CheckGlobal, SharedKey
<1>5. CASE pc' = [pc EXCEPT ![t] = NextStrategy(t)] /\ UNCHANGED <<limiters, grants>>
  BY <1>1, <1>3, <1>5, PointKeeps
<1>6. CASE pc' = [pc EXCEPT ![t] = AfterGlobal(t)] /\ UNCHANGED <<limiters, grants>>
  BY <1>1, <1>3, <1>6, PointKeeps
<1>7. CASE Strategies[i].capacity # 0 /\ Ask(t, table[SharedKey(i)].limiter, AfterGlobal(t))
  <2>1. Strategies[i].capacity > 0
    BY <1>2, <1>7, HodorAssumption
  <2>2. SharedKey(i) \in DOMAIN table /\ table[SharedKey(i)].touched = MaxTime + 1
    BY <1>2, <2>1 DEF HodorInv, HodorTyped, SharedStay
  <2>3. PICK l : l = table[SharedKey(i)].limiter
    OBVIOUS
  <2>4. l \in 1..Len(limiters) /\ limiters[l].key = SharedKey(i)
    BY <2>2, <2>3 DEF HodorInv, HodorTyped, TableTyped
  <2>5. MaxTime + 1 >= now
    BY HodorAssumption DEF HodorInv, HodorTyped
  <2>6. Held(l)
    BY <2>2, <2>3, <2>4, <2>5 DEF Held
  <2>7. PICK next : next = AfterGlobal(t)
    OBVIOUS
  <2>8. Ask(t, l, next) /\ next \in Point /\ next.at \notin Checks
    BY <1>3, <1>7, <2>3, <2>7
  <2> QED BY <1>1, <1>2, <2>4, <2>6, <2>8, AskKeeps
<1> QED BY <1>4, <1>5, <1>6, <1>7

LEMMA FindIpKeeps ==
  ASSUME HodorInv, NEW t \in Threads, FindIp(t)
  PROVE  HodorInv'
<1>1. /\ pc[t].at = "ip" /\ pc \in [Threads -> Point] /\ UNCHANGED <<now, grants>>
      /\ Modify(t, Key(pc[t].strategy, "ip", pc[t].request.ip),
                Strategies[pc[t].strategy].ipCapacity, "ipCheck")
  BY DEF FindIp, HodorInv, HodorTyped
<1>2. pc[t].strategy \in 1..Len(Strategies) /\ pc[t].request \in Requests /\ pc[t].at # "idle"
  BY <1>1, PointIs
<1>3. PICK key : key = Key(pc[t].strategy, "ip", pc[t].request.ip)
  OBVIOUS
<1>4. PICK capacity : capacity = Strategies[pc[t].strategy].ipCapacity
  OBVIOUS
<1>5. key \in AnyKey \ SharedKeys /\ capacity \in Nat /\ "ipCheck" \in Checks
  BY <1>2, <1>3, <1>4, KeysAre, HodorAssumption DEF Checks
<1>6. Modify(t, key, capacity, "ipCheck")
  BY <1>1, <1>3, <1>4
<1> QED BY <1>1, <1>2, <1>5, <1>6, ModifyKeeps

LEMMA FindUserKeeps ==
  ASSUME HodorInv, NEW t \in Threads, FindUser(t)
  PROVE  HodorInv'
<1>1. /\ pc[t].at = "user" /\ pc \in [Threads -> Point] /\ UNCHANGED <<now, grants>>
      /\ \/ pc' = [pc EXCEPT ![t] = NextStrategy(t)] /\ UNCHANGED <<limiters, table>>
         \/ Modify(t, Key(pc[t].strategy, "user", pc[t].request.user),
                   Strategies[pc[t].strategy].userCapacity, "userCheck")
  BY DEF FindUser, HodorInv, HodorTyped
<1>2. pc[t].strategy \in 1..Len(Strategies) /\ pc[t].request \in Requests /\ pc[t].at # "idle"
  BY <1>1, PointIs
<1>3. NextStrategy(t) \in Point /\ NextStrategy(t).at \notin Checks
  BY <1>1, <1>2, NextPoints
<1>4. CASE pc' = [pc EXCEPT ![t] = NextStrategy(t)] /\ UNCHANGED <<limiters, table>>
  BY <1>1, <1>3, <1>4, PointKeeps
<1>5. CASE Modify(t, Key(pc[t].strategy, "user", pc[t].request.user),
                  Strategies[pc[t].strategy].userCapacity, "userCheck")
  <2>1. PICK key : key = Key(pc[t].strategy, "user", pc[t].request.user)
    OBVIOUS
  <2>2. PICK capacity : capacity = Strategies[pc[t].strategy].userCapacity
    OBVIOUS
  <2>3. key \in AnyKey \ SharedKeys /\ capacity \in Nat /\ "userCheck" \in Checks
    BY <1>2, <2>1, <2>2, KeysAre, HodorAssumption DEF Checks
  <2>4. Modify(t, key, capacity, "userCheck")
    BY <1>5, <2>1, <2>2
  <2> QED BY <1>1, <1>2, <2>3, <2>4, ModifyKeeps
<1> QED BY <1>1, <1>4, <1>5

\* The limiter a thread has got is asked.
LEMMA CheckKeeps ==
  ASSUME HodorInv, NEW t \in Threads, CheckIp(t) \/ CheckUser(t)
  PROVE  HodorInv'
<1>1. /\ pc \in [Threads -> Point] /\ pc[t].at \in Checks /\ pc[t].at # "idle"
      /\ UNCHANGED <<now, table>>
      /\ Ask(t, pc[t].limiter, Then(t, "user")) \/ Ask(t, pc[t].limiter, NextStrategy(t))
  BY DEF CheckIp, CheckUser, HodorInv, HodorTyped, Checks
<1>2. pc[t].limiter \in 1..Len(limiters) /\ (TimeUnit > 0 => Held(pc[t].limiter))
  BY <1>1 DEF HodorInv, HodorTyped, PointsHold, Windows, AskedIsHeld
<1>3. /\ NextStrategy(t) \in Point /\ NextStrategy(t).at \notin Checks
      /\ \A at \in Points \ {"idle"} : Then(t, at) \in Point /\ Then(t, at).at = at
  BY <1>1, NextPoints
<1>4. "user" \in Points \ {"idle"} /\ "user" \notin Checks
  BY DEF Points, Checks
<1>5. Then(t, "user") \in Point /\ Then(t, "user").at \notin Checks
  BY <1>3, <1>4
<1>6. PICK l : l = pc[t].limiter
  OBVIOUS
<1>7. PICK next \in Point : Ask(t, l, next) /\ next.at \notin Checks
  BY <1>1, <1>3, <1>5, <1>6
<1> QED BY <1>1, <1>2, <1>6, <1>7, AskKeeps

LEMMA BeginKeeps ==
  ASSUME HodorInv, NEW t \in Threads, BeginRequest(t)
  PROVE  HodorInv'
<1>1. PICK q \in Requests :
        pc' = [pc EXCEPT ![t] = [at |-> "global", strategy |-> 1, request |-> q, limiter |-> 0]]
  BY DEF BeginRequest
<1>2. PICK p : p = [at |-> "global", strategy |-> 1, request |-> q, limiter |-> 0]
  OBVIOUS
<1>3. p \in Point /\ p.at \notin Checks
  <2>1. 1 \in 0..Len(Strategies)
    BY HodorAssumption
  <2> QED BY <1>2, <2>1 DEF Point, Points, Checks
<1>4. UNCHANGED <<now, limiters, table, grants>>
  BY DEF BeginRequest
<1> QED BY <1>1, <1>2, <1>3, <1>4, PointKeeps

LEMMA HodorIdles ==
  ASSUME HodorInv, UNCHANGED hodorVars
  PROVE  HodorInv'
<1>1. UNCHANGED <<now, pc, limiters, table, grants>>
  BY DEF hodorVars
<1>2. HodorTyped'
  BY <1>1 DEF HodorInv, HodorTyped, GrantsTyped, TableTyped, SharedStay, PointsHold
<1>3. (\A l : Granted(l)' = Granted(l)) /\ (\A l : Held(l)' = Held(l))
  BY <1>1 DEF Granted, Held
<1>4. Windows => Windows'
  BY <1>1, <1>3 DEF Windows, InWindow, NoneAfter, Apart, Newest, Over, AskedIsHeld
<1> QED BY <1>2, <1>4 DEF HodorInv

LEMMA HodorKeeps == HodorInv /\ [HodorNext]_hodorVars => HodorInv'
<1> SUFFICES ASSUME HodorInv, [HodorNext]_hodorVars PROVE HodorInv'
  OBVIOUS
<1>1. ASSUME NEW t \in Threads,
             \/ BeginRequest(t) \/ CheckGlobal(t) \/ FindIp(t) \/ CheckIp(t)
             \/ FindUser(t) \/ CheckUser(t)
      PROVE  HodorInv'
  BY <1>1, BeginKeeps, CheckGlobalKeeps, FindIpKeeps, CheckKeeps, FindUserKeeps
<1>2. CASE \E key \in DOMAIN table : Expire(key)
  BY <1>2, ExpireKeeps
<1> QED BY <1>1, <1>2, TickKeeps, HodorIdles DEF HodorNext

LEMMA HodorInvIsEnough == HodorInv => WithinCapacity
<1> SUFFICES ASSUME HodorInv, NEW l \in DOMAIN limiters
             PROVE  LET window == limiters[l].start .. (limiters[l].start + TimeUnit - 1)
                    IN  Cardinality({g \in grants : g.key = limiters[l].key /\ g.time \in window})
                          <= limiters[l].capacity
  BY DEF WithinCapacity
<1>1. /\ l \in 1..Len(limiters) /\ limiters \in Seq(Limiter) /\ Len(limiters) \in Nat /\ TimeUnit \in Nat
      /\ \A m \in 1..Len(limiters) : limiters[m] \in Limiter
  BY HodorAssumption DEF HodorInv, HodorTyped
<1>2. \A m \in 1..Len(limiters) : limiters[m].start \in Nat /\ limiters[m].count \in Nat
                                  /\ limiters[m].capacity \in Nat
  BY <1>1 DEF Limiter
<1> DEFINE s == limiters[l].start
           inWindow == {g \in grants : g.key = limiters[l].key /\ g.time \in s .. (s + TimeUnit - 1)}
<1>3. /\ IsFiniteSet(grants)
      /\ \A g \in grants : /\ g.time \in Nat /\ g.limiter \in 1..Len(limiters)
                           /\ g.key = limiters[g.limiter].key
  BY DEF HodorInv, HodorTyped, GrantsTyped
<1>4. CASE TimeUnit = 0
  <2>1. s .. (s + TimeUnit - 1) = {}
    BY <1>1, <1>2, <1>4
  <2>2. inWindow = {}
    BY <2>1
  <2>3. Cardinality(inWindow) = 0
    <3> HIDE DEF inWindow
    <3> QED BY <2>2, FS_EmptySet
  <2> QED BY <1>1, <1>2, <2>3
<1>5. CASE TimeUnit > 0
  <2>1. Windows
    BY <1>5 DEF HodorInv
  <2>2. ASSUME NEW g \in inWindow PROVE g \in Granted(l)
    <3>1. /\ g \in grants /\ g.key = limiters[l].key /\ g.time >= s /\ g.time < s + TimeUnit
      BY <1>1, <1>2, <1>3
    <3>2. g.limiter \in 1..Len(limiters) /\ limiters[g.limiter].key = limiters[l].key /\ g.time \in Nat
      BY <1>3, <3>1
    <3>3. CASE g.limiter < l
      <4>1. limiters[g.limiter].start + TimeUnit <= s
        BY <1>1, <2>1, <3>2, <3>3 DEF Windows, Apart
      <4>2. g.time < limiters[g.limiter].start + TimeUnit
        BY <2>1, <3>1 DEF Windows, NoneAfter
      <4> QED BY <1>1, <1>2, <3>1, <3>2, <4>1, <4>2
    <3>4. CASE l < g.limiter
      <4>1. g.time >= s + TimeUnit
        BY <1>1, <2>1, <3>1, <3>2, <3>4 DEF Windows, Apart
      <4> QED BY <1>1, <1>2, <3>1, <3>2, <4>1
    <3>5. CASE g.limiter = l
      BY <3>1, <3>5 DEF Granted
    <3> QED BY <1>1, <3>2, <3>3, <3>4, <3>5
  <2>3. Granted(l) \in SUBSET grants
    BY DEF Granted
  <2>4. inWindow \in SUBSET Granted(l)
    BY <2>2
  <2> HIDE DEF inWindow, Granted
  <2>5. IsFiniteSet(Granted(l)) /\ Cardinality(Granted(l)) \in Nat
    BY <1>3, <2>3, FS_Subset, FS_CardinalityType
  <2>6. Cardinality(inWindow) <= Cardinality(Granted(l)) /\ Cardinality(inWindow) \in Nat
    BY <2>4, <2>5, FS_Subset, FS_CardinalityType
  <2>7. Cardinality(Granted(l)) <= limiters[l].count /\ limiters[l].count <= limiters[l].capacity
    BY <1>1, <2>1 DEF Windows, InWindow
  <2>8. Cardinality(inWindow) <= limiters[l].capacity
    BY <1>1, <1>2, <2>5, <2>6, <2>7
  <2> QED BY <2>8 DEF inWindow
<1> QED BY <1>1, <1>4, <1>5

\* No key is granted more than its capacity in a window of any limiter it has had, though
\* limiters are dropped and made again while requests of several threads pass.
THEOREM WindowsHold == HodorSpec => []WithinCapacity
<1> QED BY HodorStarts, HodorKeeps, HodorInvIsEnough, PTL DEF HodorSpec
==============================================================================
