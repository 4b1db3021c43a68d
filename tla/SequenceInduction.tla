-------------------------- MODULE SequenceInduction --------------------------
(***************************************************************************)
(* Induction for the proofs of the other modules, stated without operator  *)
(* parameters: over a set of numbers, and for functions defined one        *)
(* argument after the other, which is how the specifications read a        *)
(* sequence from its start.                                                *)
(***************************************************************************)
EXTENDS
  Integers, Sequences, SequencesExt, SequenceTheorems, FiniteSetTheorems, WellFoundedInduction,
  TLAPS

\* Every nonempty set of natural numbers has a least element.
LEMMA LeastNumber ==
  ASSUME NEW S, S \subseteq Nat, S # {}
  PROVE  \E m \in S : \A n \in S : m <= n
<1> DEFINE T == {0..n : n \in S}
<1>1. T \subseteq FiniteSubsetsOf(Nat)
  <2>1. \A n \in S : 0..n \in SUBSET Nat /\ IsFiniteSet(0..n)
    BY FS_Interval
  <2> QED BY <2>1 DEF FiniteSubsetsOf
<1>2. T # {}
  OBVIOUS
<1>3. PICK x \in T : \A y \in T : ~ (<<y, x>> \in StrictSubsetOrdering(Nat))
  BY <1>1, <1>2, FS_StrictSubsetOrderingWellFounded, WFMin
<1>4. PICK m \in S : x = 0..m
  BY <1>3
<1>5. ASSUME NEW n \in S, n < m PROVE FALSE
  <2>1. 0..n \in T /\ 0..n \subseteq 0..m /\ 0..n # 0..m
    BY <1>5, m \in 0..m, m \notin 0..n
  <2>2. <<0..n, x>> \in StrictSubsetOrdering(Nat)
    BY <2>1, <1>4 DEF StrictSubsetOrdering
  <2> QED BY <2>1, <2>2, <1>3
<1> QED BY <1>5

\* A set that holds 0 and, with each number below n, the next, holds all up to n.
LEMMA UpToInduction ==
  ASSUME NEW n \in Nat, NEW S, 0 \in S, \A i \in 0..(n - 1) : i \in S => i + 1 \in S
  PROVE  \A i \in 0..n : i \in S
<1> DEFINE F == {i \in 0..n : i \notin S}
<1> SUFFICES ASSUME F # {} PROVE FALSE
  OBVIOUS
<1>1. PICK m \in F : \A i \in F : m <= i
  BY LeastNumber, F \subseteq Nat
<1>2. m \in 1..n /\ m \notin S
  BY <1>1
<1>3. m - 1 \in 0..(n - 1) /\ m - 1 \notin F
  BY <1>1, <1>2
<1> QED BY <1>2, <1>3

\* f starts from base, and its value at i is made from that at i - 1 by step[i].
Iterates(f, n, S, base, step) ==
  /\ f \in [0..n -> S]
  /\ f[0] = base
  /\ \A i \in 1..n : f[i] = step[i][f[i - 1]]

\* There is such a function.
LEMMA RecursionExists ==
  ASSUME NEW n \in Nat, NEW S, NEW base \in S, NEW step \in [1..n -> [S -> S]]
  PROVE  \E f : Iterates(f, n, S, base, step)
<1> DEFINE Defined(m) == \E f \in [0..m -> S] :
                           f[0] = base /\ \A i \in 1..m : f[i] = step[i][f[i - 1]]
           G == {m \in 0..n : Defined(m)}
<1>1. 0 \in G
  <2> DEFINE f == [i \in 0..0 |-> base]
  <2>1. f \in [0..0 -> S] /\ f[0] = base
    OBVIOUS
  <2>2. \A i \in 1..0 : f[i] = step[i][f[i - 1]]
    OBVIOUS
  <2>3. Defined(0)
    BY <2>1, <2>2
  <2> QED BY <2>3
<1>2. ASSUME NEW m \in 0..(n - 1), m \in G PROVE m + 1 \in G
  <2>1. PICK f \in [0..m -> S] : f[0] = base /\ \A i \in 1..m : f[i] = step[i][f[i - 1]]
    BY <1>2
  <2> DEFINE g == [i \in 0..(m + 1) |-> IF i <= m THEN f[i] ELSE step[m + 1][f[m]]]
  <2>2. step[m + 1][f[m]] \in S
    <3>1. m + 1 \in 1..n /\ f[m] \in S
      BY <1>2, <2>1
    <3> QED BY <3>1
  <2>3. g \in [0..(m + 1) -> S] /\ g[0] = base
    BY <2>1, <2>2
  <2>4. ASSUME NEW i \in 1..(m + 1) PROVE g[i] = step[i][g[i - 1]]
    <3>1. i - 1 \in 0..m /\ g[i - 1] = f[i - 1]
      BY <2>4
    <3>2. CASE i <= m
      BY <2>1, <2>4, <3>1, <3>2
    <3>3. CASE i = m + 1
      BY <3>1, <3>3
    <3> QED BY <2>4, <3>2, <3>3
  <2>5. m + 1 \in 0..n
    BY <1>2
  <2> HIDE DEF g
  <2>6. Defined(m + 1)
    BY <2>3, <2>4
  <2> QED BY <2>5, <2>6
<1>3. \A m \in 0..n : m \in G
  <2> HIDE DEF G
  <2> QED BY <1>1, <1>2, UpToInduction
<1> QED BY <1>3 DEF Iterates

\* Two functions that start alike and go on alike agree.
GoOnAlike(f, g, n) ==
  /\ f[0] = g[0]
  /\ \A i \in 1..n : f[i - 1] = g[i - 1] => f[i] = g[i]

LEMMA RecursionUnique ==
  ASSUME NEW n \in Nat, NEW f, NEW g, GoOnAlike(f, g, n)
  PROVE  \A i \in 0..n : f[i] = g[i]
<1> USE DEF GoOnAlike
<1> DEFINE S == {i \in 0..n : f[i] = g[i]}
<1>1. 0 \in S
  OBVIOUS
<1>2. ASSUME NEW i \in 0..(n - 1), i \in S PROVE i + 1 \in S
  <2>1. i + 1 \in 1..n /\ (i + 1) - 1 = i
    OBVIOUS
  <2>2. f[i + 1] = g[i + 1]
    BY <1>2, <2>1
  <2> QED BY <2>1, <2>2
<1>3. \A i \in 0..n : i \in S
  <2> HIDE DEF S
  <2> QED BY <1>1, <1>2, UpToInduction
<1> QED BY <1>3

-----------------------------------------------------------------------------
(* Sequences of anything. *)

Elements(s) == {s[i] : i \in DOMAIN s}
IsSeq(s) == s \in Seq(Elements(s))

LEMMA SeqIsSeq ==
  ASSUME NEW T, NEW s \in Seq(T)
  PROVE  IsSeq(s)
BY DEF IsSeq, Elements

LEMMA SameSeq ==
  ASSUME NEW s, NEW t, IsSeq(s), IsSeq(t), Len(s) = Len(t),
         \A i \in 1..Len(s) : s[i] = t[i]
  PROVE  s = t
BY DEF IsSeq

LEMMA ComprehensionIs ==
  ASSUME NEW n \in Nat, NEW f
  PROVE  LET s == [i \in 1..n |-> f[i]]
         IN  IsSeq(s) /\ Len(s) = n /\ \A i \in 1..n : s[i] = f[i]
BY DEF IsSeq, Elements

LEMMA ConcatIs ==
  ASSUME NEW s, NEW t, IsSeq(s), IsSeq(t)
  PROVE  /\ IsSeq(s \o t)
         /\ Len(s) \in Nat /\ Len(t) \in Nat /\ Len(s \o t) = Len(s) + Len(t)
         /\ \A i \in 1..Len(s) : (s \o t)[i] = s[i]
         /\ \A i \in 1..Len(t) : (s \o t)[Len(s) + i] = t[i]
<1> DEFINE T == Elements(s) \cup Elements(t)
<1>1. s \in Seq(T) /\ t \in Seq(T)
  BY DEF IsSeq
<1> HIDE DEF T
<1>2. s \o t \in Seq(T)
  BY <1>1
<1>3. IsSeq(s \o t)
  BY <1>2, SeqIsSeq
<1> QED BY <1>1, <1>3

LEMMA AppendIs ==
  ASSUME NEW s, NEW e, IsSeq(s)
  PROVE  /\ IsSeq(Append(s, e))
         /\ Len(s) \in Nat /\ Len(Append(s, e)) = Len(s) + 1
         /\ Append(s, e)[Len(s) + 1] = e
         /\ \A i \in 1..Len(s) : Append(s, e)[i] = s[i]
<1> DEFINE T == Elements(s) \cup {e}
<1>1. s \in Seq(T) /\ e \in T
  BY DEF IsSeq
<1> HIDE DEF T
<1>2. Append(s, e) \in Seq(T)
  BY <1>1
<1>3. IsSeq(Append(s, e))
  BY <1>2, SeqIsSeq
<1> QED BY <1>1, <1>3

-----------------------------------------------------------------------------
(* Sequences of sequences. *)

\* The first of them joined, one more each time
Joined(seqs) ==
  LET upTo[k \in 0..Len(seqs)] == IF k = 0 THEN <<>> ELSE upTo[k - 1] \o seqs[k]
  IN  upTo

Joins(f, seqs, T) ==
  /\ f \in [0..Len(seqs) -> Seq(T)]
  /\ f[0] = <<>>
  /\ \A k \in 1..Len(seqs) : f[k] = f[k - 1] \o seqs[k]

LEMMA JoinedJoins ==
  ASSUME NEW T, NEW seqs \in Seq(Seq(T))
  PROVE  Joins(Joined(seqs), seqs, T)
<1> DEFINE n == Len(seqs)
           step == [k \in 1..n |-> [x \in Seq(T) |-> x \o seqs[k]]]
           Next(g) == [k \in 0..n |-> IF k = 0 THEN <<>> ELSE g[k - 1] \o seqs[k]]
           F == Joined(seqs)
<1>1. n \in Nat /\ \A k \in 1..n : seqs[k] \in Seq(T)
  OBVIOUS
<1>2. step \in [1..n -> [Seq(T) -> Seq(T)]]
  BY <1>1
<1>3. <<>> \in Seq(T)
  OBVIOUS
<1>4. PICK f : Iterates(f, n, Seq(T), <<>>, step)
  <2> HIDE DEF step, n
  <2> QED BY <1>1, <1>2, <1>3, RecursionExists
<1>5. f \in [0..n -> Seq(T)] /\ f[0] = <<>>
  BY <1>4 DEF Iterates
<1>6. \A k \in 1..n : f[k] = f[k - 1] \o seqs[k]
  <2> SUFFICES ASSUME NEW k \in 1..n PROVE f[k] = f[k - 1] \o seqs[k]
    OBVIOUS
  <2>1. k - 1 \in 0..n
    BY <1>1
  <2>2. f[k - 1] \in Seq(T) /\ f[k] = step[k][f[k - 1]]
    BY <1>4, <2>1 DEF Iterates
  <2> QED BY <2>2
<1>7. f = Next(f)
  <2>1. \A k \in 0..n : k = 0 \/ k \in 1..n
    BY <1>1
  <2>2. \A k \in 0..n : f[k] = Next(f)[k]
    BY <1>5, <1>6, <2>1
  <2>3. [k \in 0..n |-> f[k]] = [k \in 0..n |-> Next(f)[k]]
    BY <2>2, Zenon
  <2> QED BY <1>5, <2>3
<1>8. F = CHOOSE g : g = Next(g)
  BY DEF Joined
<1>9. F = Next(F)
  <2> HIDE DEF F
  <2> QED BY <1>7, <1>8
<1> HIDE DEF F
<1>10. F[0] = <<>> /\ \A k \in 1..n : F[k] = F[k - 1] \o seqs[k]
  <2>1. \A k \in 0..n : F[k] = Next(F)[k]
    BY <1>9
  <2>2. 0 \in 0..n /\ \A k \in 1..n : k \in 0..n /\ k # 0
    BY <1>1
  <2> QED BY <2>1, <2>2
<1>11. \A k \in 0..n : F[k] = f[k]
  <2>1. GoOnAlike(F, f, n)
    BY <1>5, <1>6, <1>10 DEF GoOnAlike
  <2> HIDE DEF n
  <2> QED BY <1>1, <2>1, RecursionUnique
<1>12. F \in [0..n -> Seq(T)]
  <2>1. F = [k \in 0..n |-> F[k]]
    BY <1>9
  <2> QED BY <1>5, <1>11, <2>1
<1> QED BY <1>10, <1>12 DEF F, Joins

LEMMA FlattenIsJoined ==
  ASSUME NEW T, NEW seqs \in Seq(Seq(T))
  PROVE  FlattenSeq(seqs) = Joined(seqs)[Len(seqs)]
<1> DEFINE n == Len(seqs)
           F == Joined(seqs)
           Next(g) == [k \in 1..n |-> IF k = 1 THEN seqs[k] ELSE g[k - 1] \o seqs[k]]
           V == [k \in 1..n |-> F[k]]
           G == CHOOSE g : g = Next(g)
<1>1. n \in Nat /\ \A k \in 1..n : seqs[k] \in Seq(T)
  OBVIOUS
<1>2. /\ F \in [0..n -> Seq(T)] /\ F[0] = <<>>
      /\ \A k \in 1..n : F[k] = F[k - 1] \o seqs[k]
  BY JoinedJoins DEF Joins
<1> HIDE DEF F
<1>3. CASE n = 0
  BY <1>1, <1>2, <1>3, EmptySeq DEF FlattenSeq, F
<1>4. CASE n # 0
  <2>1. F[1] = seqs[1] /\ 1 \in 1..n
    <3>1. 1 \in 1..n
      BY <1>1, <1>4
    <3>2. F[1] = <<>> \o seqs[1]
      BY <1>2, <3>1, 1 - 1 = 0
    <3> QED BY <1>1, <3>1, <3>2, ConcatEmptySeq
  <2>2. \A k \in 2..n : k - 1 \in 1..n /\ k \in 1..n
    BY <1>1
  <2>3. V = Next(V)
    <3>1. \A k \in 1..n : k = 1 \/ k \in 2..n
      BY <1>1
    <3>2. \A k \in 1..n : V[k] = Next(V)[k]
      BY <1>2, <2>1, <2>2, <3>1
    <3>3. [k \in 1..n |-> V[k]] = [k \in 1..n |-> Next(V)[k]]
      BY <3>2, Zenon
    <3> QED BY <3>3
  <2>4. G = Next(G)
    <3> HIDE DEF V
    <3> QED BY <2>3
  <2>5. FlattenSeq(seqs) = G[n]
    BY <1>4 DEF FlattenSeq
  <2> HIDE DEF G
  <2>6. G[1] = F[1] /\ \A k \in 2..n : G[k] = G[k - 1] \o seqs[k]
    <3>1. \A k \in 1..n : G[k] = Next(G)[k]
      BY <2>4
    <3>2. \A k \in 2..n : k # 1
      OBVIOUS
    <3> QED BY <2>1, <2>2, <3>1, <3>2
  <2> DEFINE g == [k \in 0..(n - 1) |-> G[k + 1]]
             h == [k \in 0..(n - 1) |-> F[k + 1]]
  <2>7. g[0] = h[0]
    <3>1. 0 \in 0..(n - 1) /\ 0 + 1 = 1
      BY <1>1, <1>4
    <3> QED BY <3>1, <2>6
  <2>8. ASSUME NEW k \in 1..(n - 1), g[k - 1] = h[k - 1] PROVE g[k] = h[k]
    <3>1. /\ k - 1 \in 0..(n - 1) /\ (k - 1) + 1 = k /\ k \in 0..(n - 1)
          /\ k + 1 \in 2..n /\ (k + 1) - 1 = k /\ k + 1 \in 1..n
      BY <1>1
    <3>2. G[k] = F[k]
      BY <2>8, <3>1
    <3>3. G[k + 1] = G[k] \o seqs[k + 1] /\ F[k + 1] = F[k] \o seqs[k + 1]
      BY <1>2, <2>6, <3>1
    <3> QED BY <3>1, <3>2, <3>3
  <2>9. g[n - 1] = h[n - 1]
    <3> HIDE DEF g, h
    <3>1. GoOnAlike(g, h, n - 1)
      BY <2>7, <2>8 DEF GoOnAlike
    <3>2. n - 1 \in Nat /\ n - 1 \in 0..(n - 1)
      BY <1>1, <1>4
    <3> QED BY <3>1, <3>2, RecursionUnique
  <2>10. n - 1 \in 0..(n - 1) /\ (n - 1) + 1 = n
    BY <1>1, <1>4
  <2> QED BY <2>5, <2>9, <2>10 DEF F
<1> QED BY <1>3, <1>4

\* After each of them, the others joined
Remainders(R, seqs, T) ==
  /\ R \in [0..Len(seqs) -> Seq(T)]
  /\ R[Len(seqs)] = <<>>
  /\ \A k \in 1..Len(seqs) : R[k - 1] = seqs[k] \o R[k]
  /\ R[0] = FlattenSeq(seqs)

LEMMA RemaindersExist ==
  ASSUME NEW T, NEW seqs \in Seq(Seq(T))
  PROVE  \E R : Remainders(R, seqs, T)
<1> DEFINE N == Len(seqs)
           U == Seq(T)
           step == [j \in 1..N |-> [x \in U |-> seqs[N - j + 1] \o x]]
<1>1. N \in Nat /\ \A k \in 1..N : seqs[k] \in U
  OBVIOUS
<1> HIDE DEF N
<1>2. step \in [1..N -> [U -> U]]
  <2>1. \A j \in 1..N, x \in U : seqs[N - j + 1] \o x \in U
    <3> SUFFICES ASSUME NEW j \in 1..N, NEW x \in U PROVE seqs[N - j + 1] \o x \in U
      OBVIOUS
    <3>1. N - j + 1 \in 1..N
      BY <1>1
    <3>2. seqs[N - j + 1] \in U
      BY <1>1, <3>1
    <3> QED BY <3>2
  <2> QED BY <2>1
<1>3. <<>> \in U
  OBVIOUS
<1>4. PICK f : Iterates(f, N, U, <<>>, step)
  <2> HIDE DEF step, U
  <2> QED BY <1>1, <1>2, <1>3, RecursionExists
<1>5. f \in [0..N -> U] /\ f[0] = <<>> /\ \A j \in 1..N : f[j] = seqs[N - j + 1] \o f[j - 1]
  <2>1. ASSUME NEW j \in 1..N PROVE f[j] = seqs[N - j + 1] \o f[j - 1]
    <3>1. j - 1 \in 0..N
      BY <1>1
    <3>2. f[j - 1] \in U
      BY <1>4, <3>1 DEF Iterates
    <3>3. f[j] = step[j][f[j - 1]]
      BY <1>4 DEF Iterates
    <3> QED BY <3>2, <3>3
  <2> QED BY <1>4, <2>1 DEF Iterates
<1> HIDE DEF step
<1> DEFINE R == [k \in 0..N |-> f[N - k]]
           J == Joined(seqs)
           S == {k \in 0..N : J[k] \o R[k] = R[0]}
<1>6. /\ R \in [0..N -> U] /\ R[N] = <<>>
      /\ \A k \in 1..N : R[k - 1] = seqs[k] \o R[k]
  <2>1. \A k \in 0..N : N - k \in 0..N
    BY <1>1
  <2>2. R \in [0..N -> U]
    BY <1>5, <2>1
  <2>3. R[N] = <<>>
    BY <1>1, <1>5, N - N = 0, N \in 0..N
  <2>4. ASSUME NEW k \in 1..N PROVE R[k - 1] = seqs[k] \o R[k]
    <3> DEFINE j == N - k + 1
    <3>1. j \in 1..N /\ N - j + 1 = k /\ j - 1 = N - k /\ k - 1 \in 0..N /\ N - (k - 1) = j /\ k \in 0..N
      BY <1>1
    <3> HIDE DEF j
    <3>2. f[j] = seqs[k] \o f[N - k]
      BY <1>5, <3>1
    <3> QED BY <1>1, <3>1, <3>2
  <2> QED BY <2>2, <2>3, <2>4
<1>7. /\ J \in [0..N -> U] /\ J[0] = <<>>
      /\ \A k \in 1..N : J[k] = J[k - 1] \o seqs[k]
  BY JoinedJoins DEF Joins, N
<1> HIDE DEF R, J
<1>8. 0 \in S
  <2>1. 0 \in 0..N /\ R[0] \in U
    BY <1>1, <1>6
  <2> QED BY <1>7, <2>1, ConcatEmptySeq
<1>9. ASSUME NEW i \in 0..(N - 1), i \in S PROVE i + 1 \in S
  <2>1. i + 1 \in 1..N /\ (i + 1) - 1 = i /\ i + 1 \in 0..N /\ i \in 0..N
    BY <1>1
  <2>2. J[i + 1] = J[i] \o seqs[i + 1] /\ R[i] = seqs[i + 1] \o R[i + 1]
    BY <1>6, <1>7, <2>1
  <2>3. J[i] \in Seq(T) /\ seqs[i + 1] \in Seq(T) /\ R[i + 1] \in Seq(T)
    BY <1>1, <1>6, <1>7, <2>1
  <2>4. (J[i] \o seqs[i + 1]) \o R[i + 1] = J[i] \o (seqs[i + 1] \o R[i + 1])
    <3>1. \A x, y, z \in Seq(T) : (x \o y) \o z = x \o (y \o z)
      BY ConcatAssociative
    <3> QED BY <2>3, <3>1
  <2>5. J[i] \o R[i] = R[0]
    BY <1>9
  <2> QED BY <2>1, <2>2, <2>4, <2>5
<1>10. N \in S
  <2> HIDE DEF S
  <2>1. \A i \in 0..N : i \in S
    BY <1>1, <1>8, <1>9, UpToInduction
  <2> QED BY <1>1, <2>1
<1>11. R[0] = FlattenSeq(seqs)
  <2>1. J[N] \in Seq(T)
    BY <1>1, <1>7
  <2>2. J[N] \o <<>> = J[N] /\ J[N] \o R[N] = R[0]
    BY <1>10, <2>1, ConcatEmptySeq
  <2>3. FlattenSeq(seqs) = J[N]
    BY FlattenIsJoined DEF J, N
  <2> QED BY <1>6, <2>2, <2>3
<1> QED BY <1>6, <1>11 DEF Remainders, N

\* Where each of them is in what they make together
Offsets(off, seqs, text) ==
  /\ off \in [0..Len(seqs) -> 0..Len(text)]
  /\ off[0] = 0 /\ off[Len(seqs)] = Len(text)
  /\ \A k \in 1..Len(seqs) :
       /\ off[k] = off[k - 1] + Len(seqs[k])
       /\ \A i \in 1..Len(seqs[k]) : text[off[k - 1] + i] = seqs[k][i]

LEMMA OffsetsExist ==
  ASSUME NEW T, NEW seqs \in Seq(Seq(T))
  PROVE  FlattenSeq(seqs) \in Seq(T) /\ \E off : Offsets(off, seqs, FlattenSeq(seqs))
<1> DEFINE n == Len(seqs)
           J == Joined(seqs)
           off == [k \in 0..n |-> Len(J[k])]
           w == [k \in 1..n |-> Len(seqs[k])]
<1>1. n \in Nat /\ \A k \in 1..n : seqs[k] \in Seq(T)
  OBVIOUS
<1>2. /\ J \in [0..n -> Seq(T)] /\ J[0] = << >>
      /\ \A k \in 1..n : J[k] = J[k - 1] \o seqs[k]
  BY JoinedJoins DEF Joins
<1>3. FlattenSeq(seqs) = J[n]
  BY FlattenIsJoined
<1> HIDE DEF J, n
<1>4. \A k \in 0..n : J[k] \in Seq(T) /\ IsSeq(J[k]) /\ Len(J[k]) \in Nat
  <2>1. \A k \in 0..n : J[k] \in Seq(T)
    BY <1>2
  <2> QED BY <2>1, SeqIsSeq
<1>5. off \in [0..n -> Nat] /\ w \in [1..n -> Nat] /\ off[0] = 0
  <2>1. \A k \in 1..n : Len(seqs[k]) \in Nat
    BY <1>1
  <2>2. 0 \in 0..n
    BY <1>1
  <2> QED BY <1>2, <1>4, <2>1, <2>2
<1>6. ASSUME NEW k \in 1..n
      PROVE  /\ k - 1 \in 0..n /\ k \in 0..n
             /\ off[k] = off[k - 1] + w[k]
             /\ \A i \in 1..off[k - 1] : J[k][i] = J[k - 1][i]
             /\ \A i \in 1..w[k] : J[k][off[k - 1] + i] = seqs[k][i]
  <2>1. k - 1 \in 0..n /\ k \in 0..n
    BY <1>1
  <2>2. IsSeq(J[k - 1]) /\ IsSeq(seqs[k]) /\ J[k] = J[k - 1] \o seqs[k]
    BY <1>1, <1>2, <1>4, <2>1, SeqIsSeq
  <2>3. off[k] = Len(J[k]) /\ off[k - 1] = Len(J[k - 1]) /\ w[k] = Len(seqs[k])
    BY <2>1
  <2> HIDE DEF off, w
  <2>5. /\ Len(J[k]) = Len(J[k - 1]) + Len(seqs[k])
        /\ \A i \in 1..Len(J[k - 1]) : J[k][i] = J[k - 1][i]
        /\ \A i \in 1..Len(seqs[k]) : J[k][Len(J[k - 1]) + i] = seqs[k][i]
    <3> DEFINE x == J[k - 1]
               y == seqs[k]
    <3>1. IsSeq(x) /\ IsSeq(y) /\ J[k] = x \o y
      BY <2>2
    <3> HIDE DEF x, y
    <3>2. /\ Len(J[k]) = Len(x) + Len(y)
          /\ \A i \in 1..Len(x) : J[k][i] = x[i]
          /\ \A i \in 1..Len(y) : J[k][Len(x) + i] = y[i]
      BY <3>1, ConcatIs
    <3> QED BY <3>2 DEF x, y
  <2> QED BY <2>1, <2>3, <2>5, Zenon
<1>7. off[n] = Len(J[n])
  BY <1>1
<1> HIDE DEF off, w
<1> DEFINE G == {m \in 0..n : \A k \in 0..m : /\ off[k] <= off[m]
                                             /\ \A i \in 1..off[k] : J[m][i] = J[k][i]}
<1>8. \A m \in 0..n : m \in G
  <2>1. 0 \in G
    <3>1. 0 \in 0..n
      BY <1>1
    <3> QED BY <1>5, <3>1
  <2>2. ASSUME NEW m \in 0..(n - 1), m \in G PROVE m + 1 \in G
    <3>1. m + 1 \in 1..n /\ (m + 1) - 1 = m /\ m + 1 \in 0..n /\ m \in 0..n
      BY <1>1
    <3>2. /\ off[m + 1] = off[m] + w[m + 1]
          /\ \A i \in 1..off[m] : J[m + 1][i] = J[m][i]
      <4> DEFINE k == m + 1
      <4>1. k \in 1..n /\ k - 1 = m
        BY <3>1
      <4> HIDE DEF k
      <4>2. off[k] = off[m] + w[k] /\ \A i \in 1..off[m] : J[k][i] = J[m][i]
        BY <1>6, <4>1
      <4> QED BY <4>2 DEF k
    <3>3. w[m + 1] \in Nat /\ off[m] \in Nat /\ off[m + 1] \in Nat
      BY <1>5, <3>1
    <3>4. ASSUME NEW k \in 0..(m + 1)
          PROVE  off[k] <= off[m + 1] /\ \A i \in 1..off[k] : J[m + 1][i] = J[k][i]
      <4>1. CASE k = m + 1
        BY <3>3, <4>1
      <4>2. CASE k \in 0..m
        <5>1. off[k] <= off[m] /\ \A i \in 1..off[k] : J[m][i] = J[k][i]
          BY <2>2, <4>2
        <5>2. off[k] \in Nat
          <6>1. k \in 0..n
            BY <1>1, <3>1, <4>2
          <6> QED BY <1>5, <6>1
        <5> QED BY <3>2, <3>3, <5>1, <5>2
      <4> QED BY <3>1, <3>4, <4>1, <4>2
    <3> QED BY <3>1, <3>4
  <2> HIDE DEF G
  <2> QED BY <1>1, <2>1, <2>2, UpToInduction
<1>9. \A k \in 0..n : off[k] <= off[n] /\ \A i \in 1..off[k] : J[n][i] = J[k][i]
  <2>1. n \in G
    BY <1>1, <1>8
  <2> QED BY <2>1
<1> HIDE DEF G
<1>10. off \in [0..n -> 0..Len(J[n])]
  <2>1. \A k \in 0..n : off[k] \in 0..off[n]
    <3>1. n \in 0..n
      BY <1>1
    <3> QED BY <1>5, <1>9, <3>1
  <2> QED BY <1>5, <1>7, <2>1
<1>11. ASSUME NEW k \in 1..n
       PROVE  /\ off[k] = off[k - 1] + Len(seqs[k])
              /\ \A i \in 1..Len(seqs[k]) : J[n][off[k - 1] + i] = seqs[k][i]
  <2>1. w[k] = Len(seqs[k])
    BY DEF w
  <2>2. off[k] = off[k - 1] + w[k] /\ off[k] \in Nat /\ off[k - 1] \in Nat /\ w[k] \in Nat
    BY <1>5, <1>6
  <2>3. ASSUME NEW i \in 1..w[k] PROVE J[n][off[k - 1] + i] = seqs[k][i]
    <3>1. off[k - 1] + i \in 1..off[k]
      BY <2>2
    <3>2. J[n][off[k - 1] + i] = J[k][off[k - 1] + i]
      BY <1>6, <1>9, <3>1, Zenon
    <3> QED BY <1>6, <3>2, Zenon
  <2> QED BY <2>1, <2>2, <2>3, Zenon
<1>12. Offsets(off, seqs, J[n])
  BY <1>5, <1>7, <1>10, <1>11, Zenon DEF Offsets, n
<1>13. J[n] \in Seq(T)
  BY <1>1, <1>4
<1> QED BY <1>3, <1>12, <1>13

\* One more in front
LEMMA OneBefore ==
  ASSUME NEW e, NEW T, NEW p \in Seq(T)
  PROVE  /\ Len(p) \in Nat /\ Len(<<e>> \o p) = 1 + Len(p)
         /\ (<<e>> \o p)[1] = e
         /\ \A i \in 1..Len(p) : (<<e>> \o p)[1 + i] = p[i]
<1>1. IsSeq(p) /\ IsSeq(<<e>>) /\ Len(<<e>>) = 1 /\ <<e>>[1] = e /\ 1 \in 1..1
  <2>1. <<e>> \in Seq({e})
    OBVIOUS
  <2>2. IsSeq(p) /\ IsSeq(<<e>>)
    BY <2>1, SeqIsSeq
  <2> QED BY <2>2
<1> QED BY <1>1, ConcatIs

-----------------------------------------------------------------------------
(* What is cut in two ways. *)

CutTwice(b, s, e, r, T) ==
  b \in Seq(T) /\ s \in Seq(T) /\ e \in Seq(T) /\ r \in Seq(T) /\ b \o s = e \o r

\* What is cut in two ways is the same up to the first cut, and again from the second.
LEMMA DropFirst ==
  ASSUME NEW T, NEW b, NEW s, NEW e, NEW r, CutTwice(b, s, e, r, T)
  PROVE  /\ Len(b) + Len(s) = Len(e) + Len(r)
         /\ \A i \in 1..Len(b) : i <= Len(e) => b[i] = e[i]
         /\ Len(b) >= Len(e) => /\ SubSeq(b, Len(e) + 1, Len(b)) \in Seq(T)
                                /\ SubSeq(b, Len(e) + 1, Len(b)) \o s = r
<1> USE DEF CutTwice
<1>1. /\ Len(b) \in Nat /\ Len(s) \in Nat /\ Len(e) \in Nat /\ Len(r) \in Nat
      /\ Len(b \o s) = Len(b) + Len(s) /\ Len(e \o r) = Len(e) + Len(r)
      /\ \A i \in 1..(Len(b) + Len(s)) : (b \o s)[i] = IF i <= Len(b) THEN b[i] ELSE s[i - Len(b)]
      /\ \A i \in 1..(Len(e) + Len(r)) : (e \o r)[i] = IF i <= Len(e) THEN e[i] ELSE r[i - Len(e)]
  BY ConcatProperties
<1>2. Len(b) + Len(s) = Len(e) + Len(r)
  BY <1>1
<1>3. ASSUME NEW i \in 1..Len(b), i <= Len(e) PROVE b[i] = e[i]
  BY <1>1, <1>3
<1>4. ASSUME Len(b) >= Len(e)
      PROVE  /\ SubSeq(b, Len(e) + 1, Len(b)) \in Seq(T)
             /\ SubSeq(b, Len(e) + 1, Len(b)) \o s = r
  <2> DEFINE c == SubSeq(b, Len(e) + 1, Len(b))
             m == Len(e) + 1
  <2>1. \A i \in m..Len(b) : b[i] \in T
    BY <1>1
  <2>2. /\ c \in Seq(T)
        /\ Len(c) = IF m <= Len(b) THEN Len(b) - m + 1 ELSE 0
        /\ \A i \in 1..(Len(b) - m + 1) : c[i] = b[m + i - 1]
    BY <1>1, <2>1, SubSeqProperties
  <2>3. Len(c) = Len(b) - Len(e) /\ \A i \in 1..(Len(b) - Len(e)) : c[i] = b[Len(e) + i]
    <3>1. Len(b) - m + 1 = Len(b) - Len(e) /\ \A i \in Int : m + i - 1 = Len(e) + i
      BY <1>1
    <3> QED BY <1>1, <1>4, <2>2, <3>1
  <2> HIDE DEF c, m
  <2>4. /\ c \o s \in Seq(T) /\ Len(c \o s) = Len(c) + Len(s)
        /\ \A i \in 1..(Len(c) + Len(s)) : (c \o s)[i] = IF i <= Len(c) THEN c[i] ELSE s[i - Len(c)]
    BY <2>2, ConcatProperties
  <2>5. Len(c \o s) = Len(r)
    BY <1>1, <1>2, <2>3, <2>4
  <2>6. ASSUME NEW i \in 1..Len(r) PROVE (c \o s)[i] = r[i]
    <3>1. Len(e) + i \in 1..(Len(e) + Len(r)) /\ ~ (Len(e) + i <= Len(e)) /\ (Len(e) + i) - Len(e) = i
      BY <1>1
    <3>2. (b \o s)[Len(e) + i] = r[i]
      BY <1>1, <3>1
    <3>3. CASE i <= Len(c)
      <4>1. i \in 1..(Len(b) - Len(e)) /\ Len(e) + i <= Len(b) /\ Len(e) + i \in 1..(Len(b) + Len(s))
        BY <1>1, <2>3, <3>3
      <4>2. (b \o s)[Len(e) + i] = b[Len(e) + i]
        BY <1>1, <4>1
      <4>3. (c \o s)[i] = c[i]
        BY <1>1, <2>3, <2>4, <3>3, <4>1
      <4> QED BY <2>3, <3>2, <4>1, <4>2, <4>3
    <3>4. CASE i > Len(c)
      <4>1. /\ ~ (Len(e) + i <= Len(b)) /\ Len(e) + i \in 1..(Len(b) + Len(s))
            /\ (Len(e) + i) - Len(b) = i - Len(c) /\ i \in 1..(Len(c) + Len(s)) /\ ~ (i <= Len(c))
        BY <1>1, <1>2, <2>3, <3>4
      <4>2. (b \o s)[Len(e) + i] = s[i - Len(c)]
        BY <1>1, <4>1
      <4>3. (c \o s)[i] = s[i - Len(c)]
        BY <2>4, <4>1
      <4> QED BY <3>2, <4>2, <4>3
    <3> QED BY <1>1, <2>3, <3>3, <3>4
  <2>7. c \o s = r
    BY <2>4, <2>5, <2>6, SeqEqual
  <2> QED BY <2>2, <2>7 DEF c
<1> QED BY <1>2, <1>3, <1>4
=============================================================================
