----------------------- MODULE ControllersRouter_proofs -----------------------
(***************************************************************************)
(* Proof that every request reaches what the registrations mean for it,    *)
(* for any registrations, requests, classes and filters: its handler, its  *)
(* arguments, the answer to its preflight, its entry in the list.          *)
(*                                                                         *)
(* The tables of the router are what the history of registrations says     *)
(* they are: an exact path has an item with the last registration of each  *)
(* method, as long as no class of it has turned out to be missing, and a   *)
(* pattern has one item, in the order in which the patterns were first     *)
(* registered.  init has been at every binder a request can reach.         *)
(***************************************************************************)
EXTENDS ControllersRouter, SequenceInduction, FiniteSetTheorems, TLAPS

-----------------------------------------------------------------------------
(* The inductive invariant.                                                *)

\* Of some registrations of h, those with method m, and the last of them.
WithIn(h, regs, m) == {i \in regs : m \in Bound(h[i])}
LastIn(h, regs, m) == IF WithIn(h, regs, m) = {} THEN Null ELSE Max(WithIn(h, regs, m))

\* The binders of an item with these registrations.
LatestOf(h, regs) == [m \in Methods |-> LastIn(h, regs, m)]

Numbers == 1..Len(history)
Pending == {loopQueue[j] : j \in 1..Len(loopQueue)}
ByClass == {i \in Numbers : history[i].kind \in {"simple", "ws", "wsRegex"}}

\* A binder is that of its registration, as far as nothing later sets it.
BinderFields ==
  {"handler", "path", "kind", "filterNames", "filters", "isCORS", "corsMethods", "controller",
   "places", "queryPlaces", "types"}
AsRegistered(b, reg) ==
  /\ DOMAIN b = BinderFields
  /\ b.handler = reg.handler /\ b.kind = reg.kind /\ b.types = reg.types
  /\ b.path = Lowered(Literals(reg.pattern))
  /\ b.filterNames = reg.filters
  /\ b.isCORS = ("options" \in Bound(reg))
  /\ b.places = Binder(reg).places
  /\ b.queryPlaces = Binder(reg).queryPlaces

Recorded ==
  /\ IsSeq(history) /\ IsSeq(binders) /\ Len(binders) = Len(history)
  /\ \A i \in Numbers :
       /\ history[i] \in Registrations
       /\ AsRegistered(binders[i], history[i])
       /\ history[i].kind = "path" => ~PlacesBad(history[i])

\* A closure waits once, and all of them until the loop runs.
Queued ==
  /\ IsSeq(loopQueue)
  /\ Pending \subseteq ByClass
  /\ \A j, k \in 1..Len(loopQueue) : loopQueue[j] = loopQueue[k] => j = k
  /\ routing = "registering" => ByClass \subseteq Pending

\* The paths of a kind are those registered, but the ones a missing class has taken away.
HistoryPaths == {Lowered(Literals(history[i].pattern)) : i \in Numbers}
Found(i) == history[i].handler \in Classes \/ i \in Pending
Tabled(map, kind) ==
  /\ DOMAIN map = {p \in HistoryPaths : Exact(kind, p) # {} /\ \A i \in Exact(kind, p) : Found(i)}
  /\ \A p \in DOMAIN map : map[p] = LatestOf(history, Exact(kind, p))

RouterItems(item) ==
  DOMAIN item = {"pattern", "grouped", "binders"}

PathTable ==
  /\ DOMAIN ctrlMap = {p \in HistoryPaths : Exact("path", p) # {}}
  /\ \A p \in DOMAIN ctrlMap :
       RouterItems(ctrlMap[p]) /\ ctrlMap[p].binders = LatestOf(history, Exact("path", p))

\* The registrations with the pattern of an item.
OfPattern(g) == {i \in Patterned : Grouped(history[i].pattern) = g}

\* One item for each pattern, in the order in which the patterns were first registered.
PatternTable ==
  /\ IsSeq(ctrlVector)
  /\ \A i \in Patterned :
       \E k \in 1..Len(ctrlVector) : ctrlVector[k].grouped = Grouped(history[i].pattern)
  /\ \A k \in 1..Len(ctrlVector) :
       /\ RouterItems(ctrlVector[k])
       /\ OfPattern(ctrlVector[k].grouped) # {}
       /\ ctrlVector[k].binders = LatestOf(history, OfPattern(ctrlVector[k].grouped))
  /\ \A k, l \in 1..Len(ctrlVector) :
       k < l => \A j \in OfPattern(ctrlVector[l].grouped) :
                  \E i \in OfPattern(ctrlVector[k].grouped) : i < j
  /\ \A k, l \in 1..Len(ctrlVector) : ctrlVector[k].grouped = ctrlVector[l].grouped => k = l

WsPatternTable ==
  /\ IsSeq(wsCtrlVector)
  /\ \A k \in 1..Len(wsCtrlVector) : \A m \in Methods :
       LET b == wsCtrlVector[k].binders[m]
       IN  b # Null => b \in Numbers /\ history[b].kind = "wsRegex"

\* init has been at every binder a request can reach.
Initialised ==
  routing = "running" =>
    \A bs \in Visited : \A b \in BoundIn(bs) :
      binders[b].filters # Null /\ binders[b].corsMethods = CorsMethods(bs)

RouterInv ==
  /\ Recorded /\ Queued
  /\ Tabled(simpleCtrlMap, "simple") /\ Tabled(wsCtrlMap, "ws")
  /\ PathTable /\ PatternTable /\ WsPatternTable
  /\ Initialised

-----------------------------------------------------------------------------
(* The greatest and the least of some numbers, and the last registration.  *)

LEMMA Reversed ==
  ASSUME NEW n \in Nat, NEW a \in Nat, NEW b \in Nat, n - a <= n - b
  PROVE  a >= b
OBVIOUS

LEMMA MaxIsThere ==
  ASSUME NEW n \in Nat, NEW S, S \subseteq 0..n, S # {}
  PROVE  Max(S) \in S /\ \A x \in S : Max(S) >= x
<1> DEFINE T == {n - x : x \in S}
<1>0. \A x \in S : x \in Nat /\ n - x \in Nat
  OBVIOUS
<1>1. T \subseteq Nat /\ T # {}
  <2>1. \A t \in T : t \in Nat
    BY <1>0
  <2>2. PICK x \in S : n - x \in T
    OBVIOUS
  <2> HIDE DEF T
  <2> QED BY <2>1, <2>2
<1>2. PICK t \in T : \A u \in T : t <= u
  <2> HIDE DEF T
  <2> QED BY <1>1, LeastNumber
<1>3. PICK x \in S : t = n - x
  OBVIOUS
<1>4. ASSUME NEW y \in S PROVE x >= y
  <2>1. n - y \in T /\ x \in Nat /\ y \in Nat
    BY <1>0, <1>3
  <2>2. n - x <= n - y
    BY <1>2, <1>3, <2>1
  <2> QED BY <2>1, <2>2, Reversed
<1> QED BY <1>4 DEF Max

LEMMA MinIsThere ==
  ASSUME NEW S, S \subseteq Nat, S # {}
  PROVE  Min(S) \in S /\ \A x \in S : Min(S) <= x
<1>1. \E x \in S : \A y \in S : x <= y
  BY LeastNumber
<1> QED BY <1>1 DEF Min

LEMMA LatestIsLast ==
  ASSUME NEW regs, NEW m
  PROVE  /\ WithMethod(regs, m) = WithIn(history, regs, m)
         /\ Latest(regs, m) = LastIn(history, regs, m)
BY DEF WithMethod, WithIn, Latest, LastIn

LEMMA LastIsOne ==
  ASSUME NEW h, NEW n \in Nat, NEW regs, regs \subseteq 1..n, NEW m
  PROVE  /\ LastIn(h, regs, m) # Null => /\ LastIn(h, regs, m) \in WithIn(h, regs, m)
                                         /\ LastIn(h, regs, m) \in regs
         /\ LastIn(h, regs, m) = Null <=> WithIn(h, regs, m) = {}
<1>1. WithIn(h, regs, m) \subseteq 0..n /\ WithIn(h, regs, m) \subseteq regs
  <2>1. WithIn(h, regs, m) \subseteq regs
    BY DEF WithIn
  <2>2. \A i \in regs : i \in 0..n
    OBVIOUS
  <2> QED BY <2>1, <2>2
<1>2. CASE WithIn(h, regs, m) = {}
  BY <1>2 DEF LastIn
<1>3. CASE WithIn(h, regs, m) # {}
  <2>1. Max(WithIn(h, regs, m)) \in WithIn(h, regs, m)
    BY <1>1, <1>3, MaxIsThere
  <2>2. LastIn(h, regs, m) = Max(WithIn(h, regs, m))
    BY <1>3 DEF LastIn
  <2>3. LastIn(h, regs, m) \in Nat
    BY <1>1, <2>1, <2>2
  <2>4. LastIn(h, regs, m) # Null
    BY <2>3, RouterAssumption
  <2> QED BY <1>1, <1>3, <2>1, <2>2, <2>4
<1> QED BY <1>2, <1>3

\* One more registration is the last one for its methods.
Follows(g, h, n, reg, regs) ==
  /\ n \in Nat /\ regs \subseteq 1..n
  /\ (\A i \in 1..n : g[i] = h[i]) /\ g[n + 1] = reg

LEMMA OneMore ==
  ASSUME NEW h, NEW g, NEW n, NEW reg, NEW regs, Follows(g, h, n, reg, regs)
  PROVE  /\ \A m : LastIn(g, regs, m) = LastIn(h, regs, m)
         /\ \A m : LastIn(g, regs \cup {n + 1}, m)
                     = IF m \in Bound(reg) THEN n + 1 ELSE LastIn(h, regs, m)
<1> USE DEF Follows
<1>1. \A m : WithIn(g, regs, m) = WithIn(h, regs, m)
  BY DEF WithIn
<1>2. ASSUME NEW m
      PROVE  WithIn(g, regs \cup {n + 1}, m)
               = IF m \in Bound(reg) THEN WithIn(h, regs, m) \cup {n + 1} ELSE WithIn(h, regs, m)
  BY DEF WithIn
<1>3. ASSUME NEW m, m \in Bound(reg)
      PROVE  LastIn(g, regs \cup {n + 1}, m) = n + 1
  <2> DEFINE W == WithIn(h, regs, m) \cup {n + 1}
  <2>1. W \subseteq 0..(n + 1) /\ W # {} /\ n + 1 \in Nat
    <3>1. \A i \in regs : i \in 0..(n + 1)
      OBVIOUS
    <3>2. \A i \in W : i \in regs \/ i = n + 1
      BY DEF WithIn
    <3>3. n + 1 \in 0..(n + 1) /\ n + 1 \in W
      OBVIOUS
    <3> DEFINE R == 0..(n + 1)
    <3>4. (\A i \in regs : i \in R) /\ n + 1 \in R /\ n + 1 \in Nat
      BY <3>1, <3>3
    <3> HIDE DEF W, R
    <3>5. W \subseteq R
      BY <3>2, <3>4
    <3> QED BY <3>3, <3>4, <3>5 DEF R
  <2>2. WithIn(g, regs \cup {n + 1}, m) = W
    BY <1>2, <1>3
  <2>4. n + 1 \in W
    OBVIOUS
  <2> HIDE DEF W
  <2>3. Max(W) \in W /\ \A x \in W : Max(W) >= x
    BY <2>1, MaxIsThere
  <2>5. Max(W) >= n + 1 /\ Max(W) \in 0..(n + 1)
    BY <2>1, <2>3, <2>4
  <2>6. Max(W) = n + 1
    BY <2>5
  <2> QED BY <2>1, <2>2, <2>6 DEF LastIn
<1>4. ASSUME NEW m, m \notin Bound(reg)
      PROVE  LastIn(g, regs \cup {n + 1}, m) = LastIn(h, regs, m)
  <2>1. WithIn(g, regs \cup {n + 1}, m) = WithIn(h, regs, m)
    BY <1>2, <1>4
  <2> QED BY <2>1 DEF LastIn
<1>5. \A m : LastIn(g, regs, m) = LastIn(h, regs, m)
  BY <1>1 DEF LastIn
<1> QED BY <1>3, <1>4, <1>5

-----------------------------------------------------------------------------
(* What a registration adds.                                               *)

LEMMA RecordedNumbers ==
  ASSUME Recorded
  PROVE  /\ Len(history) \in Nat /\ DOMAIN history = Numbers /\ DOMAIN binders = Numbers
         /\ Numbers \subseteq Nat
BY DEF Recorded, Numbers, IsSeq

LEMMA BinderAsRegistered ==
  ASSUME NEW reg
  PROVE  AsRegistered(Binder(reg), reg) /\ Binder(reg).filters = Null
BY DEF Binder, AsRegistered, BinderFields

\* One binder and one registration more, the others as they were.
NewRegistration(reg) ==
  /\ Len(binders) + 1 \in Nat /\ Len(binders) + 1 \notin Numbers
  /\ \A i \in Numbers : i < Len(binders) + 1
  /\ Numbers' = Numbers \cup {Len(binders) + 1}
  /\ history'[Len(binders) + 1] = reg
  /\ \A i \in Numbers : history'[i] = history[i]

LEMMA RecordAdds ==
  ASSUME Recorded, NEW reg \in Registrations, Record(reg), reg.kind = "path" => ~PlacesBad(reg)
  PROVE  Recorded' /\ NewRegistration(reg)
<1> USE DEF Record
<1>1. /\ IsSeq(history') /\ IsSeq(binders')
      /\ Len(history) \in Nat
      /\ Len(history') = Len(history) + 1 /\ Len(binders') = Len(binders) + 1
      /\ history'[Len(history) + 1] = reg /\ binders'[Len(history) + 1] = Binder(reg)
      /\ \A i \in Numbers : history'[i] = history[i] /\ binders'[i] = binders[i]
  <2>1. IsSeq(history) /\ IsSeq(binders) /\ Len(binders) = Len(history)
    BY DEF Recorded
  <2> QED BY <2>1, AppendIs DEF Numbers
<1>2. NewRegistration(reg)
  BY <1>1 DEF NewRegistration, Numbers, Recorded
<1>3. ASSUME NEW i \in Numbers'
      PROVE  /\ history'[i] \in Registrations
             /\ AsRegistered(binders'[i], history'[i])
             /\ history'[i].kind = "path" => ~PlacesBad(history'[i])
  <2>1. CASE i \in Numbers
    BY <1>1, <2>1 DEF Recorded
  <2>2. CASE i = Len(history) + 1
    BY <1>1, <2>2, BinderAsRegistered
  <2>3. Numbers' = Numbers \cup {Len(history) + 1}
    BY <1>2 DEF NewRegistration, Recorded
  <2> QED BY <2>1, <2>2, <2>3
<1>4. Len(binders') = Len(history')
  BY <1>1 DEF Recorded
<1> QED BY <1>1, <1>2, <1>3, <1>4 DEF Recorded, AsRegistered

\* The registrations of the paths and of the patterns.
LEMMA ExactAdds ==
  ASSUME Recorded, Recorded', NEW reg, NewRegistration(reg), NEW kind, NEW path
  PROVE  /\ Exact(kind, path) \subseteq Numbers
         /\ Exact(kind, path)' =
              IF /\ reg.kind = kind
                 /\ kind = "path" => Holders(reg.pattern) = <<>>
                 /\ Lowered(Literals(reg.pattern)) = path
              THEN Exact(kind, path) \cup {Len(binders) + 1} ELSE Exact(kind, path)
<1>1. DOMAIN history = Numbers /\ DOMAIN history' = Numbers'
  BY DEF Recorded, Numbers, IsSeq
<1> DEFINE n == Len(binders) + 1
           Fits(r) == /\ r.kind = kind
                      /\ kind = "path" => Holders(r.pattern) = <<>>
                      /\ Lowered(Literals(r.pattern)) = path
<1>2. Exact(kind, path) = {i \in Numbers : Fits(history[i])}
  BY <1>1 DEF Exact
<1>3. Exact(kind, path)' = {i \in Numbers' : Fits(history'[i])}
  BY <1>1 DEF Exact
<1>4. Exact(kind, path)' = IF Fits(reg) THEN Exact(kind, path) \cup {n} ELSE Exact(kind, path)
  <2> HIDE DEF Fits, n
  <2>1. n \notin Numbers /\ Numbers' = Numbers \cup {n} /\ history'[n] = reg
        /\ \A i \in Numbers : history'[i] = history[i]
    BY DEF NewRegistration, n
  <2> QED BY <1>2, <1>3, <2>1
<1> QED BY <1>2, <1>4

IsPatterned(reg) == reg.kind = "regex" \/ (reg.kind = "path" /\ Holders(reg.pattern) # <<>>)

LEMMA PatternedAdds ==
  ASSUME Recorded, Recorded', NEW reg, NewRegistration(reg)
  PROVE  /\ Patterned \subseteq Numbers
         /\ Patterned' = IF IsPatterned(reg) THEN Patterned \cup {Len(binders) + 1} ELSE Patterned
         /\ \A g : OfPattern(g)' =
              IF IsPatterned(reg) /\ Grouped(reg.pattern) = g
              THEN OfPattern(g) \cup {Len(binders) + 1} ELSE OfPattern(g)
         /\ \A g : OfPattern(g) \subseteq Numbers
<1>1. DOMAIN history = Numbers /\ DOMAIN history' = Numbers'
  BY DEF Recorded, Numbers, IsSeq
<1>2. /\ Patterned \subseteq Numbers
      /\ Patterned' = IF IsPatterned(reg) THEN Patterned \cup {Len(binders) + 1} ELSE Patterned
  BY <1>1 DEF Patterned, NewRegistration, IsPatterned
<1> QED BY <1>2 DEF OfPattern, NewRegistration

\* The binders of an item follow its registrations.
LEMMA ItemAdds ==
  ASSUME Recorded, NEW reg, NewRegistration(reg), NEW regs, regs \subseteq Numbers
  PROVE  /\ LatestOf(history', regs) = LatestOf(history, regs)
         /\ LatestOf(history', regs \cup {Len(binders) + 1})
              = WithBinder(LatestOf(history, regs), reg)
         /\ LatestOf(history, {}) = NoBinders
<1> DEFINE n == Len(history)
<1>1. n \in Nat /\ Len(binders) = n /\ Numbers = 1..n
  BY RecordedNumbers DEF Recorded, Numbers
<1>2. (\A i \in 1..n : history'[i] = history[i]) /\ history'[n + 1] = reg
  BY <1>1 DEF NewRegistration
<1>3. ASSUME NEW h, NEW g, h = history, g = history'
      PROVE  /\ \A m : LastIn(g, regs, m) = LastIn(h, regs, m)
             /\ \A m : LastIn(g, regs \cup {n + 1}, m)
                         = IF m \in Bound(reg) THEN n + 1 ELSE LastIn(h, regs, m)
  <2>1. Follows(g, h, n, reg, regs)
    BY <1>1, <1>2, <1>3 DEF Follows
  <2> HIDE DEF n
  <2> QED BY <2>1, OneMore, SMTT(40)
<1>5. /\ \A m : LastIn(history', regs, m) = LastIn(history, regs, m)
      /\ \A m : LastIn(history', regs \cup {n + 1}, m)
                  = IF m \in Bound(reg) THEN n + 1 ELSE LastIn(history, regs, m)
  BY <1>3
<1>4. \A m : LastIn(history, {}, m) = Null
  BY DEF LastIn, WithIn
<1> QED BY <1>1, <1>5, <1>4 DEF LatestOf, WithBinder, NoBinders

-----------------------------------------------------------------------------
(* The tables of paths.                                                    *)

LEMMA PathsAdd ==
  ASSUME NEW reg, NewRegistration(reg)
  PROVE  HistoryPaths' = HistoryPaths \cup {Lowered(Literals(reg.pattern))}
<1> DEFINE n == Len(binders) + 1
           P(r) == Lowered(Literals(r.pattern))
<1>1. HistoryPaths = {P(history[i]) : i \in Numbers}
  BY DEF HistoryPaths
<1>2. HistoryPaths' = {P(history'[i]) : i \in Numbers'}
  BY DEF HistoryPaths
<1>3. /\ Numbers' = Numbers \cup {n} /\ history'[n] = reg
      /\ \A i \in Numbers : history'[i] = history[i]
  BY DEF NewRegistration
<1> HIDE DEF P, n
<1>4. HistoryPaths' = HistoryPaths \cup {P(reg)}
  BY <1>1, <1>2, <1>3
<1> QED BY <1>4 DEF P

LEMMA ExactPaths ==
  ASSUME Recorded, NEW kind, NEW path, Exact(kind, path) # {}
  PROVE  path \in HistoryPaths
BY RecordedNumbers DEF Exact, HistoryPaths

\* Tabled of the next state, for a map given as a value.
NextTable(map, kind) ==
  /\ DOMAIN map = {p \in HistoryPaths' :
                     Exact(kind, p)' # {} /\ \A i \in Exact(kind, p)' : Found(i)'}
  /\ \A p \in DOMAIN map : map[p] = LatestOf(history', Exact(kind, p)')

LEMMA TableKept ==
  ASSUME Recorded, Recorded', NEW reg, NewRegistration(reg), NEW kind, NEW map, Tabled(map, kind),
         reg.kind # kind, Pending' \in {Pending, Pending \cup {Len(binders) + 1}}
  PROVE  NextTable(map, kind)
<1>1. \A p : Exact(kind, p)' = Exact(kind, p) /\ Exact(kind, p) \subseteq Numbers
  BY ExactAdds
<1>2. \A p : Exact(kind, p) # {} => p \in HistoryPaths /\ p \in HistoryPaths'
  BY ExactPaths, PathsAdd
<1>3. \A p \in HistoryPaths' : p \in HistoryPaths \/ Exact(kind, p) = {}
  BY <1>1, <1>2
<1>4. \A i \in Numbers : Found(i)' <=> Found(i)
  BY DEF Found, NewRegistration
<1>5. \A p : LatestOf(history', Exact(kind, p)) = LatestOf(history, Exact(kind, p))
  BY <1>1, ItemAdds
<1>6. DOMAIN map = {p \in HistoryPaths :
                     Exact(kind, p) # {} /\ \A i \in Exact(kind, p) : Found(i)}
  BY DEF Tabled
<1>7. DOMAIN map = {p \in HistoryPaths' :
                     Exact(kind, p)' # {} /\ \A i \in Exact(kind, p)' : Found(i)'}
  BY <1>1, <1>2, <1>3, <1>4, <1>6
<1>8. \A p \in DOMAIN map : map[p] = LatestOf(history', Exact(kind, p)')
  BY <1>1, <1>5 DEF Tabled
<1> QED BY <1>7, <1>8 DEF NextTable

LEMMA TableGrows ==
  ASSUME Recorded, Recorded', NEW reg, NewRegistration(reg),
         NEW kind \in {"simple", "ws"}, reg.kind = kind, NEW map, Tabled(map, kind),
         ByClass \subseteq Pending, Pending' = Pending \cup {Len(binders) + 1}
  PROVE  LET path == Lowered(Literals(reg.pattern))
         IN  NextTable(PutItem(map, path, WithBinder(Entry(map, path, NoBinders), reg)), kind)
<1> DEFINE n == Len(binders) + 1
           path == Lowered(Literals(reg.pattern))
           new == PutItem(map, path, WithBinder(Entry(map, path, NoBinders), reg))
<1>1. /\ \A p : Exact(kind, p) \subseteq Numbers
      /\ \A p : Exact(kind, p)' = IF p = path THEN Exact(kind, p) \cup {n} ELSE Exact(kind, p)
  BY ExactAdds
<1>2. \A p : Exact(kind, p) # {} => p \in HistoryPaths
  BY ExactPaths
<1>3. HistoryPaths' = HistoryPaths \cup {path}
  BY PathsAdd
<1>4. \A p : \A i \in Exact(kind, p) : Found(i)
  BY RecordedNumbers DEF Found, ByClass, Exact
<1>5. \A p : \A i \in Exact(kind, p)' : Found(i)'
  <2>1. \A i \in Numbers : Found(i) => Found(i)'
    BY DEF Found, NewRegistration
  <2>2. ASSUME NEW k, k = n PROVE Found(k)'
    BY <2>2 DEF Found
  <2> QED BY <1>1, <1>4, <2>1, <2>2
<1>6. DOMAIN map = {p \in HistoryPaths : Exact(kind, p) # {}}
  BY <1>4 DEF Tabled
<1>7. \A p : /\ LatestOf(history', Exact(kind, p)) = LatestOf(history, Exact(kind, p))
             /\ LatestOf(history', Exact(kind, p) \cup {n})
                  = WithBinder(LatestOf(history, Exact(kind, p)), reg)
             /\ LatestOf(history, {}) = NoBinders
  BY <1>1, ItemAdds
<1>8. Entry(map, path, NoBinders) = LatestOf(history, Exact(kind, path))
  <2>1. CASE path \in DOMAIN map
    BY <2>1 DEF Tabled, Entry
  <2>2. CASE path \notin DOMAIN map
    BY <1>2, <1>6, <1>7, <2>2 DEF Entry
  <2> QED BY <2>1, <2>2
<1>9. /\ DOMAIN new = DOMAIN map \cup {path}
      /\ new[path] = LatestOf(history', Exact(kind, path)')
      /\ \A p \in DOMAIN map : p # path => new[p] = map[p]
  BY <1>1, <1>7, <1>8 DEF PutItem
<1> HIDE DEF new, n, path
<1>10. DOMAIN new = {p \in HistoryPaths' :
                      Exact(kind, p)' # {} /\ \A i \in Exact(kind, p)' : Found(i)'}
  BY <1>1, <1>3, <1>5, <1>6, <1>9
<1>11. \A p \in DOMAIN new : new[p] = LatestOf(history', Exact(kind, p)')
  BY <1>1, <1>7, <1>9 DEF Tabled
<1> QED BY <1>10, <1>11 DEF NextTable, new, path

LEMMA PathTableKept ==
  ASSUME Recorded, Recorded', PathTable, NEW reg, NewRegistration(reg),
         reg.kind = "path" => Holders(reg.pattern) # <<>>, UNCHANGED ctrlMap
  PROVE  PathTable'
<1>1. \A p : Exact("path", p)' = Exact("path", p) /\ Exact("path", p) \subseteq Numbers
  BY ExactAdds
<1>2. \A p : Exact("path", p) # {} => p \in HistoryPaths /\ p \in HistoryPaths'
  BY ExactPaths, PathsAdd
<1>3. \A p : LatestOf(history', Exact("path", p)) = LatestOf(history, Exact("path", p))
  BY <1>1, ItemAdds
<1>4. {p \in HistoryPaths' : Exact("path", p)' # {}} = {p \in HistoryPaths : Exact("path", p) # {}}
  BY <1>1, <1>2
<1> QED BY <1>1, <1>3, <1>4 DEF PathTable

LEMMA PathTableGrows ==
  ASSUME Recorded, Recorded', PathTable, NEW reg, NewRegistration(reg),
         reg.kind = "path", Holders(reg.pattern) = <<>>,
         LET path == Lowered(Literals(reg.pattern))
             item == Entry(ctrlMap, path, Item(reg))
         IN  ctrlMap' = PutItem(ctrlMap, path, [item EXCEPT !.binders = WithBinder(@, reg)])
  PROVE  PathTable'
<1> DEFINE n == Len(binders) + 1
           path == Lowered(Literals(reg.pattern))
           item == Entry(ctrlMap, path, Item(reg))
           newItem == [item EXCEPT !.binders = WithBinder(@, reg)]
<1>1. /\ \A p : Exact("path", p) \subseteq Numbers
      /\ \A p : Exact("path", p)'
                  = IF p = path THEN Exact("path", p) \cup {n} ELSE Exact("path", p)
  BY ExactAdds
<1>2. \A p : Exact("path", p) # {} => p \in HistoryPaths
  BY ExactPaths
<1>3. HistoryPaths' = HistoryPaths \cup {path}
  BY PathsAdd
<1>4. \A p : /\ LatestOf(history', Exact("path", p)) = LatestOf(history, Exact("path", p))
             /\ LatestOf(history', Exact("path", p) \cup {n})
                  = WithBinder(LatestOf(history, Exact("path", p)), reg)
             /\ LatestOf(history, {}) = NoBinders
  BY <1>1, ItemAdds
<1>5. RouterItems(item) /\ item.binders = LatestOf(history, Exact("path", path))
  <2>1. CASE path \in DOMAIN ctrlMap
    BY <2>1 DEF PathTable, Entry
  <2>2. CASE path \notin DOMAIN ctrlMap
    BY <1>2, <1>4, <2>2 DEF PathTable, Entry, Item, RouterItems
  <2> QED BY <2>1, <2>2
<1> HIDE DEF item
<1>6. RouterItems(newItem) /\ newItem.binders = LatestOf(history', Exact("path", path)')
  BY <1>1, <1>4, <1>5 DEF RouterItems
<1> HIDE DEF newItem
<1>7. ctrlMap' = PutItem(ctrlMap, path, newItem)
  BY DEF newItem, item
<1>8. /\ DOMAIN ctrlMap' = DOMAIN ctrlMap \cup {path}
      /\ ctrlMap'[path] = newItem
      /\ \A p \in DOMAIN ctrlMap : p # path => ctrlMap'[p] = ctrlMap[p]
  BY <1>7 DEF PutItem
<1> HIDE DEF n, path
<1>9. DOMAIN ctrlMap' = {p \in HistoryPaths' : Exact("path", p)' # {}}
  BY <1>1, <1>3, <1>8 DEF PathTable
<1>10. \A p \in DOMAIN ctrlMap' : /\ RouterItems(ctrlMap'[p])
                                  /\ ctrlMap'[p].binders = LatestOf(history', Exact("path", p)')
  BY <1>1, <1>4, <1>6, <1>8 DEF PathTable
<1> QED BY <1>9, <1>10 DEF PathTable, RouterItems

-----------------------------------------------------------------------------
(* The vectors of patterns.                                                *)

LEMMA PatternTableKept ==
  ASSUME Recorded, Recorded', PatternTable, NEW reg, NewRegistration(reg), ~IsPatterned(reg),
         UNCHANGED ctrlVector
  PROVE  PatternTable'
<1>1. /\ Patterned' = Patterned /\ Patterned \subseteq Numbers
      /\ \A g : OfPattern(g)' = OfPattern(g) /\ OfPattern(g) \subseteq Numbers
  BY PatternedAdds
<1>2. \A g : LatestOf(history', OfPattern(g)) = LatestOf(history, OfPattern(g))
  BY <1>1, ItemAdds
<1>3. \A i \in Patterned : history'[i] = history[i]
  BY <1>1 DEF NewRegistration
<1> QED BY <1>1, <1>2, <1>3 DEF PatternTable

\* A new pattern is tried after the others.
LEMMA NewPattern ==
  ASSUME Recorded, Recorded', PatternTable, NEW reg, NewRegistration(reg), IsPatterned(reg),
         \A k \in 1..Len(ctrlVector) : ctrlVector[k].grouped # Grouped(reg.pattern),
         ctrlVector' = Append(ctrlVector,
                              [Item(reg) EXCEPT !.binders = WithBinder(NoBinders, reg)])
  PROVE  PatternTable'
<1> DEFINE n == Len(binders) + 1
           g == Grouped(reg.pattern)
           item == [Item(reg) EXCEPT !.binders = WithBinder(NoBinders, reg)]
           N == Len(ctrlVector)
<1>1. /\ Patterned' = Patterned \cup {n} /\ Patterned \subseteq Numbers
      /\ \A h : OfPattern(h)' = IF h = g THEN OfPattern(h) \cup {n} ELSE OfPattern(h)
      /\ \A h : OfPattern(h) \subseteq Numbers
  BY PatternedAdds
<1>2. OfPattern(g) = {}
  BY DEF OfPattern, PatternTable
<1>3. /\ \A h : LatestOf(history', OfPattern(h)) = LatestOf(history, OfPattern(h))
      /\ LatestOf(history', {} \cup {n}) = WithBinder(NoBinders, reg)
  BY <1>1, ItemAdds
<1>4. /\ IsSeq(ctrlVector') /\ N \in Nat /\ Len(ctrlVector') = N + 1
      /\ ctrlVector'[N + 1] = item /\ \A k \in 1..N : ctrlVector'[k] = ctrlVector[k]
  BY AppendIs DEF PatternTable
<1>5. RouterItems(item) /\ item.grouped = g /\ item.binders = LatestOf(history', OfPattern(g)')
  BY <1>1, <1>2, <1>3 DEF Item, RouterItems
<1>6. /\ \A i \in Numbers : history'[i] = history[i] /\ i < n
      /\ history'[n] = reg /\ n \in Nat /\ Numbers \subseteq Nat
  BY RecordedNumbers DEF NewRegistration
<1> HIDE DEF n, g, item, N
<1>7. ASSUME NEW i \in Patterned'
      PROVE  \E k \in 1..(N + 1) : ctrlVector'[k].grouped = Grouped(history'[i].pattern)
  <2>1. CASE i = n
    <3>1. N + 1 \in 1..(N + 1) /\ history'[i] = reg
      BY <1>4, <1>6, <2>1
    <3>2. ctrlVector'[N + 1].grouped = Grouped(history'[i].pattern)
      BY <1>4, <1>5, <3>1 DEF g
    <3> QED BY <3>1, <3>2
  <2>2. CASE i \in Patterned
    <3>1. PICK k \in 1..N : ctrlVector[k].grouped = Grouped(history[i].pattern)
      BY <2>2 DEF PatternTable, N
    <3>2. k \in 1..(N + 1) /\ ctrlVector'[k] = ctrlVector[k] /\ history'[i] = history[i]
      BY <1>1, <1>4, <1>6, <2>2
    <3> QED BY <3>1, <3>2
  <2> QED BY <1>1, <2>1, <2>2
<1>8. ASSUME NEW k \in 1..N
      PROVE  /\ ctrlVector'[k] = ctrlVector[k] /\ ctrlVector[k].grouped # g
             /\ OfPattern(ctrlVector[k].grouped) # {}
             /\ RouterItems(ctrlVector[k])
             /\ ctrlVector[k].binders = LatestOf(history', OfPattern(ctrlVector[k].grouped))
  BY <1>3, <1>4 DEF PatternTable, N, g
<1>9. ASSUME NEW k \in 1..(N + 1), NEW h, h = ctrlVector'[k].grouped
      PROVE  /\ RouterItems(ctrlVector'[k])
             /\ OfPattern(h)' # {}
             /\ ctrlVector'[k].binders = LatestOf(history', OfPattern(h)')
  <2>1. CASE k = N + 1
    BY <1>1, <1>2, <1>4, <1>5, <1>9, <2>1
  <2>2. CASE k \in 1..N
    BY <1>1, <1>8, <1>9, <2>2
  <2> QED BY <1>4, <2>1, <2>2
<1>10. ASSUME NEW k \in 1..(N + 1), NEW l \in 1..(N + 1), k < l,
              NEW f, f = ctrlVector'[k].grouped, NEW h, h = ctrlVector'[l].grouped,
              NEW j \in OfPattern(h)'
       PROVE  \E i \in OfPattern(f)' : i < j
  <2>1. k \in 1..N /\ f = ctrlVector[k].grouped /\ OfPattern(f)' = OfPattern(f)
    BY <1>1, <1>4, <1>8, <1>10
  <2>2. CASE l \in 1..N
    <3>1. h = ctrlVector[l].grouped /\ OfPattern(h)' = OfPattern(h)
      BY <1>1, <1>4, <1>8, <1>10, <2>2
    <3>2. \A m \in OfPattern(h) : \E i \in OfPattern(f) : i < m
      BY <1>10, <2>1, <2>2, <3>1 DEF PatternTable, N
    <3> QED BY <2>1, <3>1, <3>2
  <2>3. CASE l = N + 1
    <3>1. j = n
      BY <1>1, <1>2, <1>4, <1>5, <1>10, <2>3
    <3>2. PICK i \in OfPattern(f) : TRUE
      BY <1>8, <2>1
    <3> QED BY <1>1, <1>6, <2>1, <3>1, <3>2
  <2> QED BY <1>4, <2>2, <2>3
<1>11. ASSUME NEW k \in 1..(N + 1), NEW l \in 1..(N + 1),
              ctrlVector'[k].grouped = ctrlVector'[l].grouped
       PROVE  k = l
  <2>1. CASE k \in 1..N /\ l \in 1..N
    BY <1>8, <1>11, <2>1 DEF PatternTable, N
  <2>2. \A m \in 1..N : ctrlVector'[m].grouped # ctrlVector'[N + 1].grouped
    BY <1>4, <1>5, <1>8
  <2>3. (k \in 1..N \/ k = N + 1) /\ (l \in 1..N \/ l = N + 1)
    BY <1>4
  <2> QED BY <1>11, <2>1, <2>2, <2>3
<1> QED BY <1>4, <1>7, <1>9, <1>10, <1>11 DEF PatternTable, RouterItems

\* A pattern registered before keeps its place.
LEMMA KnownPattern ==
  ASSUME Recorded, Recorded', PatternTable, NEW reg, NewRegistration(reg), IsPatterned(reg),
         NEW o \in 1..Len(ctrlVector), ctrlVector[o].grouped = Grouped(reg.pattern),
         ctrlVector' = [i \in DOMAIN ctrlVector |->
                          IF ctrlVector[i].grouped = Grouped(reg.pattern)
                          THEN [ctrlVector[i] EXCEPT !.binders = WithBinder(@, reg)]
                          ELSE ctrlVector[i]]
  PROVE  PatternTable'
<1> DEFINE n == Len(binders) + 1
           g == Grouped(reg.pattern)
           N == Len(ctrlVector)
<1>1. /\ Patterned' = Patterned \cup {n} /\ Patterned \subseteq Numbers
      /\ \A h : OfPattern(h)' = IF h = g THEN OfPattern(h) \cup {n} ELSE OfPattern(h)
      /\ \A h : OfPattern(h) \subseteq Numbers
  BY PatternedAdds
<1>2. \A h : /\ LatestOf(history', OfPattern(h)) = LatestOf(history, OfPattern(h))
             /\ LatestOf(history', OfPattern(h) \cup {n})
                  = WithBinder(LatestOf(history, OfPattern(h)), reg)
  BY <1>1, ItemAdds
<1>3. DOMAIN ctrlVector = 1..N /\ N \in Nat
  BY DEF PatternTable, IsSeq
<1>4. IsSeq(ctrlVector') /\ Len(ctrlVector') = N
  BY <1>3 DEF IsSeq, Elements
<1>5. ASSUME NEW k \in 1..N
      PROVE  /\ ctrlVector'[k].grouped = ctrlVector[k].grouped
             /\ RouterItems(ctrlVector'[k])
             /\ ctrlVector'[k].binders = IF ctrlVector[k].grouped = g
                                         THEN WithBinder(ctrlVector[k].binders, reg)
                                         ELSE ctrlVector[k].binders
  BY <1>3 DEF PatternTable, RouterItems
<1>6. /\ \A i \in Numbers : history'[i] = history[i] /\ i < n
      /\ history'[n] = reg /\ n \in Nat /\ Numbers \subseteq Nat
  BY RecordedNumbers DEF NewRegistration
<1>7. o \in 1..N /\ ctrlVector[o].grouped = g
  OBVIOUS
<1> HIDE DEF n, g, N
<1>8. ASSUME NEW i \in Patterned'
      PROVE  \E k \in 1..N : ctrlVector'[k].grouped = Grouped(history'[i].pattern)
  <2>1. CASE i = n
    BY <1>5, <1>6, <1>7, <2>1 DEF g
  <2>2. CASE i \in Patterned
    <3>1. PICK k \in 1..N : ctrlVector[k].grouped = Grouped(history[i].pattern)
      BY <2>2 DEF PatternTable, N
    <3> QED BY <1>1, <1>5, <1>6, <2>2, <3>1
  <2> QED BY <1>1, <2>1, <2>2
<1>9. ASSUME NEW k \in 1..N, NEW h, h = ctrlVector'[k].grouped
      PROVE  /\ OfPattern(h)' # {}
             /\ ctrlVector'[k].binders = LatestOf(history', OfPattern(h)')
  <2>1. h = ctrlVector[k].grouped
    BY <1>5, <1>9
  <2>2. OfPattern(h) # {} /\ ctrlVector[k].binders = LatestOf(history, OfPattern(h))
    BY <2>1 DEF PatternTable, N
  <2>3. OfPattern(h) \cup {n} # {}
    OBVIOUS
  <2> QED BY <1>1, <1>2, <1>5, <2>1, <2>2, <2>3
<1>10. ASSUME NEW k \in 1..N, NEW l \in 1..N, k < l,
              NEW f, f = ctrlVector'[k].grouped, NEW h, h = ctrlVector'[l].grouped,
              NEW j \in OfPattern(h)'
       PROVE  \E i \in OfPattern(f)' : i < j
  <2>1. f = ctrlVector[k].grouped /\ h = ctrlVector[l].grouped
    BY <1>5, <1>10
  <2>2. /\ OfPattern(f) # {}
        /\ \A m \in OfPattern(h) : \E i \in OfPattern(f) : i < m
    BY <1>10, <2>1 DEF PatternTable, N
  <2>3. CASE j \in OfPattern(h)
    BY <1>1, <2>2, <2>3
  <2>4. CASE j = n
    BY <1>1, <1>6, <2>2, <2>4
  <2> QED BY <1>1, <2>3, <2>4
<1>11. ASSUME NEW k \in 1..N, NEW l \in 1..N, ctrlVector'[k].grouped = ctrlVector'[l].grouped
       PROVE  k = l
  BY <1>5, <1>11 DEF PatternTable, N
<1>12. \A k \in 1..N : RouterItems(ctrlVector'[k])
  BY <1>5
<1>13. \A k \in 1..N : /\ RouterItems(ctrlVector[k])'
                        /\ (OfPattern(ctrlVector[k].grouped) # {})'
                        /\ (ctrlVector[k].binders
                              = LatestOf(history, OfPattern(ctrlVector[k].grouped)))'
  BY <1>9, <1>12 DEF RouterItems
<1>14. \A k, l \in 1..N :
         k < l => (\A j \in OfPattern(ctrlVector[l].grouped) :
                     \E i \in OfPattern(ctrlVector[k].grouped) : i < j)'
  BY <1>10
<1> QED BY <1>4, <1>8, <1>11, <1>13, <1>14 DEF PatternTable

LEMMA PatternTableGrows ==
  ASSUME Recorded, Recorded', PatternTable, NEW reg, NewRegistration(reg), IsPatterned(reg),
         AddRegexCtrlBinder(reg)
  PROVE  PatternTable'
<1> DEFINE Same == {i \in DOMAIN ctrlVector : ctrlVector[i].grouped = Grouped(reg.pattern)}
<1>1. DOMAIN ctrlVector = 1..Len(ctrlVector)
  BY DEF PatternTable, IsSeq
<1>2. CASE Same = {}
  <2>1. ctrlVector' = Append(ctrlVector,
                             [Item(reg) EXCEPT !.binders = WithBinder(NoBinders, reg)])
    BY <1>2 DEF AddRegexCtrlBinder
  <2>2. \A k \in 1..Len(ctrlVector) : ctrlVector[k].grouped # Grouped(reg.pattern)
    BY <1>1, <1>2
  <2> QED BY <2>1, <2>2, NewPattern
<1>3. CASE Same # {}
  <2>1. PICK o \in 1..Len(ctrlVector) : ctrlVector[o].grouped = Grouped(reg.pattern)
    BY <1>1, <1>3
  <2>2. ctrlVector' = [i \in DOMAIN ctrlVector |->
                         IF i \in Same
                         THEN [ctrlVector[i] EXCEPT !.binders = WithBinder(@, reg)]
                         ELSE ctrlVector[i]]
    BY <1>3 DEF AddRegexCtrlBinder
  <2>3. ctrlVector' = [i \in DOMAIN ctrlVector |->
                         IF ctrlVector[i].grouped = Grouped(reg.pattern)
                         THEN [ctrlVector[i] EXCEPT !.binders = WithBinder(@, reg)]
                         ELSE ctrlVector[i]]
    BY <2>2
  <2> QED BY <2>1, <2>3, KnownPattern
<1> QED BY <1>2, <1>3

LEMMA WsPatternTableKept ==
  ASSUME Recorded, WsPatternTable, NEW reg, NewRegistration(reg), UNCHANGED wsCtrlVector
  PROVE  WsPatternTable'
BY DEF WsPatternTable, NewRegistration

LEMMA WsPatternTableGrows ==
  ASSUME Recorded, WsPatternTable, NEW reg, NewRegistration(reg), reg.kind = "wsRegex",
         wsCtrlVector' =
           Append(wsCtrlVector, [Item(reg) EXCEPT !.binders = WithBinder(NoBinders, reg)])
  PROVE  WsPatternTable'
<1> DEFINE item == [Item(reg) EXCEPT !.binders = WithBinder(NoBinders, reg)]
           N == Len(wsCtrlVector)
<1>1. /\ IsSeq(wsCtrlVector') /\ N \in Nat /\ Len(wsCtrlVector') = N + 1
      /\ wsCtrlVector'[N + 1] = item /\ \A k \in 1..N : wsCtrlVector'[k] = wsCtrlVector[k]
  BY AppendIs DEF WsPatternTable
<1>2. \A m \in Methods : item.binders[m] \in {Null, Len(binders) + 1}
  BY DEF Item, NoBinders, WithBinder
<1> HIDE DEF item, N
<1>3. ASSUME NEW k \in 1..(N + 1), NEW m \in Methods, wsCtrlVector'[k].binders[m] # Null
      PROVE  /\ wsCtrlVector'[k].binders[m] \in Numbers'
             /\ history'[wsCtrlVector'[k].binders[m]].kind = "wsRegex"
  <2>1. CASE k = N + 1
    BY <1>1, <1>2, <1>3, <2>1 DEF NewRegistration
  <2>2. CASE k \in 1..N
    BY <1>1, <1>3, <2>2 DEF WsPatternTable, NewRegistration, N
  <2> QED BY <1>1, <2>1, <2>2
<1> QED BY <1>1, <1>3 DEF WsPatternTable

-----------------------------------------------------------------------------
(* The queue of the main loop.                                             *)

LEMMA QueueKept ==
  ASSUME Recorded, Recorded', Queued, NEW reg, NewRegistration(reg),
         reg.kind \notin {"simple", "ws", "wsRegex"}, UNCHANGED <<routing, loopQueue>>
  PROVE  Queued' /\ Pending' = Pending
<1>1. ByClass' = ByClass
  BY DEF ByClass, NewRegistration
<1>2. Pending' = Pending
  BY DEF Pending
<1> QED BY <1>1, <1>2 DEF Queued

LEMMA QueueGrows ==
  ASSUME Recorded, Recorded', Queued, NEW reg, NewRegistration(reg),
         reg.kind \in {"simple", "ws", "wsRegex"}, UNCHANGED routing,
         loopQueue' = Append(loopQueue, Len(binders) + 1)
  PROVE  Queued' /\ Pending' = Pending \cup {Len(binders) + 1}
<1> DEFINE n == Len(binders) + 1
           N == Len(loopQueue)
<1>1. /\ IsSeq(loopQueue') /\ N \in Nat /\ Len(loopQueue') = N + 1
      /\ loopQueue'[N + 1] = n /\ \A j \in 1..N : loopQueue'[j] = loopQueue[j]
  BY AppendIs DEF Queued
<1>2. ByClass' = ByClass \cup {n} /\ ByClass \subseteq Numbers
  BY DEF ByClass, NewRegistration
<1>3. Pending = {loopQueue[j] : j \in 1..N}
  BY DEF Pending
<1>4. Pending' = {loopQueue'[j] : j \in 1..(N + 1)}
  BY <1>1 DEF Pending
<1>5. n \notin Numbers
  BY DEF NewRegistration
<1> HIDE DEF n, N
<1>6. Pending' = Pending \cup {n}
  <2>1. 1..(N + 1) = 1..N \cup {N + 1}
    BY <1>1
  <2> QED BY <1>1, <1>3, <1>4, <2>1
<1>7. ASSUME NEW j \in 1..(N + 1), NEW k \in 1..(N + 1), loopQueue'[j] = loopQueue'[k]
      PROVE  j = k
  <2>1. \A i \in 1..N : loopQueue'[i] # n
    BY <1>1, <1>2, <1>3, <1>5 DEF Queued
  <2>2. (j \in 1..N \/ j = N + 1) /\ (k \in 1..N \/ k = N + 1)
    BY <1>1
  <2> QED BY <1>1, <1>7, <2>1, <2>2 DEF Queued, N
<1> QED BY <1>1, <1>2, <1>6, <1>7 DEF Queued, n

LEMMA HeadLeaves ==
  ASSUME Queued, loopQueue # <<>>, loopQueue' = Tail(loopQueue),
         history' = history, routing # "registering", routing' = routing
  PROVE  Queued' /\ Head(loopQueue) \in ByClass /\ Pending' = Pending \ {Head(loopQueue)}
<1> DEFINE N == Len(loopQueue)
<1>1. /\ IsSeq(loopQueue') /\ N \in Nat \ {0} /\ Len(loopQueue') = N - 1
      /\ Head(loopQueue) = loopQueue[1]
      /\ \A j \in 1..(N - 1) : loopQueue'[j] = loopQueue[j + 1]
  <2>1. loopQueue \in Seq(Elements(loopQueue)) /\ loopQueue # <<>>
    BY DEF Queued, IsSeq
  <2> DEFINE T == Elements(loopQueue)
  <2>2. loopQueue \in Seq(T) /\ loopQueue # <<>>
    BY <2>1
  <2> HIDE DEF T
  <2>3. /\ Tail(loopQueue) \in Seq(T) /\ N \in Nat /\ N # 0
        /\ Len(Tail(loopQueue)) = N - 1 /\ Head(loopQueue) = loopQueue[1]
    BY <2>2
  <2>4. \A j \in 1..(N - 1) : Tail(loopQueue)[j] = loopQueue[j + 1]
    BY <2>2, <2>3
  <2> QED BY <2>3, <2>4, SeqIsSeq
<1>2. ByClass' = ByClass
  BY DEF ByClass, Numbers
<1>3. Pending = {loopQueue[j] : j \in 1..N}
  BY DEF Pending
<1>4. Pending' = {loopQueue'[j] : j \in 1..(N - 1)}
  BY <1>1 DEF Pending
<1>5. \A j, k \in 1..N : loopQueue[j] = loopQueue[k] => j = k
  BY DEF Queued
<1>6. loopQueue[1] \in ByClass
  BY <1>1 DEF Queued, Pending
<1> HIDE DEF N
<1>7. Pending' = Pending \ {loopQueue[1]}
  <2>1. ASSUME NEW x \in Pending' PROVE x \in Pending \ {loopQueue[1]}
    <3>1. PICK j \in 1..(N - 1) : x = loopQueue'[j]
      BY <1>4
    <3>2. x = loopQueue[j + 1] /\ j + 1 \in 1..N /\ 1 \in 1..N /\ j + 1 # 1
      BY <1>1, <3>1
    <3> QED BY <1>3, <1>5, <3>2
  <2>2. ASSUME NEW x \in Pending, x # loopQueue[1] PROVE x \in Pending'
    <3>1. PICK j \in 1..N : x = loopQueue[j]
      BY <1>3
    <3>2. j - 1 \in 1..(N - 1) /\ j = (j - 1) + 1
      BY <1>1, <2>2, <3>1
    <3>3. x = loopQueue'[j - 1]
      BY <1>1, <3>1, <3>2
    <3> QED BY <1>4, <3>2, <3>3
  <2> QED BY <2>1, <2>2
<1>8. ASSUME NEW j \in 1..(N - 1), NEW k \in 1..(N - 1), loopQueue'[j] = loopQueue'[k]
      PROVE  j = k
  <2>1. loopQueue[j + 1] = loopQueue[k + 1] /\ j + 1 \in 1..N /\ k + 1 \in 1..N
    BY <1>1, <1>8
  <2>2. j + 1 = k + 1
    BY <1>5, <2>1
  <2> QED BY <2>2
<1> QED BY <1>1, <1>2, <1>6, <1>7, <1>8 DEF Queued

-----------------------------------------------------------------------------
(* What init does.                                                         *)

LEMMA ExactOnes ==
  ASSUME Recorded, NEW kind, NEW path, NEW i \in Exact(kind, path)
  PROVE  /\ i \in Numbers /\ history[i].kind = kind
         /\ kind = "path" => Holders(history[i].pattern) = <<>>
         /\ Lowered(Literals(history[i].pattern)) = path
         /\ kind # "regex" => TogetherWith(i) = Exact(kind, path)
BY RecordedNumbers DEF Exact, TogetherWith, Patterned

LEMMA PatternOnes ==
  ASSUME Recorded, NEW g, NEW i \in OfPattern(g)
  PROVE  /\ i \in Numbers /\ i \in Patterned
         /\ Grouped(history[i].pattern) = g
         /\ TogetherWith(i) = OfPattern(g)
BY RecordedNumbers DEF OfPattern, TogetherWith, SamePattern, Patterned

LEMMA ExactNumbers ==
  ASSUME Recorded
  PROVE  /\ \A kind, path : Exact(kind, path) \subseteq Numbers
         /\ Patterned \subseteq Numbers /\ \A g : OfPattern(g) \subseteq Numbers
BY RecordedNumbers DEF Exact, Patterned, OfPattern

\* The last registration of a method is one of those of the item.
LEMMA LatestOnes ==
  ASSUME Recorded, NEW regs, regs \subseteq Numbers, NEW m \in Methods,
         LatestOf(history, regs)[m] # Null
  PROVE  LatestOf(history, regs)[m] \in regs
<1>1. Len(history) \in Nat /\ Numbers = 1..Len(history)
  BY RecordedNumbers DEF Numbers
<1> QED BY <1>1, LastIsOne DEF LatestOf

\* The item of a binder is the one of its registrations.
LEMMA ItemOfBinder ==
  ASSUME RouterInv, NEW bs \in Visited, NEW b \in BoundIn(bs)
  PROVE  b \in Numbers /\ bs = LatestOf(history, TogetherWith(b))
<1> USE DEF RouterInv
<1>1. PICK m \in Methods : b = bs[m] /\ b # Null
  BY DEF BoundIn
<1>2. ASSUME NEW kind, kind # "regex", NEW p, bs = LatestOf(history, Exact(kind, p))
      PROVE  b \in Numbers /\ bs = LatestOf(history, TogetherWith(b))
  <2>1. b \in Exact(kind, p)
    BY <1>1, <1>2, ExactNumbers, LatestOnes
  <2> QED BY <1>2, <2>1, ExactOnes
<1>3. ASSUME NEW g, bs = LatestOf(history, OfPattern(g))
      PROVE  b \in Numbers /\ bs = LatestOf(history, TogetherWith(b))
  <2>1. b \in OfPattern(g)
    BY <1>1, <1>3, ExactNumbers, LatestOnes
  <2> QED BY <1>3, <2>1, PatternOnes
<1>4. CASE \E p \in DOMAIN simpleCtrlMap : bs = simpleCtrlMap[p]
  <2>1. PICK p : bs = LatestOf(history, Exact("simple", p))
    BY <1>4 DEF Tabled
  <2> QED BY <1>2, <2>1
<1>5. CASE \E p \in DOMAIN wsCtrlMap : bs = wsCtrlMap[p]
  <2>1. PICK p : bs = LatestOf(history, Exact("ws", p))
    BY <1>5 DEF Tabled
  <2> QED BY <1>2, <2>1
<1>6. CASE \E p \in DOMAIN ctrlMap : bs = ctrlMap[p].binders
  <2>1. PICK p : bs = LatestOf(history, Exact("path", p))
    BY <1>6 DEF PathTable
  <2> QED BY <1>2, <2>1
<1>7. CASE \E i \in DOMAIN ctrlVector : bs = ctrlVector[i].binders
  <2>1. DOMAIN ctrlVector = 1..Len(ctrlVector)
    BY DEF PatternTable, IsSeq
  <2>2. PICK g : bs = LatestOf(history, OfPattern(g))
    BY <1>7, <2>1 DEF PatternTable
  <2> QED BY <1>3, <2>2
<1> QED BY <1>4, <1>5, <1>6, <1>7 DEF Visited

-----------------------------------------------------------------------------
(* Every step keeps the invariant.                                         *)

LEMMA RouterStarts ==
  ASSUME RouterInit
  PROVE  RouterInv
<1> USE DEF RouterInit
<1>1. IsSeq(<<>>) /\ Len(<<>>) = 0
  BY DEF IsSeq, Elements
<1>2. Numbers = {} /\ HistoryPaths = {} /\ Pending = {} /\ ByClass = {}
  BY <1>1 DEF Numbers, HistoryPaths, Pending, ByClass
<1>3. Recorded /\ Queued /\ Initialised
  BY <1>1, <1>2 DEF Recorded, Queued, Initialised
<1>4. DOMAIN <<>> = {}
  OBVIOUS
<1>5. Tabled(simpleCtrlMap, "simple") /\ Tabled(wsCtrlMap, "ws") /\ PathTable
  BY <1>2, <1>4 DEF Tabled, PathTable
<1>6. Patterned = {}
  BY <1>2, <1>3, ExactNumbers
<1>7. PatternTable /\ WsPatternTable
  BY <1>1, <1>6 DEF PatternTable, WsPatternTable
<1> QED BY <1>3, <1>5, <1>7 DEF RouterInv

\* Without a registration, what the history says stays.
LEMMA HistoryStays ==
  ASSUME UNCHANGED history
  PROVE  /\ Numbers' = Numbers /\ HistoryPaths' = HistoryPaths /\ ByClass' = ByClass
         /\ Patterned' = Patterned
         /\ \A kind, path : Exact(kind, path)' = Exact(kind, path)
         /\ \A g : OfPattern(g)' = OfPattern(g)
BY DEF Numbers, HistoryPaths, ByClass, Patterned, Exact, OfPattern

LEMMA QueueStays ==
  ASSUME Queued, UNCHANGED <<history, loopQueue>>, routing' # "registering" \/ UNCHANGED routing
  PROVE  Queued' /\ Pending' = Pending
<1>1. ByClass' = ByClass
  BY HistoryStays
<1>2. Pending' = Pending
  BY DEF Pending
<1> QED BY <1>1, <1>2 DEF Queued

LEMMA PatternsStay ==
  ASSUME UNCHANGED history
  PROVE  /\ PathTable /\ UNCHANGED ctrlMap => PathTable'
         /\ PatternTable /\ UNCHANGED ctrlVector => PatternTable'
         /\ WsPatternTable /\ UNCHANGED wsCtrlVector => WsPatternTable'
<1>1. PathTable /\ UNCHANGED ctrlMap => PathTable'
  BY HistoryStays DEF PathTable
<1>2. ASSUME PatternTable, UNCHANGED ctrlVector PROVE PatternTable'
  <2>1. Patterned' = Patterned /\ \A g : OfPattern(g)' = OfPattern(g)
    BY HistoryStays
  <2> QED BY <1>2, <2>1 DEF PatternTable
<1>3. WsPatternTable /\ UNCHANGED wsCtrlVector => WsPatternTable'
  BY HistoryStays DEF WsPatternTable
<1> QED BY <1>1, <1>2, <1>3

LEMMA TablesStay ==
  ASSUME Recorded, UNCHANGED <<history, routes>>, Pending' = Pending
  PROVE  /\ UNCHANGED binders => Recorded'
         /\ Tabled(simpleCtrlMap, "simple") => Tabled(simpleCtrlMap, "simple")'
         /\ Tabled(wsCtrlMap, "ws") => Tabled(wsCtrlMap, "ws")'
         /\ PathTable => PathTable'
         /\ PatternTable => PatternTable'
         /\ WsPatternTable => WsPatternTable'
<1>1. UNCHANGED binders => Recorded'
  BY HistoryStays DEF Recorded, AsRegistered
<1>2. \A i : Found(i)' <=> Found(i)
  BY DEF Found
<1>3. Tabled(simpleCtrlMap, "simple") => Tabled(simpleCtrlMap, "simple")'
  BY <1>2, HistoryStays DEF Tabled, routes
<1>4. Tabled(wsCtrlMap, "ws") => Tabled(wsCtrlMap, "ws")'
  BY <1>2, HistoryStays DEF Tabled, routes
<1> QED BY <1>1, <1>3, <1>4, PatternsStay DEF routes

LEMMA RegisterKeeps ==
  ASSUME RouterInv, NEW reg \in Registrations, Register(reg)
  PROVE  RouterInv'
<1> USE DEF RouterInv
<1> DEFINE n == Len(binders) + 1
<1>1. routing = "registering"
  BY DEF Register
<1>2. ByClass \subseteq Pending
  BY <1>1 DEF Queued
<1>3. CASE RegisterSimple(reg)
  <2> USE DEF RegisterSimple
  <2>1. Recorded' /\ NewRegistration(reg)
    BY <1>3, RecordAdds
  <2>2. Queued' /\ Pending' = Pending \cup {n}
    BY <1>3, <2>1, QueueGrows DEF Record
  <2>3. NextTable(simpleCtrlMap', "simple")
    BY <1>2, <1>3, <2>1, <2>2, TableGrows
  <2>4. NextTable(wsCtrlMap, "ws")
    BY <1>3, <2>1, <2>2, TableKept
  <2>5. PathTable'
    BY <1>3, <2>1, PathTableKept
  <2>6. PatternTable' /\ WsPatternTable'
    BY <1>3, <2>1, PatternTableKept, WsPatternTableKept DEF IsPatterned
  <2>7. Initialised'
    BY <1>1, <1>3 DEF Initialised, Record
  <2> QED BY <1>3, <2>1, <2>2, <2>3, <2>4, <2>5, <2>6, <2>7 DEF NextTable, Tabled
<1>4. CASE RegisterWs(reg)
  <2> USE DEF RegisterWs
  <2>1. Recorded' /\ NewRegistration(reg)
    BY <1>4, RecordAdds
  <2>2. Queued' /\ Pending' = Pending \cup {n}
    BY <1>4, <2>1, QueueGrows DEF Record
  <2>3. NextTable(wsCtrlMap', "ws")
    BY <1>2, <1>4, <2>1, <2>2, TableGrows
  <2>4. NextTable(simpleCtrlMap, "simple")
    BY <1>4, <2>1, <2>2, TableKept
  <2>5. PathTable'
    BY <1>4, <2>1, PathTableKept
  <2>6. PatternTable' /\ WsPatternTable'
    BY <1>4, <2>1, PatternTableKept, WsPatternTableKept DEF IsPatterned
  <2>7. Initialised'
    BY <1>1, <1>4 DEF Initialised, Record
  <2> QED BY <1>4, <2>1, <2>2, <2>3, <2>4, <2>5, <2>6, <2>7 DEF NextTable, Tabled
<1>5. CASE RegisterWsRegex(reg)
  <2> USE DEF RegisterWsRegex
  <2>1. Recorded' /\ NewRegistration(reg)
    BY <1>5, RecordAdds
  <2>2. Queued' /\ Pending' = Pending \cup {n}
    BY <1>5, <2>1, QueueGrows DEF Record
  <2>3. NextTable(wsCtrlMap, "ws") /\ NextTable(simpleCtrlMap, "simple")
    BY <1>5, <2>1, <2>2, TableKept
  <2>4. PathTable' /\ PatternTable'
    BY <1>5, <2>1, PathTableKept, PatternTableKept DEF IsPatterned
  <2>5. WsPatternTable'
    BY <1>5, <2>1, WsPatternTableGrows
  <2>6. Initialised'
    BY <1>1, <1>5 DEF Initialised, Record
  <2> QED BY <1>5, <2>1, <2>2, <2>3, <2>4, <2>5, <2>6 DEF NextTable, Tabled
<1>6. ASSUME reg.kind \in {"regex", "path"}, Record(reg), reg.kind = "path" => ~PlacesBad(reg),
             UNCHANGED <<simpleCtrlMap, wsCtrlMap, wsCtrlVector, loopQueue>>
      PROVE  /\ Recorded' /\ NewRegistration(reg) /\ Queued' /\ Initialised'
             /\ Tabled(simpleCtrlMap, "simple")' /\ Tabled(wsCtrlMap, "ws")'
             /\ WsPatternTable'
  <2>1. Recorded' /\ NewRegistration(reg)
    BY <1>6, RecordAdds
  <2>2. Queued' /\ Pending' = Pending
    BY <1>6, <2>1, QueueKept DEF Record
  <2>3. NextTable(wsCtrlMap, "ws") /\ NextTable(simpleCtrlMap, "simple")
    BY <1>6, <2>1, <2>2, TableKept
  <2>4. WsPatternTable'
    BY <1>6, <2>1, WsPatternTableKept
  <2>5. Initialised'
    BY <1>1, <1>6 DEF Initialised, Record
  <2> QED BY <1>6, <2>1, <2>2, <2>3, <2>4, <2>5 DEF NextTable, Tabled
<1>7. CASE AddHttpRegex(reg)
  <2> USE DEF AddHttpRegex
  <2>1. /\ Recorded' /\ NewRegistration(reg) /\ Queued' /\ Initialised'
        /\ Tabled(simpleCtrlMap, "simple")' /\ Tabled(wsCtrlMap, "ws")'
        /\ WsPatternTable'
    BY <1>6, <1>7
  <2>2. PathTable'
    BY <1>7, <2>1, PathTableKept
  <2>3. PatternTable'
    BY <1>7, <2>1, PatternTableGrows DEF IsPatterned
  <2> QED BY <2>1, <2>2, <2>3
<1>8. CASE AddHttpPath(reg)
  <2>1. CASE /\ PlacesBad(reg) /\ routing' = "exited"
             /\ UNCHANGED <<ctrlMap, ctrlVector, binders, history>>
    <3>1. routing' = "exited" /\ UNCHANGED <<routes, binders, loopQueue, history>>
      BY <1>8, <2>1 DEF AddHttpPath, routes
    <3>2. Queued' /\ Pending' = Pending
      BY <1>1, <3>1, QueueStays
    <3>3. Initialised'
      BY <3>1 DEF Initialised
    <3> QED BY <3>1, <3>2, <3>3, TablesStay DEF routes
  <2>2. CASE ~PlacesBad(reg) /\ Record(reg)
    <3>1. /\ Recorded' /\ NewRegistration(reg) /\ Queued' /\ Initialised'
          /\ Tabled(simpleCtrlMap, "simple")' /\ Tabled(wsCtrlMap, "ws")'
          /\ WsPatternTable' /\ reg.kind = "path"
      BY <1>6, <1>8, <2>2 DEF AddHttpPath
    <3>2. CASE Holders(reg.pattern) # <<>>
      <4>1. PathTable'
        BY <1>8, <2>2, <3>1, <3>2, PathTableKept DEF AddHttpPath
      <4>2. PatternTable'
        BY <1>8, <2>2, <3>1, <3>2, PatternTableGrows DEF IsPatterned, AddHttpPath
      <4> QED BY <3>1, <4>1, <4>2
    <3>3. CASE Holders(reg.pattern) = <<>>
      <4>1. PathTable'
        BY <1>8, <2>2, <3>1, <3>3, PathTableGrows DEF AddHttpPath
      <4>2. PatternTable'
        BY <1>8, <2>2, <3>1, <3>3, PatternTableKept DEF IsPatterned, AddHttpPath
      <4> QED BY <3>1, <4>1, <4>2
    <3> QED BY <3>2, <3>3
  <2> QED BY <1>8, <2>1, <2>2 DEF AddHttpPath
<1> QED BY <1>3, <1>4, <1>5, <1>7, <1>8 DEF Register

\* A closure sets the controller of its binder or takes the path of it away.
LEMMA TableResolved ==
  ASSUME Recorded, Recorded', NEW kind, NEW map, Tabled(map, kind),
         UNCHANGED history, NEW b \in Numbers, Pending' = Pending \ {b}, b \in Pending
  PROVE  /\ Found(b)' \/ history[b].kind # kind => NextTable(map, kind)
         /\ ~Found(b)' /\ history[b].kind = kind /\ kind # "path"
              => NextTable(Without(map, Lowered(Literals(history[b].pattern))), kind)
<1> DEFINE path == Lowered(Literals(history[b].pattern))
           Kept(p) == Exact(kind, p) # {} /\ \A i \in Exact(kind, p) : Found(i)
           KeptNow(p) == Exact(kind, p)' # {} /\ \A i \in Exact(kind, p)' : Found(i)'
<1>1. \A i : i # b => (Found(i)' <=> Found(i))
  BY DEF Found
<1>2. Found(b)
  BY DEF Found
<1>3. /\ HistoryPaths' = HistoryPaths
      /\ \A p : Exact(kind, p)' = Exact(kind, p)
  BY HistoryStays
<1>4. DOMAIN map = {p \in HistoryPaths : Kept(p)}
  BY DEF Tabled
<1>5. \A p \in DOMAIN map : map[p] = LatestOf(history', Exact(kind, p)')
  BY <1>3 DEF Tabled
<1>6. \A p : b \in Exact(kind, p) => p = path /\ history[b].kind = kind
  BY ExactOnes
<1>7. ASSUME Found(b)' \/ history[b].kind # kind
      PROVE  NextTable(map, kind)
  <2>1. \A p : Kept(p) <=> KeptNow(p)
    BY <1>1, <1>2, <1>3, <1>6, <1>7
  <2>2. DOMAIN map = {p \in HistoryPaths' : KeptNow(p)}
    BY <1>3, <1>4, <2>1
  <2> QED BY <1>5, <2>2 DEF NextTable
<1>8. ASSUME ~Found(b)', history[b].kind = kind, kind # "path"
      PROVE  NextTable(Without(map, path), kind)
  <2>1. b \in Exact(kind, path)
    BY <1>8, RecordedNumbers DEF Exact
  <2>2. ~KeptNow(path)
    BY <1>3, <1>8, <2>1
  <2>3. \A p : p # path => (Kept(p) <=> KeptNow(p))
    BY <1>1, <1>3, <1>6
  <2>4. /\ DOMAIN Without(map, path) = DOMAIN map \ {path}
        /\ \A p \in DOMAIN Without(map, path) : Without(map, path)[p] = map[p]
    BY DEF Without
  <2>5. DOMAIN Without(map, path) = {p \in HistoryPaths' : KeptNow(p)}
    <3> HIDE DEF path, Kept, KeptNow
    <3> QED BY <1>3, <1>4, <2>2, <2>3, <2>4
  <2>6. \A p \in DOMAIN Without(map, path) :
          Without(map, path)[p] = LatestOf(history', Exact(kind, p)')
    BY <1>5, <2>4
  <2> QED BY <2>5, <2>6 DEF NextTable
<1> QED BY <1>7, <1>8

\* The list of an item depends on isCORS of its binders only.
LEMMA CorsMethodsStay ==
  ASSUME NEW bs, \A x \in BoundIn(bs) : binders'[x].isCORS = binders[x].isCORS
  PROVE  CorsMethods(bs)' = CorsMethods(bs)
<1>1. {m \in Methods : bs[m] # Null /\ binders'[bs[m]].isCORS}
        = {m \in Methods : bs[m] # Null /\ binders[bs[m]].isCORS}
  BY DEF BoundIn
<1> QED BY <1>1 DEF CorsMethods

LEMMA ResolveKeeps ==
  ASSUME RouterInv, Resolve
  PROVE  RouterInv'
<1> USE DEF RouterInv
<1>0. PICK b : b = Head(loopQueue)
  OBVIOUS
<1> DEFINE found == binders[b].handler \in Classes
           path == Lowered(Literals(history[b].pattern))
<1>1. Queued' /\ b \in ByClass /\ Pending' = Pending \ {b} /\ b \in Pending
  <2>1. Queued' /\ b \in ByClass /\ Pending' = Pending \ {b}
    BY <1>0, HeadLeaves DEF Resolve
  <2>2. b \in Pending
    <3>1. loopQueue \in Seq(Elements(loopQueue)) /\ loopQueue # <<>>
      BY DEF Resolve, Queued, IsSeq
    <3>2. Len(loopQueue) \in Nat /\ Len(loopQueue) # 0 /\ b = loopQueue[1]
      BY <1>0, <3>1
    <3> QED BY <3>2 DEF Pending
  <2> QED BY <2>1, <2>2
<1>2. b \in Numbers /\ history[b].kind \in {"simple", "ws", "wsRegex"}
  BY <1>1 DEF ByClass
<1>3. /\ binders[b].handler = history[b].handler /\ binders[b].kind = history[b].kind
      /\ binders[b].path = path
  BY <1>2 DEF Recorded, AsRegistered
<1>4. Found(b)' <=> found
  BY <1>1, <1>3 DEF Found, Resolve
<1>5. /\ binders' = IF found THEN [binders EXCEPT ![b].controller = binders[b].handler]
                    ELSE binders
      /\ simpleCtrlMap' = IF ~found /\ history[b].kind = "simple"
                          THEN Without(simpleCtrlMap, path) ELSE simpleCtrlMap
      /\ wsCtrlMap' = IF ~found /\ history[b].kind = "ws"
                      THEN Without(wsCtrlMap, path) ELSE wsCtrlMap
      /\ UNCHANGED <<routing, ctrlMap, ctrlVector, wsCtrlVector, history>>
  BY <1>0, <1>3 DEF Resolve
<1> HIDE DEF found, path
<1>6. /\ IsSeq(binders') /\ Len(binders') = Len(binders)
      /\ \A i \in Numbers :
           /\ DOMAIN binders'[i] = DOMAIN binders[i]
           /\ \A f \in BinderFields \ {"controller"} : binders'[i][f] = binders[i][f]
  <2>1. DOMAIN binders = 1..Len(binders) /\ Len(binders) \in Nat /\ DOMAIN binders = Numbers
    BY RecordedNumbers DEF Recorded, Numbers
  <2>2. CASE ~found
    BY <1>5, <2>2 DEF Recorded
  <2>3. CASE found
    <3>1. binders' = [binders EXCEPT ![b] = [binders[b] EXCEPT !.controller = binders[b].handler]]
      BY <1>5, <2>3
    <3>2. IsSeq(binders') /\ Len(binders') = Len(binders)
      <4>1. binders' = [i \in 1..Len(binders) |-> binders'[i]]
        BY <2>1, <3>1
      <4> QED BY <2>1, <4>1, ComprehensionIs
    <3>3. \A i \in Numbers :
            binders'[i] = IF i = b THEN [binders[b] EXCEPT !.controller = binders[b].handler]
                          ELSE binders[i]
      BY <2>1, <3>1
    <3>4. DOMAIN binders[b] = BinderFields
      BY <1>2 DEF Recorded, AsRegistered
    <3> QED BY <3>2, <3>3, <3>4
  <2> QED BY <2>2, <2>3
<1>7. Recorded'
  <2>1. ASSUME NEW i \in Numbers PROVE AsRegistered(binders'[i], history[i])
    <3>1. AsRegistered(binders[i], history[i])
      BY DEF Recorded
    <3>2. /\ DOMAIN binders'[i] = BinderFields
          /\ binders'[i].handler = binders[i].handler
          /\ binders'[i].kind = binders[i].kind
          /\ binders'[i].types = binders[i].types
          /\ binders'[i].path = binders[i].path
          /\ binders'[i].filterNames = binders[i].filterNames
          /\ binders'[i].isCORS = binders[i].isCORS
          /\ binders'[i].places = binders[i].places
          /\ binders'[i].queryPlaces = binders[i].queryPlaces
      BY <1>6, <3>1 DEF AsRegistered, BinderFields
    <3> QED BY <3>1, <3>2 DEF AsRegistered
  <2> QED BY <1>5, <1>6, <2>1, HistoryStays DEF Recorded, AsRegistered
<1>8. Tabled(simpleCtrlMap, "simple")'
  <2>1. NextTable(simpleCtrlMap', "simple")
    BY <1>1, <1>2, <1>4, <1>5, <1>7, TableResolved DEF path
  <2> QED BY <2>1 DEF NextTable, Tabled
<1>9. Tabled(wsCtrlMap, "ws")'
  <2>1. NextTable(wsCtrlMap', "ws")
    BY <1>1, <1>2, <1>4, <1>5, <1>7, TableResolved DEF path
  <2> QED BY <2>1 DEF NextTable, Tabled
<1>10. PathTable' /\ PatternTable' /\ WsPatternTable'
  BY <1>5, PatternsStay
<1>11. Visited' \subseteq Visited
  <2>1. \A p \in DOMAIN simpleCtrlMap' :
          p \in DOMAIN simpleCtrlMap /\ simpleCtrlMap'[p] = simpleCtrlMap[p]
    BY <1>5 DEF Without
  <2>2. \A p \in DOMAIN wsCtrlMap' : p \in DOMAIN wsCtrlMap /\ wsCtrlMap'[p] = wsCtrlMap[p]
    BY <1>5 DEF Without
  <2> QED BY <1>5, <2>1, <2>2 DEF Visited
<1>12. ASSUME routing = "running", NEW bs \in Visited, NEW x \in BoundIn(bs)
       PROVE  /\ binders'[x].filters # Null
              /\ binders'[x].corsMethods = CorsMethods(bs)'
  <2>1. \A y \in BoundIn(bs) : y \in Numbers
    BY ItemOfBinder
  <2>2. \A y \in BoundIn(bs) : /\ binders'[y].isCORS = binders[y].isCORS
                               /\ binders'[y].filters = binders[y].filters
                               /\ binders'[y].corsMethods = binders[y].corsMethods
    BY <1>6, <2>1 DEF BinderFields
  <2>3. CorsMethods(bs)' = CorsMethods(bs)
    BY <2>2, CorsMethodsStay
  <2> QED BY <1>12, <2>2, <2>3 DEF Initialised
<1>13. Initialised'
  <2>1. \A bs : BoundIn(bs)' = BoundIn(bs)
    BY DEF BoundIn
  <2> QED BY <1>5, <1>11, <1>12, <2>1 DEF Initialised
<1> QED BY <1>1, <1>7, <1>8, <1>9, <1>10, <1>13

LEMMA InitRouterKeeps ==
  ASSUME RouterInv, InitRouter
  PROVE  RouterInv'
<1> USE DEF RouterInv
<1>1. /\ routing = "starting" /\ routing' = "running"
      /\ binders' = [b \in DOMAIN binders |-> InitFiltersAndCors(b)]
      /\ UNCHANGED <<routes, loopQueue, history>>
  BY DEF InitRouter
<1>2. DOMAIN binders = 1..Len(binders) /\ Len(binders) \in Nat /\ DOMAIN binders = Numbers
  BY RecordedNumbers DEF Recorded, Numbers
<1>3. IsSeq(binders') /\ Len(binders') = Len(binders)
  BY <1>1, <1>2 DEF IsSeq, Elements
<1>4. ASSUME NEW b \in Numbers
      PROVE  /\ DOMAIN binders'[b] = BinderFields
             /\ \A f \in BinderFields \ {"filters", "corsMethods"} :
                  binders'[b][f] = binders[b][f]
             /\ \A bs \in Visited :
                  b \in BoundIn(bs) =>
                    /\ binders'[b].filters # Null
                    /\ binders'[b].corsMethods = CorsMethods(bs)
  <2> DEFINE items == {bs \in Visited : b \in BoundIn(bs)}
             cors == CorsMethods(CHOOSE bs \in items : TRUE)
  <2>1. binders'[b] = IF items = {} THEN binders[b]
                      ELSE [binders[b] EXCEPT !.filters = Existing(binders[b].filterNames),
                                              !.corsMethods = cors]
    BY <1>1, <1>2 DEF InitFiltersAndCors
  <2>2. DOMAIN binders[b] = BinderFields
    BY DEF Recorded, AsRegistered
  <2>3. Existing(binders[b].filterNames) # Null
    BY RouterAssumption DEF Recorded, AsRegistered
  <2>4. \A bs \in items : bs = CHOOSE x \in items : TRUE
    BY ItemOfBinder
  <2> HIDE DEF items, cors
  <2>5. CASE items = {}
    BY <2>1, <2>2, <2>5 DEF items
  <2>6. CASE items # {}
    <3>1. /\ DOMAIN binders'[b] = BinderFields
          /\ \A f \in BinderFields \ {"filters", "corsMethods"} : binders'[b][f] = binders[b][f]
          /\ binders'[b].filters = Existing(binders[b].filterNames)
          /\ binders'[b].corsMethods = cors
      BY <2>1, <2>2, <2>6 DEF BinderFields
    <3>2. \A bs \in items : cors = CorsMethods(bs)
      BY <2>4 DEF cors
    <3> QED BY <2>3, <3>1, <3>2 DEF items
  <2> QED BY <2>5, <2>6
<1>5. Recorded'
  <2>1. ASSUME NEW i \in Numbers PROVE AsRegistered(binders'[i], history[i])
    <3>1. AsRegistered(binders[i], history[i])
      BY DEF Recorded
    <3>2. /\ DOMAIN binders'[i] = BinderFields
          /\ binders'[i].handler = binders[i].handler
          /\ binders'[i].kind = binders[i].kind
          /\ binders'[i].types = binders[i].types
          /\ binders'[i].path = binders[i].path
          /\ binders'[i].filterNames = binders[i].filterNames
          /\ binders'[i].isCORS = binders[i].isCORS
          /\ binders'[i].places = binders[i].places
          /\ binders'[i].queryPlaces = binders[i].queryPlaces
      BY <1>4, <3>1 DEF AsRegistered, BinderFields
    <3> QED BY <3>1, <3>2 DEF AsRegistered
  <2> QED BY <1>1, <1>3, <2>1, HistoryStays DEF Recorded, AsRegistered
<1>6. Queued' /\ Pending' = Pending
  BY <1>1, QueueStays
<1>7. Tabled(simpleCtrlMap, "simple")' /\ Tabled(wsCtrlMap, "ws")'
  BY <1>1, <1>6, TablesStay DEF routes
<1>8. PathTable' /\ PatternTable' /\ WsPatternTable'
  BY <1>1, PatternsStay DEF routes
<1>9. ASSUME NEW bs \in Visited, NEW x \in BoundIn(bs)
      PROVE  /\ binders'[x].filters # Null
             /\ binders'[x].corsMethods = CorsMethods(bs)'
  <2>1. \A y \in BoundIn(bs) : y \in Numbers
    BY ItemOfBinder
  <2>2. \A y \in BoundIn(bs) : binders'[y].isCORS = binders[y].isCORS
    BY <1>4, <2>1 DEF BinderFields
  <2>3. CorsMethods(bs)' = CorsMethods(bs)
    BY <2>2, CorsMethodsStay
  <2> QED BY <1>4, <2>1, <2>3
<1>10. Initialised'
  <2>1. \A bs : BoundIn(bs)' = BoundIn(bs)
    BY DEF BoundIn
  <2>2. Visited' = Visited
    BY <1>1 DEF Visited, routes
  <2> QED BY <1>9, <2>1, <2>2 DEF Initialised
<1> QED BY <1>5, <1>6, <1>7, <1>8, <1>10

LEMMA RunKeeps ==
  ASSUME RouterInv, Run
  PROVE  RouterInv'
<1>1. Pending' = Pending /\ Queued'
  BY QueueStays DEF Run, RouterInv
<1>2. Initialised'
  BY DEF Run, Initialised
<1> QED BY <1>1, <1>2, TablesStay DEF Run, RouterInv

LEMMA RouterStays ==
  ASSUME RouterInv, UNCHANGED routerVars
  PROVE  RouterInv'
<1> USE DEF routerVars
<1>1. Pending' = Pending /\ Queued'
  BY QueueStays DEF RouterInv
<1>2. Initialised'
  <2>1. Visited' = Visited
    BY DEF Visited, routes
  <2>2. \A bs : BoundIn(bs)' = BoundIn(bs) /\ CorsMethods(bs)' = CorsMethods(bs)
    BY DEF BoundIn, CorsMethods
  <2> QED BY <2>1, <2>2 DEF Initialised, RouterInv
<1> QED BY <1>1, <1>2, TablesStay DEF RouterInv

\* The invariant of the router: its tables say what its history says.
THEOREM RouterInvHolds == RouterSpec => []RouterInv
<1>1. RouterInit => RouterInv
  BY RouterStarts
<1>2. RouterInv /\ [RouterNext]_routerVars => RouterInv'
  BY RegisterKeeps, ResolveKeeps, InitRouterKeeps, RunKeeps, RouterStays DEF RouterNext
<1> QED BY <1>1, <1>2, PTL DEF RouterSpec

-----------------------------------------------------------------------------
(* What a request reaches.                                                 *)

LEMMA PathsServed ==
  ASSUME RouterInv, Serving, NEW path
  PROVE  /\ path \in DOMAIN simpleCtrlMap
              <=> Exact("simple", path) # {} /\ ~Broken(Exact("simple", path))
         /\ path \in DOMAIN ctrlMap <=> Exact("path", path) # {}
<1>1. Pending = {}
  BY DEF Serving, Pending
<1>2. \A kind : Exact(kind, path) # {} => path \in HistoryPaths
  BY ExactPaths DEF RouterInv
<1> QED BY <1>1, <1>2 DEF RouterInv, Tabled, PathTable, Found, Broken

LEMMA LatestInItem ==
  ASSUME NEW regs, NEW m \in Methods
  PROVE  LatestOf(history, regs)[m] = Latest(regs, m)
BY LatestIsLast DEF LatestOf

LEMMA LatestIsNull ==
  ASSUME Recorded, NEW regs, regs \subseteq Numbers, NEW m
  PROVE  Latest(regs, m) = Null <=> WithMethod(regs, m) = {}
<1>1. Len(history) \in Nat /\ regs \subseteq 1..Len(history)
  BY RecordedNumbers DEF Numbers
<1>2. LastIn(history, regs, m) = Null <=> WithIn(history, regs, m) = {}
  BY <1>1, LastIsOne
<1> QED BY <1>2, LatestIsLast

\* The first item that fits is that of the first registration that does.
LEMMA PatternServed ==
  ASSUME RouterInv, NEW req, req.method \in Methods
  PROVE  /\ FirstPattern(req) = 0 <=> FirstOfPattern(req) = {}
         /\ FirstPattern(req) # 0 =>
              /\ FirstPattern(req) \in 1..Len(ctrlVector)
              /\ ctrlVector[FirstPattern(req)].binders[req.method] # Null
              /\ FirstOfPattern(req) = OfPattern(ctrlVector[FirstPattern(req)].grouped)
<1> USE DEF RouterInv
<1> DEFINE N == Len(ctrlVector)
           m == req.method
           items == {k \in 1..N : /\ ctrlVector[k].binders[m] # Null
                                  /\ Matches(req.path, ctrlVector[k].grouped)}
           fits == {i \in Patterned : /\ Matches(req.path, Grouped(history[i].pattern))
                                      /\ WithMethod(SamePattern(i), m) # {}}
<1>1. DOMAIN ctrlVector = 1..N /\ N \in Nat
  BY DEF PatternTable, IsSeq
<1>2. FirstPattern(req) = IF items = {} THEN 0 ELSE Min(items)
  BY <1>1 DEF FirstPattern
<1>3. FirstOfPattern(req) = IF fits = {} THEN {} ELSE SamePattern(Min(fits))
  BY DEF FirstOfPattern
<1>4. /\ \A i : SamePattern(i) = OfPattern(Grouped(history[i].pattern))
      /\ Patterned \subseteq Numbers /\ Numbers \subseteq Nat
      /\ \A g : OfPattern(g) \subseteq Numbers
  BY ExactNumbers, RecordedNumbers DEF SamePattern, OfPattern
<1>5. \A g : LatestOf(history, OfPattern(g))[m] # Null <=> WithMethod(OfPattern(g), m) # {}
  BY <1>4, LatestInItem, LatestIsNull
<1>6. ASSUME NEW k \in 1..N
      PROVE  /\ k \in items <=> /\ WithMethod(OfPattern(ctrlVector[k].grouped), m) # {}
                                /\ Matches(req.path, ctrlVector[k].grouped)
             /\ OfPattern(ctrlVector[k].grouped) # {}
  BY <1>5 DEF PatternTable
<1>7. ASSUME NEW k \in items, NEW i \in OfPattern(ctrlVector[k].grouped)
      PROVE  i \in fits
  BY <1>4, <1>6 DEF OfPattern
<1>8. ASSUME NEW i \in fits
      PROVE  \E k \in items : i \in OfPattern(ctrlVector[k].grouped)
  <2>1. PICK k \in 1..N : ctrlVector[k].grouped = Grouped(history[i].pattern)
    BY DEF PatternTable
  <2> QED BY <1>4, <1>6, <2>1 DEF OfPattern
<1>9. \A k \in items : k \in 1..N /\ k \in Nat /\ ctrlVector[k].binders[m] # Null
  BY <1>1
<1>10. fits \subseteq Nat
  BY <1>4
<1> HIDE DEF items, fits, N, m
<1>11. items = {} <=> fits = {}
  BY <1>6, <1>7, <1>8, <1>9
<1>12. CASE items = {}
  BY <1>2, <1>3, <1>11, <1>12
<1>13. CASE items # {}
  <2>1. /\ Min(items) \in items /\ \A k \in items : Min(items) <= k
        /\ Min(fits) \in fits /\ \A i \in fits : Min(fits) <= i
    BY <1>9, <1>10, <1>11, <1>13, MinIsThere
  <2>2. PICK k \in items : Min(fits) \in OfPattern(ctrlVector[k].grouped)
    BY <1>8, <2>1
  <2>3. ~(Min(items) < k)
    <3>1. SUFFICES ASSUME Min(items) < k PROVE FALSE
      OBVIOUS
    <3>2. PICK i \in OfPattern(ctrlVector[Min(items)].grouped) : i < Min(fits)
      BY <1>9, <2>1, <2>2, <3>1 DEF PatternTable, N
    <3>3. i \in fits /\ i \in Nat /\ Min(fits) \in Nat
      BY <1>7, <1>10, <2>1, <3>2
    <3> QED BY <2>1, <3>2, <3>3
  <2>4. k = Min(items)
    BY <1>9, <2>1, <2>3
  <2>5. FirstOfPattern(req) = OfPattern(ctrlVector[k].grouped)
    BY <1>3, <1>4, <1>11, <1>13, <2>2 DEF OfPattern
  <2>6. OfPattern(ctrlVector[k].grouped) # {}
    BY <2>2
  <2>7. FirstPattern(req) = k /\ k \in 1..N /\ k # 0 /\ ctrlVector[k].binders[m] # Null
    BY <1>2, <1>9, <1>13, <2>4
  <2> QED BY <2>5, <2>6, <2>7 DEF N, m
<1> QED BY <1>12, <1>13

\* Every HTTP request reaches the handler its registrations mean.
LEMMA RoutesServed ==
  ASSUME RouterInv
  PROVE  RoutesAsRegistered
<1> USE DEF RouterInv
<1> SUFFICES ASSUME Serving, NEW req \in RoutedRequests
             PROVE  /\ route(req).binder = Reached(req)
                    /\ route(req).result = (IF Reached(req) # Null THEN "Success"
                                            ELSE IF Known(req) THEN "MethodNotAllowed"
                                            ELSE "NotFound")
  BY DEF RoutesAsRegistered
<1> DEFINE path == Lowered(req.path)
           simple == Exact("simple", path)
           exact == Exact("path", path)
           i == FirstPattern(req)
           bs == ctrlVector[i].binders
<1>1. req.method \in Methods
  BY RouterAssumption
<1>2. ASSUME NEW item, NEW matched, NEW params, NEW regs, item = LatestOf(history, regs)
      PROVE  /\ AtItem(item, req, matched, params).binder = Latest(regs, req.method)
             /\ AtItem(item, req, matched, params).result
                  = IF Latest(regs, req.method) # Null THEN "Success" ELSE "MethodNotAllowed"
  BY <1>1, <1>2, LatestInItem DEF AtItem, Outcome
<1>3. CASE path \in DOMAIN simpleCtrlMap
  <2>1. simple # {} /\ ~Broken(simple)
    BY <1>3, PathsServed
  <2>2. Reached(req) = Latest(simple, req.method) /\ Known(req)
    BY <2>1 DEF Reached, Known
  <2>3. route(req) = AtItem(simpleCtrlMap[path], req, Spelled(path), <<>>)
    BY <1>3 DEF route
  <2>4. simpleCtrlMap[path] = LatestOf(history, simple)
    BY <1>3 DEF Tabled
  <2> QED BY <1>2, <2>2, <2>3, <2>4
<1>4. CASE path \notin DOMAIN simpleCtrlMap /\ path \in DOMAIN ctrlMap
  <2>1. ~(simple # {} /\ ~Broken(simple)) /\ exact # {}
    BY <1>4, PathsServed
  <2>2. Reached(req) = Latest(exact, req.method) /\ Known(req)
    BY <2>1 DEF Reached, Known
  <2>3. \E matched, params : route(req) = AtItem(ctrlMap[path].binders, req, matched, params)
    BY <1>4 DEF route
  <2>4. ctrlMap[path].binders = LatestOf(history, exact)
    BY <1>4 DEF PathTable
  <2> QED BY <1>2, <2>2, <2>3, <2>4
<1>5. CASE path \notin DOMAIN simpleCtrlMap /\ path \notin DOMAIN ctrlMap
  <2>1. ~(simple # {} /\ ~Broken(simple)) /\ exact = {}
    BY <1>5, PathsServed
  <2>2. CASE i = 0
    <3>1. FirstOfPattern(req) = {}
      BY <1>1, <2>2, PatternServed
    <3>2. Reached(req) = Null /\ ~Known(req)
      BY <2>1, <3>1 DEF Reached, Known
    <3>3. route(req) = NotFound
      BY <1>5, <2>2 DEF route
    <3> QED BY <3>2, <3>3 DEF NotFound, Outcome
  <2>3. CASE i # 0
    <3> DEFINE regs == OfPattern(ctrlVector[i].grouped)
    <3>1. i \in 1..Len(ctrlVector) /\ FirstOfPattern(req) = regs /\ FirstOfPattern(req) # {}
      BY <1>1, <2>3, PatternServed
    <3>2. Reached(req) = Latest(regs, req.method) /\ Known(req)
      BY <2>1, <3>1 DEF Reached, Known
    <3>3. \E matched, params : route(req) = AtItem(bs, req, matched, params)
      BY <1>5, <2>3 DEF route
    <3>4. bs = LatestOf(history, regs)
      BY <3>1 DEF PatternTable
    <3> HIDE DEF i, bs, regs
    <3> QED BY <1>2, <3>2, <3>3, <3>4
  <2> QED BY <2>2, <2>3
<1> QED BY <1>3, <1>4, <1>5

-----------------------------------------------------------------------------
(* The preflight, the list of handlers and the filters.                    *)

LEMMA FirstInside ==
  ASSUME RouterInv, NEW req, req.method \in Methods, FirstPattern(req) # 0
  PROVE  FirstPattern(req) \in DOMAIN ctrlVector
<1>1. DOMAIN ctrlVector = 1..Len(ctrlVector)
  BY DEF RouterInv, PatternTable, IsSeq
<1> QED BY <1>1, PatternServed

LEMMA Listed ==
  ASSUME NEW m \in Methods
  PROVE  /\ \A p \in DOMAIN simpleCtrlMap :
              simpleCtrlMap[p][m] # Null => <<Spelled(p), m>> \in HandlersInfo
         /\ \A p \in DOMAIN wsCtrlMap :
              wsCtrlMap[p][m] # Null => <<Spelled(p), m>> \in HandlersInfo
         /\ \A p \in DOMAIN ctrlMap :
              ctrlMap[p].binders[m] # Null => <<ctrlMap[p].pattern, m>> \in HandlersInfo
         /\ \A i \in DOMAIN ctrlVector :
              ctrlVector[i].binders[m] # Null => <<ctrlVector[i].pattern, m>> \in HandlersInfo
<1> DEFINE Of(path, bs) == {<<path, k>> : k \in {j \in Methods : bs[j] # Null}}
           ofSimple == {Of(Spelled(p), simpleCtrlMap[p]) : p \in DOMAIN simpleCtrlMap}
           ofWs == {Of(Spelled(p), wsCtrlMap[p]) : p \in DOMAIN wsCtrlMap}
           ofVector == {Of(ctrlVector[i].pattern, ctrlVector[i].binders) :
                          i \in DOMAIN ctrlVector}
           ofPath == {Of(ctrlMap[p].pattern, ctrlMap[p].binders) : p \in DOMAIN ctrlMap}
<1>1. HandlersInfo = UNION (ofSimple \cup ofWs \cup ofVector \cup ofPath)
  BY DEF HandlersInfo
<1>2. \A path, bs : bs[m] # Null => <<path, m>> \in Of(path, bs)
  OBVIOUS
<1>3. /\ \A p \in DOMAIN simpleCtrlMap : Of(Spelled(p), simpleCtrlMap[p]) \in ofSimple
      /\ \A p \in DOMAIN wsCtrlMap : Of(Spelled(p), wsCtrlMap[p]) \in ofWs
      /\ \A i \in DOMAIN ctrlVector :
           Of(ctrlVector[i].pattern, ctrlVector[i].binders) \in ofVector
      /\ \A p \in DOMAIN ctrlMap : Of(ctrlMap[p].pattern, ctrlMap[p].binders) \in ofPath
  <2> HIDE DEF Of
  <2> QED OBVIOUS
<1> HIDE DEF Of, ofSimple, ofWs, ofVector, ofPath
<1> QED BY <1>1, <1>2, <1>3

\* What route answers with is in an item that init has visited and that is listed.
LEMMA HttpServed ==
  ASSUME RouterInv, NEW req, req.method \in Methods, route(req).result = "Success"
  PROVE  /\ \E bs \in Visited : /\ route(req).binder = bs[req.method]
                                /\ route(req).binder \in BoundIn(bs)
         /\ <<route(req).matched, req.method>> \in HandlersInfo
<1> DEFINE path == Lowered(req.path)
           i == FirstPattern(req)
           m == req.method
<1>1. ASSUME NEW bs, NEW matched, NEW params, route(req) = AtItem(bs, req, matched, params)
      PROVE  /\ route(req).binder = bs[m] /\ bs[m] # Null /\ route(req).matched = matched
             /\ route(req).binder \in BoundIn(bs)
  BY <1>1 DEF AtItem, Outcome, BoundIn
<1>2. CASE path \in DOMAIN simpleCtrlMap
  <2>1. route(req) = AtItem(simpleCtrlMap[path], req, Spelled(path), <<>>)
    BY <1>2 DEF route
  <2>2. simpleCtrlMap[path] \in Visited
    BY <1>2 DEF Visited
  <2>3. simpleCtrlMap[path][m] # Null => <<Spelled(path), m>> \in HandlersInfo
    BY <1>2, Listed
  <2> QED BY <1>1, <2>1, <2>2, <2>3
<1>3. CASE path \notin DOMAIN simpleCtrlMap /\ path \in DOMAIN ctrlMap
  <2>1. \E params : route(req) = AtItem(ctrlMap[path].binders, req, ctrlMap[path].pattern, params)
    BY <1>3 DEF route
  <2>2. ctrlMap[path].binders \in Visited
    BY <1>3 DEF Visited
  <2>3. ctrlMap[path].binders[m] # Null => <<ctrlMap[path].pattern, m>> \in HandlersInfo
    BY <1>3, Listed
  <2> QED BY <1>1, <2>1, <2>2, <2>3
<1>4. CASE path \notin DOMAIN simpleCtrlMap /\ path \notin DOMAIN ctrlMap /\ i # 0
  <2>1. \E params : route(req) = AtItem(ctrlVector[i].binders, req, ctrlVector[i].pattern, params)
    BY <1>4 DEF route
  <2>2. i \in DOMAIN ctrlVector
    BY <1>4, FirstInside
  <2> HIDE DEF i
  <2>3. ctrlVector[i].binders \in Visited
    BY <2>2 DEF Visited
  <2>4. ctrlVector[i].binders[m] # Null => <<ctrlVector[i].pattern, m>> \in HandlersInfo
    BY <2>2, Listed
  <2> QED BY <1>1, <2>1, <2>3, <2>4
<1>5. CASE path \notin DOMAIN simpleCtrlMap /\ path \notin DOMAIN ctrlMap /\ i = 0
  <2>1. route(req) = NotFound
    BY <1>5 DEF route
  <2> QED BY <2>1 DEF NotFound, Outcome
<1> QED BY <1>2, <1>3, <1>4, <1>5

\* A WebSocket request reaches such an item, or a pattern.
LEMMA WsServed ==
  ASSUME RouterInv, NEW req, req.method \in Methods, routeWs(req).result = "Success"
  PROVE  \/ \E bs \in Visited : /\ routeWs(req).binder = bs[req.method]
                                /\ routeWs(req).binder \in BoundIn(bs)
                                /\ routeWs(req).binder \in Exact("ws", Lowered(req.path))
                                /\ <<routeWs(req).matched, req.method>> \in HandlersInfo
         \/ history[routeWs(req).binder].kind = "wsRegex"
<1> USE DEF RouterInv
<1> DEFINE path == Lowered(req.path)
           m == req.method
           fits == {i \in DOMAIN wsCtrlVector : MatchesExactly(req.path, wsCtrlVector[i].pattern)}
<1>1. ASSUME NEW bs, NEW matched, NEW params, routeWs(req) = AtItem(bs, req, matched, params)
      PROVE  /\ routeWs(req).binder = bs[m] /\ bs[m] # Null /\ routeWs(req).matched = matched
             /\ routeWs(req).binder \in BoundIn(bs)
  BY <1>1 DEF AtItem, Outcome, BoundIn
<1>2. req.wsKey /\ (path \in DOMAIN wsCtrlMap \/ fits # {})
  BY DEF routeWs, NotFound, Outcome
<1>3. CASE path \in DOMAIN wsCtrlMap
  <2>1. routeWs(req) = AtItem(wsCtrlMap[path], req, Spelled(path), <<>>)
    BY <1>2, <1>3 DEF routeWs
  <2>2. wsCtrlMap[path] \in Visited /\ wsCtrlMap[path] = LatestOf(history, Exact("ws", path))
    BY <1>3 DEF Visited, Tabled
  <2>3. wsCtrlMap[path][m] # Null => <<Spelled(path), m>> \in HandlersInfo
    BY <1>3, Listed
  <2>4. wsCtrlMap[path][m] # Null => wsCtrlMap[path][m] \in Exact("ws", path)
    BY <2>2, ExactNumbers, LatestOnes
  <2> QED BY <1>1, <2>1, <2>2, <2>3, <2>4
<1>4. CASE path \notin DOMAIN wsCtrlMap
  <2>1. /\ DOMAIN wsCtrlVector = 1..Len(wsCtrlVector) /\ Len(wsCtrlVector) \in Nat
        /\ fits # {}
    BY <1>2, <1>4 DEF WsPatternTable, IsSeq
  <2>2. fits \subseteq Nat
    BY <2>1
  <2>3. Min(fits) \in fits
    BY <2>1, <2>2, MinIsThere
  <2>4. Min(fits) \in 1..Len(wsCtrlVector)
    BY <2>1, <2>3
  <2>5. \E matched, params :
          routeWs(req) = AtItem(wsCtrlVector[Min(fits)].binders, req, matched, params)
    BY <1>2, <1>4 DEF routeWs
  <2> HIDE DEF fits
  <2> QED BY <1>1, <2>4, <2>5 DEF WsPatternTable
<1> QED BY <1>3, <1>4

\* A preflight lists the methods of the item it has matched.
LEMMA CorsServed ==
  ASSUME RouterInv
  PROVE  CorsExact
<1> SUFFICES ASSUME Serving, NEW req \in RoutedRequests, route(req).result = "Success"
             PROVE  LET b == route(req).binder
                        Of(m) == Latest(TogetherWith(b), m)
                        listed == {m \in Methods :
                                     Of(m) # Null /\ "options" \in Bound(history[Of(m)])}
                    IN  binders[b].corsMethods =
                          {"options"} \cup listed
                            \cup (IF "get" \in listed THEN {"head"} ELSE {})
  BY DEF CorsExact
<1>1. PICK bs \in Visited : route(req).binder \in BoundIn(bs)
  BY RouterAssumption, HttpServed
<1> DEFINE b == route(req).binder
           Of(m) == Latest(TogetherWith(b), m)
<1>2. b \in Numbers /\ bs = LatestOf(history, TogetherWith(b))
  BY <1>1, ItemOfBinder
<1>3. \A m \in Methods : bs[m] = Of(m)
  BY <1>2, LatestInItem
<1>4. binders[b].corsMethods = CorsMethods(bs)
  BY <1>1 DEF RouterInv, Initialised, Serving
<1>5. ASSUME NEW m \in Methods, bs[m] # Null
      PROVE  binders[bs[m]].isCORS <=> "options" \in Bound(history[bs[m]])
  <2>1. bs[m] \in BoundIn(bs)
    BY <1>5 DEF BoundIn
  <2>2. bs[m] \in Numbers
    BY <2>1, ItemOfBinder
  <2> QED BY <2>2 DEF RouterInv, Recorded, AsRegistered
<1>6. {m \in Methods : bs[m] # Null /\ binders[bs[m]].isCORS}
        = {m \in Methods : Of(m) # Null /\ "options" \in Bound(history[Of(m)])}
  BY <1>3, <1>5
<1> QED BY <1>4, <1>6 DEF CorsMethods

\* What is routed is listed, and its filters are there.
LEMMA ListServed ==
  ASSUME RouterInv
  PROVE  ListedAndFiltered
<1> SUFFICES ASSUME Serving, NEW req \in RoutedRequests, Routed(req).result = "Success",
                    history[Routed(req).binder].kind # "wsRegex"
             PROVE  /\ <<Routed(req).matched, req.method>> \in HandlersInfo
                    /\ binders[Routed(req).binder].filters # Null
  BY DEF ListedAndFiltered
<1>1. \E bs \in Visited : Routed(req).binder \in BoundIn(bs)
  BY RouterAssumption, HttpServed, WsServed DEF Routed
<1>2. <<Routed(req).matched, req.method>> \in HandlersInfo
  BY RouterAssumption, HttpServed, WsServed DEF Routed
<1> QED BY <1>1, <1>2 DEF RouterInv, Initialised, Serving

-----------------------------------------------------------------------------
(* The arguments.                                                          *)

\* Of finitely many numbers there is one after as many of them as one likes.
LEMMA Counted ==
  ASSUME NEW n \in Nat, NEW P, P \subseteq 1..n, NEW j \in 1..Cardinality(P)
  PROVE  /\ Cardinality(P) \in Nat
         /\ \E i \in P : Cardinality({k \in P : k < i}) = j - 1
<1> DEFINE Below(i) == {k \in P : k < i}
           C == Cardinality(P)
           S == {m \in 0..C : m < C => \E i \in P : Cardinality(Below(i)) = m}
<1>1. /\ IsFiniteSet(P) /\ C \in Nat /\ P \subseteq Nat
      /\ \A Q : Q \subseteq P => IsFiniteSet(Q) /\ Cardinality(Q) \in Nat /\ Cardinality(Q) <= C
  <2>1. IsFiniteSet(1..n)
    BY FS_Interval
  <2>2. IsFiniteSet(P)
    BY <2>1, FS_Subset
  <2> QED BY <2>2, FS_Subset, FS_CardinalityType
<1>2. 0 \in S
  <2>1. SUFFICES ASSUME 0 < C PROVE \E i \in P : Cardinality(Below(i)) = 0
    BY <1>1
  <2>2. P # {}
    BY <2>1, FS_EmptySet
  <2>3. PICK i \in P : \A k \in P : i <= k
    BY <1>1, <2>2, LeastNumber
  <2>4. Below(i) = {}
    <3>1. \A k \in P : ~(k < i)
      BY <1>1, <2>3
    <3> QED BY <3>1
  <2> QED BY <2>4, FS_EmptySet
<1>3. ASSUME NEW m \in 0..(C - 1), m \in S PROVE m + 1 \in S
  <2>1. SUFFICES ASSUME m + 1 < C PROVE \E i \in P : Cardinality(Below(i)) = m + 1
    BY <1>1
  <2>2. PICK i \in P : Cardinality(Below(i)) = m
    BY <1>1, <1>3, <2>1
  <2> DEFINE Q == Below(i) \cup {i}
             R == P \ Q
  <2>3. Cardinality(Q) = m + 1 /\ Q \subseteq P
    <3>1. i \notin Below(i) /\ Below(i) \subseteq P
      BY <1>1
    <3> QED BY <1>1, <2>2, <3>1, FS_AddElement
  <2>4. R # {}
    <3>1. Q # P
      BY <1>1, <2>1, <2>3
    <3> QED BY <2>3, <3>1
  <2>5. PICK l \in R : \A k \in R : l <= k
    BY <1>1, <2>4, LeastNumber
  <2>6. Below(l) = Q
    <3>1. ASSUME NEW k \in P PROVE k < l <=> k \in Q
      <4>1. k \in Nat /\ i \in Nat /\ l \in P /\ l \in Nat /\ l # i /\ ~(l < i)
        BY <1>1, <2>5
      <4>2. k \notin Q => l <= k
        BY <2>5
      <4> QED BY <4>1, <4>2
    <3> QED BY <2>3, <3>1
  <2> QED BY <2>3, <2>5, <2>6
<1>4. \A m \in 0..C : m \in S
  <2> HIDE DEF S, C
  <2> QED BY <1>1, <1>2, <1>3, UpToInduction
<1>5. j - 1 \in S /\ j - 1 < C
  BY <1>1, <1>4
<1> QED BY <1>1, <1>5

\* The placeholders of a pattern are segments of it, as many as its groups.
LEMMA HoldersThere ==
  ASSUME NEW pattern \in Seq(Segment)
  PROVE  /\ IsSeq(Holders(pattern))
         /\ \A j \in 1..Len(Holders(pattern)) : Holders(pattern)[j] \in Segment
         /\ HolderAt(Grouped(pattern)) = HolderAt(pattern)
         /\ DOMAIN HolderAt(pattern) = 1..Len(Holders(pattern))
         /\ \A path : DOMAIN Groups(path, Grouped(pattern)) = 1..Len(Holders(pattern))
<1> DEFINE P == {i \in DOMAIN pattern : IsHolder(pattern[i])}
           C == Cardinality(P)
<1>1. DOMAIN pattern = 1..Len(pattern) /\ Len(pattern) \in Nat /\ P \subseteq 1..Len(pattern)
  OBVIOUS
<1>2. C \in Nat
  <2>1. IsFiniteSet(1..Len(pattern))
    BY <1>1, FS_Interval
  <2>2. IsFiniteSet(P)
    BY <1>1, <2>1, FS_Subset
  <2> QED BY <2>2, FS_CardinalityType
<1>3. HolderAt(pattern) = [j \in 1..C |-> CHOOSE i \in P : Cardinality({k \in P : k < i}) = j - 1]
  BY DEF HolderAt
<1>4. ASSUME NEW j \in 1..C PROVE HolderAt(pattern)[j] \in P
  BY <1>1, <1>3, Counted
<1>5. Holders(pattern) = [j \in 1..C |-> pattern[HolderAt(pattern)[j]]]
  BY <1>3 DEF Holders
<1>6. IsSeq(Holders(pattern)) /\ Len(Holders(pattern)) = C
  <2> DEFINE f == [j \in 1..C |-> pattern[HolderAt(pattern)[j]]]
  <2>1. Holders(pattern) = [j \in 1..C |-> f[j]]
    BY <1>5
  <2> HIDE DEF f, C
  <2> QED BY <1>2, <2>1, ComprehensionIs
<1>7. \A j \in 1..C : Holders(pattern)[j] \in Segment
  BY <1>4, <1>5
<1>8. HolderAt(Grouped(pattern)) = HolderAt(pattern)
  <2>1. DOMAIN Grouped(pattern) = DOMAIN pattern
    BY DEF Grouped
  <2>2. \A i \in DOMAIN pattern : IsHolder(Grouped(pattern)[i]) <=> IsHolder(pattern[i])
    BY DEF Grouped, IsHolder
  <2> DEFINE G == {i \in DOMAIN Grouped(pattern) : IsHolder(Grouped(pattern)[i])}
  <2>3. G = P
    BY <2>1, <2>2
  <2>4. HolderAt(Grouped(pattern))
          = [j \in 1..Cardinality(G) |-> CHOOSE i \in G : Cardinality({k \in G : k < i}) = j - 1]
    BY DEF HolderAt
  <2> HIDE DEF G, P
  <2> QED BY <1>3, <2>3, <2>4
<1>9. DOMAIN HolderAt(pattern) = 1..C
  BY <1>3
<1> QED BY <1>6, <1>7, <1>8, <1>9 DEF Groups

\* The placeholders of a handler, and the place of each.
AllOf(reg) == Holders(reg.pattern) \o reg.query
PlaceAt(reg, j) == IF AllOf(reg)[j].place > 0 THEN AllOf(reg)[j].place ELSE j
InPath(reg) == Len(Holders(reg.pattern))
InQuery(reg) == Len(reg.query)

LEMMA AllThere ==
  ASSUME NEW reg \in Registrations
  PROVE  /\ IsSeq(AllOf(reg)) /\ InPath(reg) \in Nat /\ InQuery(reg) \in Nat
         /\ DOMAIN AllOf(reg) = 1..(InPath(reg) + InQuery(reg))
         /\ Len(AllOf(reg)) = InPath(reg) + InQuery(reg)
         /\ DOMAIN Holders(reg.pattern) = 1..InPath(reg)
         /\ DOMAIN reg.query = 1..InQuery(reg)
         /\ \A j \in 1..InPath(reg) : AllOf(reg)[j] = Holders(reg.pattern)[j]
         /\ \A j \in 1..InQuery(reg) : AllOf(reg)[InPath(reg) + j] = reg.query[j]
         /\ \A j \in DOMAIN AllOf(reg) : AllOf(reg)[j] \in Segment
         /\ Len(reg.types) \in Nat /\ DOMAIN reg.types = 1..Len(reg.types)
<1> DEFINE H == Holders(reg.pattern)
           all == AllOf(reg)
<1>1. /\ reg.pattern \in Seq(Segment) /\ reg.query \in Seq(Segment)
      /\ reg.types \in Seq(DOMAIN Convert)
  BY RouterAssumption
<1>2. IsSeq(H) /\ \A j \in 1..Len(H) : H[j] \in Segment
  BY <1>1, HoldersThere
<1>3. IsSeq(reg.query) /\ DOMAIN reg.query = 1..Len(reg.query)
  BY <1>1, SeqIsSeq
<1>4. DOMAIN H = 1..Len(H)
  BY <1>2 DEF IsSeq
<1> HIDE DEF H
<1>5. /\ IsSeq(all) /\ Len(H) \in Nat /\ Len(reg.query) \in Nat
      /\ Len(all) = Len(H) + Len(reg.query)
      /\ \A i \in 1..Len(H) : all[i] = H[i]
      /\ \A i \in 1..Len(reg.query) : all[Len(H) + i] = reg.query[i]
  <2>1. all = H \o reg.query
    BY DEF AllOf, H
  <2> HIDE DEF all
  <2> QED BY <1>2, <1>3, <2>1, ConcatIs
<1> HIDE DEF all
<1>6. DOMAIN all = 1..(Len(H) + Len(reg.query))
  BY <1>5 DEF IsSeq
<1>7. ASSUME NEW j \in DOMAIN all PROVE all[j] \in Segment
  <2>1. CASE j \in 1..Len(H)
    BY <1>2, <1>5, <2>1
  <2>2. CASE j \notin 1..Len(H)
    <3>1. j - Len(H) \in 1..Len(reg.query) /\ j = Len(H) + (j - Len(H))
      BY <1>5, <1>6, <2>2
    <3>2. PICK k \in 1..Len(reg.query) : j = Len(H) + k
      BY <3>1
    <3>3. reg.query[k] \in Segment
      BY <1>1
    <3> QED BY <1>5, <3>2, <3>3
  <2> QED BY <2>1, <2>2
<1>8. Len(reg.types) \in Nat /\ DOMAIN reg.types = 1..Len(reg.types)
  BY <1>1
<1> QED BY <1>3, <1>4, <1>5, <1>6, <1>7, <1>8 DEF H, all, InPath, InQuery

\* The numbers of the places are different, and none is too large.
LEMMA PlacesInRange ==
  ASSUME NEW reg \in Registrations, ~PlacesBad(reg)
  PROVE  /\ \A j \in DOMAIN AllOf(reg) :
              /\ PlaceAt(reg, j) \in Nat
              /\ PlaceAt(reg, j) <= Len(reg.types) + Len(AllOf(reg))
         /\ \A j, k \in DOMAIN AllOf(reg) : PlaceAt(reg, j) = PlaceAt(reg, k) => j = k
         /\ Places(AllOf(reg)) = [j \in DOMAIN AllOf(reg) |-> PlaceAt(reg, j)]
         /\ Places(Holders(reg.pattern)) = [j \in 1..InPath(reg) |-> PlaceAt(reg, j)]
<1> DEFINE all == AllOf(reg)
<1>1. /\ \A h \in Range(all) : ~(h.place > Len(reg.types))
      /\ IsInjective(Places(all))
  BY DEF PlacesBad, AllOf
<1>2. Places(all) = [j \in DOMAIN all |-> PlaceAt(reg, j)]
  BY DEF Places, PlaceAt
<1>3. Places(Holders(reg.pattern)) = [j \in 1..InPath(reg) |-> PlaceAt(reg, j)]
  BY AllThere DEF Places, PlaceAt
<1>4. \A j, k \in DOMAIN all : PlaceAt(reg, j) = PlaceAt(reg, k) => j = k
  BY <1>1, <1>2 DEF IsInjective
<1>5. ASSUME NEW j \in DOMAIN all
      PROVE  PlaceAt(reg, j) \in Nat /\ PlaceAt(reg, j) <= Len(reg.types) + Len(all)
  <2>1. /\ Len(reg.types) \in Nat /\ Len(all) \in Nat /\ DOMAIN all = 1..Len(all)
        /\ all[j].place \in Int
    BY AllThere DEF Segment
  <2>2. all[j].place <= Len(reg.types)
    BY <1>1, <2>1 DEF Range
  <2>3. j \in Nat /\ j <= Len(all)
    BY <2>1
  <2> QED BY <2>1, <2>2, <2>3 DEF PlaceAt
<1> QED BY <1>2, <1>3, <1>4, <1>5

\* The registration reg of the binder b has a group for each placeholder of its path.
Grouping(b, reg, groups) ==
  /\ b \in Numbers /\ reg = history[b] /\ reg.kind = "path"
  /\ DOMAIN groups = 1..InPath(reg)

\* What the j-th placeholder stands for is at its place.
LEMMA ParamsInPlace ==
  ASSUME Recorded, NEW b, NEW reg, NEW groups, NEW query, Grouping(b, reg, groups)
  PROVE  /\ Len(Params(b, groups, query)) \in Nat
         /\ \A j \in DOMAIN AllOf(reg) :
              PlaceAt(reg, j) \in 1..Len(Params(b, groups, query)) =>
                Params(b, groups, query)[PlaceAt(reg, j)]
                  = IF j <= InPath(reg) THEN groups[j] ELSE query[AllOf(reg)[j].name]
<1> DEFINE H == InPath(reg)
           Q == InQuery(reg)
           all == AllOf(reg)
           bound == Len(reg.types) + Len(all)
           placeOf(j) == IF j <= Len(binders[b].places) THEN binders[b].places[j] ELSE j
           byPath == {<<placeOf(j), groups[j]>> : j \in DOMAIN groups}
           byQuery == {<<q.place, query[q.name]>> : q \in Range(binders[b].queryPlaces)}
           filled == {p[1] : p \in byPath \cup byQuery} \cup {0}
           size == Max(filled)
           Value(n, pairs) == (CHOOSE p \in pairs : p[1] = n)[2]
           Filled(pairs) == {p[1] : p \in pairs}
           P == Params(b, groups, query)
<1> USE DEF Grouping
<1>1. /\ reg \in Registrations /\ ~PlacesBad(reg)
      /\ binders[b].places = Binder(reg).places
      /\ binders[b].queryPlaces = Binder(reg).queryPlaces
  BY DEF Recorded, AsRegistered
<1>2. /\ H \in Nat /\ Q \in Nat /\ DOMAIN all = 1..(H + Q) /\ Len(all) = H + Q
      /\ DOMAIN reg.query = 1..Q /\ Len(reg.types) \in Nat
      /\ \A j \in 1..Q : all[H + j] = reg.query[j]
  BY <1>1, AllThere
<1>3. /\ \A j \in DOMAIN all : PlaceAt(reg, j) \in Nat /\ PlaceAt(reg, j) <= bound
      /\ \A j, k \in DOMAIN all : PlaceAt(reg, j) = PlaceAt(reg, k) => j = k
      /\ Places(all) = [j \in DOMAIN all |-> PlaceAt(reg, j)]
      /\ Places(Holders(reg.pattern)) = [j \in 1..H |-> PlaceAt(reg, j)]
  BY <1>1, PlacesInRange
<1>4. binders[b].places = [j \in 1..H |-> PlaceAt(reg, j)] /\ Len(binders[b].places) = H
  <2>1. binders[b].places = Places(Holders(reg.pattern))
    BY <1>1 DEF Binder
  <2> QED BY <1>2, <1>3, <2>1
<1>5. binders[b].queryPlaces
        = [j \in 1..Q |-> [name |-> reg.query[j].name, place |-> PlaceAt(reg, H + j)]]
  <2>1. binders[b].queryPlaces
          = [j \in DOMAIN reg.query |-> [name |-> reg.query[j].name, place |-> Places(all)[H + j]]]
    BY <1>1 DEF Binder, AllOf, InPath
  <2>2. \A j \in 1..Q : H + j \in DOMAIN all
    BY <1>2
  <2>3. \A j \in 1..Q : Places(all)[H + j] = PlaceAt(reg, H + j)
    BY <1>3, <2>2
  <2> QED BY <1>2, <2>1, <2>3
<1>6. P = [n \in 1..size |-> IF n \in Filled(byQuery) THEN Value(n, byQuery)
                             ELSE IF n \in Filled(byPath) THEN Value(n, byPath)
                             ELSE ""]
  BY DEF Params
<1>7. byPath = {<<PlaceAt(reg, j), groups[j]>> : j \in 1..H}
  <2>1. \A j \in 1..H : placeOf(j) = PlaceAt(reg, j)
    BY <1>2, <1>4
  <2>2. DOMAIN groups = 1..H
    OBVIOUS
  <2> HIDE DEF placeOf, H
  <2> QED BY <2>1, <2>2
<1>8. byQuery = {<<PlaceAt(reg, H + j), query[reg.query[j].name]>> : j \in 1..Q}
  <2> DEFINE QP == binders[b].queryPlaces
  <2>1. DOMAIN QP = 1..Q
    BY <1>5
  <2>2. \A j \in 1..Q : /\ QP[j].place = PlaceAt(reg, H + j)
                         /\ QP[j].name = reg.query[j].name
    BY <1>5
  <2>3. byQuery = {<<q.place, query[q.name]>> : q \in {QP[j] : j \in DOMAIN QP}}
    BY DEF Range
  <2> HIDE DEF QP, byQuery, Q, H
  <2> QED BY <2>1, <2>2, <2>3
<1> HIDE DEF byPath, byQuery, P, size
<1>9. DOMAIN all = 1..H \cup {H + j : j \in 1..Q}
  <2> HIDE DEF all, H, Q
  <2>1. ASSUME NEW i \in 1..(H + Q), i \notin 1..H PROVE \E j \in 1..Q : i = H + j
    <3>1. i - H \in 1..Q /\ i = H + (i - H)
      BY <1>2, <2>1
    <3> QED BY <3>1
  <2>2. (\A i \in 1..H : i \in 1..(H + Q)) /\ (\A j \in 1..Q : H + j \in 1..(H + Q))
    BY <1>2
  <2> QED BY <1>2, <2>1, <2>2
<1> HIDE DEF all, H, Q
<1>10. size \in Nat
  <2>1. bound \in Nat
    <3>1. Len(reg.types) \in Nat /\ Len(all) \in Nat
      BY <1>2
    <3> QED BY <3>1
  <2> HIDE DEF bound
  <2>2. /\ \A j \in 1..H : PlaceAt(reg, j) \in 0..bound
        /\ \A j \in 1..Q : PlaceAt(reg, H + j) \in 0..bound
    BY <1>3, <1>9, <2>1
  <2>3. \A p \in byPath \cup byQuery : p[1] \in 0..bound
    BY <1>7, <1>8, <2>2
  <2>4. filled \subseteq 0..bound /\ filled # {}
    BY <2>1, <2>3
  <2> HIDE DEF filled
  <2>5. size \in filled
    BY <2>1, <2>4, MaxIsThere DEF size
  <2> QED BY <2>4, <2>5
<1>11. Len(P) = size /\ DOMAIN P = 1..size
  <2> DEFINE V(n) == IF n \in Filled(byQuery) THEN Value(n, byQuery)
                     ELSE IF n \in Filled(byPath) THEN Value(n, byPath) ELSE ""
  <2>1. P = [n \in 1..size |-> V(n)]
    BY <1>6
  <2> HIDE DEF V
  <2> QED BY <1>10, <2>1
<1>12. ASSUME NEW j \in 1..Q, NEW n, n = PlaceAt(reg, H + j), n \in 1..size
       PROVE  P[n] = query[reg.query[j].name]
  <2>1. \A k \in 1..Q : PlaceAt(reg, H + k) = n => k = j
    <3>1. \A k \in 1..Q : H + k \in DOMAIN all /\ (H + k = H + j => k = j)
      BY <1>2, <1>9
    <3> QED BY <1>3, <1>12, <3>1
  <2>2. \A p \in byQuery : p[1] = n => p[2] = query[reg.query[j].name]
    BY <1>8, <2>1
  <2>3. <<n, query[reg.query[j].name]>> \in byQuery
    BY <1>8, <1>12
  <2>4. Value(n, byQuery) = query[reg.query[j].name]
    <3>1. \E p \in byQuery : p[1] = n
      BY <2>3
    <3> QED BY <2>2, <3>1
  <2>5. n \in Filled(byQuery)
    BY <2>3
  <2> QED BY <1>6, <1>12, <2>4, <2>5
<1>13. ASSUME NEW j \in 1..H, NEW n, n = PlaceAt(reg, j), n \in 1..size
       PROVE  P[n] = groups[j]
  <2>1. /\ \A k \in 1..H : PlaceAt(reg, k) = n => k = j
        /\ \A k \in 1..Q : PlaceAt(reg, H + k) # n
    <3>1. /\ \A k \in 1..Q : H + k \in DOMAIN all /\ H + k # j
          /\ \A k \in 1..H : k \in DOMAIN all
      BY <1>2, <1>9
    <3> QED BY <1>3, <1>13, <3>1
  <2>2. \A p \in byQuery : p[1] # n
    BY <1>8, <2>1
  <2>3. \A p \in byPath : p[1] = n => p[2] = groups[j]
    BY <1>7, <2>1
  <2>4. <<n, groups[j]>> \in byPath
    BY <1>7, <1>13
  <2>5. Value(n, byPath) = groups[j]
    <3>1. \E p \in byPath : p[1] = n
      BY <2>4
    <3> QED BY <2>3, <3>1
  <2>6. n \notin Filled(byQuery) /\ n \in Filled(byPath)
    BY <2>2, <2>4
  <2> QED BY <1>6, <1>13, <2>5, <2>6
<1>14. ASSUME NEW j \in DOMAIN all, PlaceAt(reg, j) \in 1..size
       PROVE  P[PlaceAt(reg, j)] = IF j <= H THEN groups[j] ELSE query[all[j].name]
  <2>1. CASE j \in 1..H
    BY <1>2, <1>13, <1>14, <2>1
  <2>2. CASE \E k \in 1..Q : j = H + k
    <3>1. PICK k \in 1..Q : j = H + k
      BY <2>2
    <3>2. ~(j <= H) /\ all[j] = reg.query[k]
      BY <1>2, <3>1
    <3> QED BY <1>12, <1>14, <3>1, <3>2
  <2> QED BY <1>9, <2>1, <2>2
<1> QED BY <1>10, <1>11, <1>14 DEF P, all, H

\* A handler registered by path is reached with its arguments in their places.
LEMMA ParamsServed ==
  ASSUME RouterInv, NEW req, req.method \in Methods, Routed(req).result = "Success",
         history[Routed(req).binder].kind = "path"
  PROVE  LET b == Routed(req).binder
             groups == Groups(req.path, Grouped(history[b].pattern))
         IN  b \in Numbers /\ \E gs : /\ Routed(req).params = Params(b, gs, req.query)
                                      /\ DOMAIN gs = DOMAIN groups
                                      /\ \A j \in DOMAIN groups : gs[j] = groups[j]
<1> USE DEF RouterInv
<1> DEFINE path == Lowered(req.path)
           i == FirstPattern(req)
           m == req.method
           got == Routed(req)
           b == got.binder
           groups == Groups(req.path, Grouped(history[b].pattern))
<1>1. ~req.ws
  <2>1. SUFFICES ASSUME req.ws PROVE FALSE
    OBVIOUS
  <2>2. got = routeWs(req)
    BY <2>1 DEF Routed
  <2>3. \/ b \in Exact("ws", path)
        \/ history[b].kind = "wsRegex"
    BY <2>2, WsServed
  <2> QED BY <2>3, ExactOnes
<1>2. got = route(req)
  BY <1>1 DEF Routed
<1> HIDE DEF got
<1>3. ASSUME NEW bs, NEW matched, NEW params, got = AtItem(bs, req, matched, params)
      PROVE  b = bs[m] /\ bs[m] # Null /\ got.params = params
  BY <1>3 DEF AtItem, Outcome, got
<1>4. CASE path \in DOMAIN simpleCtrlMap
  <2>1. b = simpleCtrlMap[path][m] /\ b # Null
    BY <1>2, <1>3, <1>4 DEF route
  <2>2. b \in Exact("simple", path)
    BY <1>4, <2>1, ExactNumbers, LatestOnes DEF Tabled
  <2> QED BY <2>2, ExactOnes DEF got
<1>5. CASE path \notin DOMAIN simpleCtrlMap /\ path \in DOMAIN ctrlMap
  <2> DEFINE bs == ctrlMap[path].binders
  <2>1. got = AtItem(bs, req, ctrlMap[path].pattern,
                     IF bs[m] = Null THEN <<>> ELSE Params(bs[m], <<>>, req.query))
    BY <1>2, <1>5 DEF route
  <2> HIDE DEF bs
  <2>2. b = bs[m] /\ b # Null /\ got.params = Params(b, <<>>, req.query)
    BY <1>3, <2>1
  <2>3. b \in Exact("path", path)
    BY <1>5, <2>2, ExactNumbers, LatestOnes DEF PathTable, bs
  <2>4. b \in Numbers /\ Holders(history[b].pattern) = <<>>
    BY <2>3, ExactOnes
  <2>5. DOMAIN groups = {}
    <3>1. history[b].pattern \in Seq(Segment)
      BY <2>4, RouterAssumption DEF Recorded
    <3>2. DOMAIN groups = 1..Len(Holders(history[b].pattern))
      BY <3>1, HoldersThere
    <3> QED BY <2>4, <3>2
  <2>6. DOMAIN <<>> = {}
    OBVIOUS
  <2> QED BY <2>2, <2>4, <2>5, <2>6 DEF got
<1>6. CASE path \notin DOMAIN simpleCtrlMap /\ path \notin DOMAIN ctrlMap /\ i # 0
  <2> DEFINE item == ctrlVector[i]
             bs == item.binders
  <2>1. got = AtItem(bs, req, item.pattern,
                     IF bs[m] = Null THEN <<>>
                     ELSE Params(bs[m], Groups(req.path, item.grouped), req.query))
    BY <1>2, <1>6 DEF route
  <2>2. i \in 1..Len(ctrlVector)
    BY <1>6, PatternServed
  <2>3. bs = LatestOf(history, OfPattern(item.grouped))
    BY <2>2 DEF PatternTable
  <2> HIDE DEF bs, item
  <2>4. b = bs[m] /\ b # Null /\ got.params = Params(b, Groups(req.path, item.grouped), req.query)
    BY <1>3, <2>1
  <2>5. b \in OfPattern(item.grouped)
    BY <2>3, <2>4, ExactNumbers, LatestOnes
  <2>6. b \in Numbers /\ Grouped(history[b].pattern) = item.grouped
    BY <2>5, PatternOnes
  <2> QED BY <2>4, <2>6 DEF got
<1>7. CASE path \notin DOMAIN simpleCtrlMap /\ path \notin DOMAIN ctrlMap /\ i = 0
  <2>1. got = NotFound
    BY <1>2, <1>7 DEF route
  <2> QED BY <2>1 DEF NotFound, Outcome, got
<1> QED BY <1>4, <1>5, <1>6, <1>7

\* The n-th argument is that of the placeholder of number n.
LEMMA ArgumentsServed ==
  ASSUME RouterInv
  PROVE  ArgumentsInPlace
<1> USE DEF RouterInv
<1> SUFFICES ASSUME Serving, NEW req \in RoutedRequests, Routed(req).result = "Success",
                    history[Routed(req).binder].kind = "path",
                    Arguments(history[Routed(req).binder].types, Routed(req).params).call
                      = "called"
             PROVE  LET got == Routed(req)
                        reg == history[got.binder]
                        all == Holders(reg.pattern) \o reg.query
                        numberOf(j) == IF all[j].place > 0 THEN all[j].place ELSE j
                        source(j) == IF j <= Len(Holders(reg.pattern))
                                     THEN Groups(req.path, Grouped(reg.pattern))[j]
                                     ELSE req.query[all[j].name]
                        called == Arguments(reg.types, got.params)
                    IN  \A j \in DOMAIN all :
                          numberOf(j) \in DOMAIN called.args =>
                            called.args[numberOf(j)] =
                              Convert[reg.types[numberOf(j)]]
                                [IF source(j) = "" THEN "default" ELSE source(j)]
  BY DEF ArgumentsInPlace
<1>0. PICK b, reg, params :
        b = Routed(req).binder /\ reg = history[b] /\ params = Routed(req).params
  OBVIOUS
<1> DEFINE groups == Groups(req.path, Grouped(reg.pattern))
           source(j) == IF j <= InPath(reg) THEN groups[j] ELSE req.query[AllOf(reg)[j].name]
           called == Arguments(reg.types, params)
           Value(n) == IF params[n] = "" THEN Convert[reg.types[n]]["default"]
                       ELSE Convert[reg.types[n]][params[n]]
<1>1. b \in Numbers /\ \E gs : /\ params = Params(b, gs, req.query)
                               /\ DOMAIN gs = DOMAIN groups
                               /\ \A j \in DOMAIN groups : gs[j] = groups[j]
  BY <1>0, RouterAssumption, ParamsServed, ZenonT(40)
<1>2. PICK gs : /\ params = Params(b, gs, req.query)
                /\ DOMAIN gs = DOMAIN groups
                /\ \A j \in DOMAIN groups : gs[j] = groups[j]
  BY <1>1
<1>3. reg \in Registrations /\ ~PlacesBad(reg) /\ reg.kind = "path"
  BY <1>0, <1>1 DEF Recorded
<1>4. DOMAIN groups = 1..InPath(reg)
  BY <1>3, RouterAssumption, HoldersThere DEF InPath
<1> HIDE DEF groups
<1>5. /\ Len(params) \in Nat
      /\ \A j \in DOMAIN AllOf(reg) :
           PlaceAt(reg, j) \in 1..Len(params) =>
             params[PlaceAt(reg, j)]
               = IF j <= InPath(reg) THEN gs[j] ELSE req.query[AllOf(reg)[j].name]
  <2>1. Grouping(b, reg, gs) /\ Recorded
    BY <1>0, <1>1, <1>2, <1>3, <1>4 DEF Grouping
  <2>2. /\ Len(Params(b, gs, req.query)) \in Nat
        /\ \A j \in DOMAIN AllOf(reg) :
             PlaceAt(reg, j) \in 1..Len(Params(b, gs, req.query)) =>
               Params(b, gs, req.query)[PlaceAt(reg, j)]
                 = IF j <= InPath(reg) THEN gs[j] ELSE req.query[AllOf(reg)[j].name]
    BY <2>1, ParamsInPlace
  <2> QED BY <1>2, <2>2
<1>6. /\ DOMAIN reg.types = 1..Len(reg.types) /\ Len(reg.types) \in Nat /\ InPath(reg) \in Nat
      /\ DOMAIN AllOf(reg) = 1..(InPath(reg) + InQuery(reg)) /\ InQuery(reg) \in Nat
  BY <1>3, AllThere
<1>7. called.args = [n \in DOMAIN reg.types |-> Value(n)] /\ ~(Len(params) < Len(reg.types))
  BY <1>0 DEF Arguments
<1> HIDE DEF called
<1>8. ASSUME NEW j \in DOMAIN AllOf(reg), NEW n, n = PlaceAt(reg, j), n \in DOMAIN reg.types
      PROVE  params[n] = source(j)
  <2>1. n \in 1..Len(params)
    <3>1. n \in 1..Len(reg.types) /\ Len(params) \in Nat /\ ~(Len(params) < Len(reg.types))
      BY <1>5, <1>6, <1>7, <1>8
    <3> QED BY <1>6, <3>1
  <2>2. j \in Nat /\ (j <= InPath(reg) => j \in 1..InPath(reg))
    BY <1>6
  <2> QED BY <1>2, <1>4, <1>5, <1>8, <2>1, <2>2
<1>9. ASSUME NEW j \in DOMAIN AllOf(reg), NEW n, n = PlaceAt(reg, j), n \in DOMAIN called.args
      PROVE  called.args[n]
               = Convert[reg.types[n]][IF source(j) = "" THEN "default" ELSE source(j)]
  <2>1. n \in DOMAIN reg.types /\ called.args[n] = Value(n)
    BY <1>7, <1>9
  <2>2. params[n] = source(j)
    BY <1>8, <1>9, <2>1
  <2> HIDE DEF source
  <2> QED BY <2>1, <2>2
<1>10. LET all == Holders(reg.pattern) \o reg.query
           numberOf(j) == IF all[j].place > 0 THEN all[j].place ELSE j
           value(j) == IF j <= Len(Holders(reg.pattern))
                       THEN Groups(req.path, Grouped(reg.pattern))[j]
                       ELSE req.query[all[j].name]
           call == Arguments(reg.types, params)
       IN  \A j \in DOMAIN all :
             numberOf(j) \in DOMAIN call.args =>
               call.args[numberOf(j)] =
                 Convert[reg.types[numberOf(j)]][IF value(j) = "" THEN "default" ELSE value(j)]
  BY <1>9 DEF called, groups, AllOf, PlaceAt, InPath
<1> QED BY <1>0, <1>10

\* What the registrations say is what every request gets: its handler, the arguments of the
\* handler, the answer to its preflight, its entry in the list (RoutingExact).
THEOREM RoutedAsRegistered == RouterSpec => []RoutingExact
<1>1. RouterInv => RoutingExact
  BY RoutesServed, ArgumentsServed, CorsServed, ListServed DEF RoutingExact
<1> QED BY <1>1, RouterInvHolds, PTL
==============================================================================
