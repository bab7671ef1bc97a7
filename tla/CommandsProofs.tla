--------------------------- MODULE CommandsProofs ---------------------------
(***************************************************************************)
(* Proofs about Commands, for any parameters, files and lines: the arrays of *)
(* the parameters stay sound, an error ends every file being read, and what     *)
(* SAVE wrote is read again by a program that has just been started.            *)
(***************************************************************************)
EXTENDS Commands, SequenceTheorems, WellFoundedInduction, FiniteSetTheorems, TLAPS

-----------------------------------------------------------------------------
(***************************************************************************)
(* Minima, and sequences of sequences.                                      *)
(***************************************************************************)
LEMMA Minimum == ASSUME NEW T, T \subseteq Nat, T # {} PROVE \E m \in T : \A k \in T : m <= k
<1>1. PICK m \in T : \A k \in T : ~(<<k, m>> \in OpToRel(<, Nat))
  BY NatLessThanWellFounded, WFMin
<1>2. \A k \in T : ~(k < m)
  BY <1>1 DEF OpToRel
<1> QED
  BY <1>2

\* The function FlattenSeq defines by recursion exists.
LEMMA Flattening ==
    ASSUME NEW seqs, NEW n \in Nat
    PROVE  \E f : f = [i \in 1 .. n |-> IF i = 1 THEN seqs[i] ELSE f[i - 1] \o seqs[i]]
<1> DEFINE Without == {m \in Nat : ~ \E f :
             f = [i \in 1 .. m |-> IF i = 1 THEN seqs[i] ELSE f[i - 1] \o seqs[i]]}
<1> SUFFICES ASSUME Without # {} PROVE FALSE
  OBVIOUS
<1>1. PICK m \in Without : \A k \in Without : m <= k
  BY Minimum
<1>2. CASE m = 0
  <2> DEFINE none == [i \in 1 .. 0 |-> << >>]
  <2>1. none = [i \in 1 .. m |-> IF i = 1 THEN seqs[i] ELSE none[i - 1] \o seqs[i]]
    BY <1>2
  <2> QED
    BY <1>1, <2>1
<1>3. CASE m # 0
  <2>1. m - 1 \in Nat /\ m - 1 \notin Without
    <3>1. m \in Nat
      BY <1>1
    <3> HIDE DEF Without
    <3> QED
      BY <1>1, <1>3, <3>1
  <2>2. PICK f : f = [i \in 1 .. m - 1 |-> IF i = 1 THEN seqs[i] ELSE f[i - 1] \o seqs[i]]
    BY <2>1
  <2> DEFINE g == [i \in 1 .. m |-> IF i < m THEN f[i]
                                    ELSE IF i = 1 THEN seqs[i] ELSE f[i - 1] \o seqs[i]]
  <2>3. ASSUME NEW i \in 1 .. m
        PROVE  g[i] = IF i = 1 THEN seqs[i] ELSE g[i - 1] \o seqs[i]
    <3>1. i # 1 => g[i - 1] = f[i - 1]
      BY <2>1
    <3>2. ASSUME i < m PROVE f[i] = IF i = 1 THEN seqs[i] ELSE f[i - 1] \o seqs[i]
      <4>1. i \in 1 .. m - 1
        BY <2>1, <3>2
      <4>2. \A j \in 1 .. m - 1 : f[j] = IF j = 1 THEN seqs[j] ELSE f[j - 1] \o seqs[j]
        BY <2>2, Zenon
      <4> QED
        BY <4>1, <4>2
    <3> QED
      BY <2>1, <3>1, <3>2
  <2> HIDE DEF g
  <2>4. g = [i \in 1 .. m |-> IF i = 1 THEN seqs[i] ELSE g[i - 1] \o seqs[i]]
    BY <2>3 DEF g
  <2> QED
    BY <1>1, <2>4
<1> QED
  BY <1>2, <1>3

LEMMA FlattenRec ==
    ASSUME NEW S, NEW seqs \in Seq(Seq(S)), Len(seqs) # 0
    PROVE  \E f : /\ FlattenSeq(seqs) = f[Len(seqs)]
                  /\ \A i \in 1 .. Len(seqs) :
                       f[i] \in Seq(S) /\ f[i] = IF i = 1 THEN seqs[i] ELSE f[i - 1] \o seqs[i]
<1> DEFINE n == Len(seqs)
           Rec(f) == f = [i \in 1 .. n |-> IF i = 1 THEN seqs[i] ELSE f[i - 1] \o seqs[i]]
           flatten == CHOOSE f : Rec(f)
<1>1. n \in Nat \ {0}
  OBVIOUS
<1>2. FlattenSeq(seqs) = flatten[n]
  BY <1>1 DEF FlattenSeq
<1>3. \E f : Rec(f)
  BY <1>1, Flattening
<1> HIDE DEF Rec
<1>4. Rec(flatten)
  BY <1>3
<1> HIDE DEF flatten
<1>5. \A i \in 1 .. n : flatten[i] = IF i = 1 THEN seqs[i] ELSE flatten[i - 1] \o seqs[i]
  BY <1>4, Zenon DEF Rec
<1> DEFINE Others == {i \in 1 .. n : flatten[i] \notin Seq(S)}
<1>6. Others = {}
  <2> SUFFICES ASSUME Others # {} PROVE FALSE
    OBVIOUS
  <2>0. Others \subseteq Nat /\ Others \subseteq 1 .. n
    BY <1>1
  <2>1. PICK m \in Others : \A k \in Others : m <= k
    <3> HIDE DEF Others
    <3> QED
      BY <2>0, Minimum
  <2>2. seqs[m] \in Seq(S)
    BY <2>1, ElementOfSeq
  <2>3. m # 1
    BY <1>5, <2>1, <2>2
  <2>4. m - 1 \in 1 .. n /\ m - 1 \notin Others
    <3> HIDE DEF Others
    <3> QED
      BY <1>1, <2>0, <2>1, <2>3
  <2>5. flatten[m] = flatten[m - 1] \o seqs[m]
    BY <1>5, <2>1, <2>3
  <2>6. flatten[m - 1] \in Seq(S)
    BY <2>4
  <2>7. flatten[m] \in Seq(S)
    BY <2>2, <2>5, <2>6, ConcatProperties
  <2> QED
    BY <2>1, <2>7
<1>7. \A i \in 1 .. n : flatten[i] \in Seq(S)
  BY <1>6
<1> QED
  BY <1>2, <1>5, <1>7

LEMMA FlattenType ==
    ASSUME NEW S, NEW seqs \in Seq(Seq(S)) PROVE FlattenSeq(seqs) \in Seq(S)
<1>1. CASE Len(seqs) = 0
  <2>1. seqs = << >>
    BY <1>1
  <2> QED
    BY <1>1, <2>1 DEF FlattenSeq
<1>2. CASE Len(seqs) # 0
  <2>1. Len(seqs) \in 1 .. Len(seqs)
    BY <1>2
  <2> QED
    BY <1>2, <2>1, FlattenRec
<1> QED
  BY <1>1, <1>2

\* Nothing is lost.
LEMMA FlattenHas ==
    ASSUME NEW S, NEW seqs \in Seq(Seq(S)), NEW i \in 1 .. Len(seqs), NEW e \in ToSet(seqs[i])
    PROVE  e \in ToSet(FlattenSeq(seqs))
<1> DEFINE n == Len(seqs)
<1>1. n \in Nat \ {0} /\ i \in Nat /\ i > 0 /\ i <= n /\ \A k \in 1 .. n : seqs[k] \in Seq(S)
  BY ElementOfSeq
<1>2. PICK f : /\ FlattenSeq(seqs) = f[n]
               /\ \A k \in 1 .. n :
                    f[k] \in Seq(S) /\ f[k] = IF k = 1 THEN seqs[k] ELSE f[k - 1] \o seqs[k]
  BY <1>1, FlattenRec
<1> HIDE DEF n
<1>3. ASSUME NEW s \in Seq(S), NEW t \in Seq(S), e \in ToSet(s) \/ e \in ToSet(t)
      PROVE  e \in ToSet(s \o t)
  <2>1. /\ s \o t \in Seq(S) /\ Len(s \o t) = Len(s) + Len(t)
        /\ Len(s) \in Nat /\ Len(t) \in Nat
        /\ DOMAIN s = 1 .. Len(s) /\ DOMAIN t = 1 .. Len(t)
        /\ DOMAIN (s \o t) = 1 .. Len(s) + Len(t)
    BY ConcatProperties, LenProperties
  <2>2. CASE e \in ToSet(s)
    <3>1. PICK k \in 1 .. Len(s) : s[k] = e
      BY <2>1, <2>2 DEF ToSet
    <3>2. k \in 1 .. Len(s) + Len(t) /\ (s \o t)[k] = e
      BY <2>1, <3>1, ConcatProperties
    <3> QED
      BY <2>1, <3>2 DEF ToSet
  <2>3. CASE e \in ToSet(t)
    <3>1. PICK k \in 1 .. Len(t) : t[k] = e
      BY <2>1, <2>3 DEF ToSet
    <3>2. Len(s) + k \in 1 .. Len(s) + Len(t) /\ Len(s) + k > Len(s) /\ Len(s) + k - Len(s) = k
      BY <2>1, <3>1
    <3>3. (s \o t)[Len(s) + k] = e
      BY <2>1, <3>1, <3>2, ConcatProperties
    <3> QED
      BY <2>1, <3>2, <3>3 DEF ToSet
  <2> QED
    BY <1>3, <2>2, <2>3
<1> DEFINE Without == {k \in i .. n : e \notin ToSet(f[k])}
<1>4. Without = {}
  <2> SUFFICES ASSUME Without # {} PROVE FALSE
    OBVIOUS
  <2>0. Without \subseteq Nat /\ Without \subseteq i .. n
    BY <1>1
  <2>1. PICK m \in Without : \A k \in Without : m <= k
    <3> HIDE DEF Without
    <3> QED
      BY <2>0, Minimum
  <2>2. m \in i .. n /\ m \in 1 .. n /\ e \notin ToSet(f[m])
    BY <1>1, <2>1
  <2>3. f[m] = IF m = 1 THEN seqs[m] ELSE f[m - 1] \o seqs[m]
    BY <1>2, <2>2
  <2>4. m # 1 => m - 1 \in 1 .. n
    BY <1>1, <2>2
  <2>5. m # i => m - 1 \in i .. n /\ m - 1 \notin Without
    <3> HIDE DEF Without
    <3> QED
      BY <1>1, <2>0, <2>1, <2>2
  <2>6. m # i => m # 1 /\ e \in ToSet(f[m - 1])
    BY <1>1, <2>2, <2>5
  <2>7. seqs[m] \in Seq(S) /\ (m # 1 => f[m - 1] \in Seq(S))
    BY <1>1, <1>2, <2>2, <2>4
  <2>8. e \in ToSet(f[m])
    BY <1>3, <2>3, <2>6, <2>7
  <2> QED
    BY <2>2, <2>8
<1>5. n \in i .. n
  BY <1>1
<1> QED
  BY <1>2, <1>4, <1>5

-----------------------------------------------------------------------------
(***************************************************************************)
(* The arrays of the parameters.                                            *)
(***************************************************************************)
\* An array with nothing after its elements. A parameter that starts as one value
\* keeps it: setting consecutive selectors does not count elements (ccPars.c:247).
SoundArray(x, p) ==
    /\ x \in Arrays(p)
    /\ \A i \in x.n + 1 .. Pars[p].max : x.v[i] = 0
    /\ Pars[p].max = 1 /\ Len(Pars[p].default) = 1 => x.n = 1

SoundStore(s) ==
    IsStore(s) /\ \A p \in DOMAIN Pars : \A sel \in Selectors(p) : SoundArray(s[p][sel], p)

GoodLines == {l \in ParLines : l.idx < Pars[l.par].max}

LEMMA ParType ==
    ASSUME NEW p \in DOMAIN Pars
    PROVE  /\ Pars[p].max \in Nat \ {0} /\ Pars[p].cyc \in BOOLEAN /\ Pars[p].fixed \in BOOLEAN
           /\ Pars[p].default \in Seq(Int) /\ Len(Pars[p].default) \in 0 .. Pars[p].max
           /\ (Pars[p].cyc /\ Pars[p].max = 1 => Len(Pars[p].default) = 1)
<1>1. /\ Pars[p] \in [max : Nat \ {0}, cyc : BOOLEAN, fixed : BOOLEAN, default : Seq(Int)]
      /\ Len(Pars[p].default) <= Pars[p].max
      /\ Pars[p].cyc /\ Pars[p].max = 1 => Len(Pars[p].default) = 1
  BY ParsAssumption
<1> QED
  BY <1>1

LEMMA LineType ==
    ASSUME NEW l \in GoodLines
    PROVE  /\ l.par \in DOMAIN Pars /\ l.vals \in Seq(Int) /\ Len(l.vals) \in Nat \ {0}
           /\ (l.sel = NoIndex \/ l.sel = AllCycles \/ l.sel \in 0 .. MaxSel)
           /\ First(l) \in Nat /\ First(l) < Pars[l.par].max
           /\ MaxPars(l) \in Int
<1>1. /\ l.par \in DOMAIN Pars /\ l.vals \in Seq(Int) \ {<< >>}
      /\ l.sel \in {NoIndex, AllCycles} \cup 0 .. MaxSel
      /\ l.idx \in {NoIndex} \cup Nat /\ l.idx < Pars[l.par].max
  BY DEF GoodLines, ParLines
<1>2. Len(l.vals) \in Nat \ {0}
  BY <1>1, EmptySeq
<1>3. Pars[l.par].max \in Nat \ {0}
  BY <1>1, ParType
<1>4. First(l) \in Nat /\ First(l) < Pars[l.par].max
  BY <1>1, <1>3 DEF First
<1>5. MaxPars(l) \in Int
  BY <1>1, <1>3, <1>4, CommandsAssumption DEF MaxPars, Consecutive, NoIndex, AllCycles
<1> QED
  BY <1>1, <1>2, <1>4, <1>5

\* The first value that is refused, if there is one, ends those that are stored.
LEMMA StoredType ==
    ASSUME NEW l \in GoodLines
    PROVE  /\ Stored(l) \in 0 .. Len(l.vals)
           /\ \A i \in 1 .. Stored(l) :
                  l.vals[i] \in Int /\ l.vals[i] # Bad /\ i <= MaxPars(l)
           /\ Stored(l) < Len(l.vals) => \/ l.vals[Stored(l) + 1] = Bad
                                         \/ Stored(l) + 1 > MaxPars(l)
<1> DEFINE n == Len(l.vals)
           Ok(i) == l.vals[i] # Bad /\ i <= MaxPars(l)
           Stops(k) == /\ \A i \in 1 .. k : l.vals[i] # Bad /\ i <= MaxPars(l)
                       /\ k < n => l.vals[k + 1] = Bad \/ k + 1 > MaxPars(l)
           Refused == {i \in 1 .. n : ~Ok(i)}
<1>0. n \in Nat \ {0} /\ MaxPars(l) \in Int /\ l.vals \in Seq(Int)
  BY LineType
<1>1. \E k \in 0 .. n : Stops(k)
  <2>1. CASE Refused = {}
    <3>1. Stops(n)
      BY <1>0, <2>1
    <3> QED
      BY <1>0, <3>1
  <2>2. CASE Refused # {}
    <3>0. Refused \subseteq Nat /\ Refused \subseteq 1 .. n
      BY <1>0
    <3>1. PICK m \in Refused : \A k \in Refused : m <= k
      <4> HIDE DEF Refused
      <4> QED
        BY <2>2, <3>0, Minimum
    <3>2. m - 1 \in 0 .. n /\ m \in 1 .. n
      BY <1>0, <3>0, <3>1
    <3>3. \A i \in 1 .. m - 1 : i \in 1 .. n /\ i \notin Refused
      <4> HIDE DEF Refused
      <4> QED
        BY <1>0, <3>1, <3>2
    <3>4. ~Ok(m) /\ \A i \in 1 .. m - 1 : Ok(i)
      BY <3>1, <3>3
    <3>5. m - 1 + 1 = m
      BY <3>2
    <3>6. l.vals[m] = Bad \/ m > MaxPars(l)
      BY <1>0, <3>2, <3>4
    <3>7. Stops(m - 1)
      BY <3>4, <3>5, <3>6
    <3> QED
      BY <3>2, <3>7
  <2> QED
    BY <2>1, <2>2
<1>2. Stored(l) = CHOOSE k \in 0 .. n : Stops(k)
  BY DEF Stored
<1> HIDE DEF Stops
<1>3. Stored(l) \in 0 .. n /\ Stops(Stored(l))
  BY <1>1, <1>2
<1>4. ASSUME NEW i \in 1 .. Stored(l)
      PROVE  l.vals[i] \in Int /\ l.vals[i] # Bad /\ i <= MaxPars(l)
  <2>1. i \in 1 .. Len(l.vals)
    BY <1>0, <1>3
  <2> QED
    BY <1>0, <1>3, <2>1, ElementOfSeq DEF Stops
<1>5. Stored(l) < n => l.vals[Stored(l) + 1] = Bad \/ Stored(l) + 1 > MaxPars(l)
  BY <1>3 DEF Stops
<1> QED
  BY <1>3, <1>4, <1>5

\* An array that a line sets is sound if it was: it grows to the last value that
\* was stored, or ends there, and what is no longer an element is cleared.
LEMMA ElementSound ==
    ASSUME NEW l \in GoodLines, ~Consecutive(l), NEW x, SoundArray(x, l.par)
    PROVE  SoundArray(Element(x, l), l.par)
<1> DEFINE p == l.par
           end == First(l) + Stored(l)
           n == IF x.n < end \/ Shrinks(l) THEN end ELSE x.n
           v == [i \in DOMAIN x.v |->
                   IF i > First(l) /\ i <= end THEN l.vals[i - First(l)]
                   ELSE IF i > end /\ Shrinks(l) THEN 0 ELSE x.v[i]]
<1>1. CASE Stored(l) = 0
  BY <1>1 DEF Element
<1>2. CASE Stored(l) # 0
  <2>1. /\ p \in DOMAIN Pars /\ Pars[p].max \in Nat \ {0}
        /\ First(l) \in Nat /\ Stored(l) \in Nat \ {0}
        /\ MaxPars(l) = Pars[p].max - First(l)
    BY <1>2, LineType, ParType, StoredType DEF MaxPars
  <2>2. \A i \in 1 .. Stored(l) : l.vals[i] \in Int /\ i <= MaxPars(l)
    BY StoredType
  <2>3. end \in 1 .. Pars[p].max
    <3>1. Stored(l) <= MaxPars(l)
      BY <2>1, <2>2
    <3> QED
      BY <2>1, <3>1
  <2>4. Element(x, l) = [n |-> n, v |-> v]
    BY <1>2 DEF Element
  <2>5. x.n \in 0 .. Pars[p].max /\ x.v \in [1 .. Pars[p].max -> Int]
        /\ \A i \in x.n + 1 .. Pars[p].max : x.v[i] = 0
    BY DEF SoundArray, Arrays
  <2>6. n \in 0 .. Pars[p].max
    BY <2>3, <2>5
  <2>7. \A i \in 1 .. Pars[p].max : i > First(l) /\ i <= end => l.vals[i - First(l)] \in Int
    <3> SUFFICES ASSUME NEW i \in 1 .. Pars[p].max, i > First(l), i <= end
                 PROVE  i - First(l) \in 1 .. Stored(l)
      BY <2>2
    <3> QED
      BY <2>1
  <2>8. v \in [1 .. Pars[p].max -> Int]
    <3> HIDE DEF end
    <3>1. \A i \in 1 .. Pars[p].max : x.v[i] \in Int
      BY <2>5
    <3> QED
      BY <2>5, <2>7, <3>1
  <2>9. ASSUME NEW i \in n + 1 .. Pars[p].max PROVE v[i] = 0
    <3>1. i \in 1 .. Pars[p].max /\ i > n
      BY <2>1, <2>6
    <3>2. end <= n
      BY <2>3, <2>5
    <3>3. ~(i <= end)
      BY <2>3, <2>6, <3>1, <3>2
    <3>4. Shrinks(l) \/ x.v[i] = 0
      <4>1. CASE ~Shrinks(l)
        <5>1. x.n <= n
          BY <2>3, <2>5, <4>1
        <5> QED
          BY <2>5, <2>6, <3>1, <5>1
      <4> QED
        BY <4>1
    <3> QED
      BY <2>3, <2>5, <3>1, <3>3, <3>4
  <2>10. Pars[p].max = 1 /\ Len(Pars[p].default) = 1 => n = 1
    <3> SUFFICES ASSUME Pars[p].max = 1, Len(Pars[p].default) = 1 PROVE n = 1
      OBVIOUS
    <3>1. x.n = 1
      BY DEF SoundArray
    <3> QED
      BY <2>3, <3>1
  <2> HIDE DEF n, v
  <2> QED
    BY <2>4, <2>6, <2>8, <2>9, <2>10 DEF SoundArray, Arrays
<1> QED
  BY <1>1, <1>2

\* What a line makes of the value for a selector
SetTo(l, s) ==
    LET x == store[l.par][s]
    IN  IF Consecutive(l)
        THEN IF s >= l.sel /\ s < l.sel + Stored(l) THEN [x EXCEPT !.v[1] = l.vals[s - l.sel + 1]] ELSE x
        ELSE IF s \in Selected(l) THEN Element(x, l) ELSE x

LEMMA ParsGetIs ==
    ASSUME IsStore(store), NEW l \in GoodLines
    PROVE  /\ DOMAIN ParsGet(l) = DOMAIN Pars
           /\ ParsGet(l)[l.par] = [s \in Selectors(l.par) |-> SetTo(l, s)]
           /\ \A q \in DOMAIN Pars : q # l.par => ParsGet(l)[q] = store[q]
<1> DEFINE p == l.par
<1>1. DOMAIN store = DOMAIN Pars /\ p \in DOMAIN Pars /\ DOMAIN store[p] = Selectors(p)
  BY LineType DEF IsStore
<1> QED
  BY <1>1 DEF ParsGet, SetTo

LEMMA ParsGetSound ==
    ASSUME SoundStore(store), NEW l \in GoodLines PROVE SoundStore(ParsGet(l))
<1> DEFINE p == l.par
           Set(s) == SetTo(l, s)
<1>1. /\ DOMAIN store = DOMAIN Pars /\ p \in DOMAIN Pars
      /\ \A q \in DOMAIN Pars : store[q] \in [Selectors(q) -> Arrays(q)]
      /\ \A q \in DOMAIN Pars : \A s \in Selectors(q) : SoundArray(store[q][s], q)
  BY LineType DEF SoundStore, IsStore
<1>2. /\ DOMAIN ParsGet(l) = DOMAIN Pars
      /\ ParsGet(l)[p] = [s \in Selectors(p) |-> Set(s)]
      /\ \A q \in DOMAIN Pars : q # p => ParsGet(l)[q] = store[q]
  BY ParsGetIs DEF SoundStore
<1>3. ASSUME NEW s \in Selectors(p) PROVE SoundArray(Set(s), p)
  <2>1. SoundArray(store[p][s], p)
    BY <1>1
  <2>2. CASE ~Consecutive(l)
    BY <2>1, <2>2, ElementSound DEF SetTo
  <2>3. CASE Consecutive(l) /\ ~(s >= l.sel /\ s < l.sel + Stored(l))
    BY <2>1, <2>3 DEF SetTo
  <2>4. CASE Consecutive(l) /\ s >= l.sel /\ s < l.sel + Stored(l)
    <3> DEFINE x == store[p][s]
               e == l.vals[s - l.sel + 1]
    <3>1. Pars[p].cyc /\ Pars[p].max = 1 /\ l.sel \in Int /\ s \in Int
      BY <2>4, LineType, CommandsAssumption DEF Consecutive, Selectors, NoIndex, AllCycles
    <3>2. x \in Arrays(p) /\ x.n = 1
      BY <1>1, <2>1, <3>1, ParType DEF SoundArray
    <3>3. s - l.sel + 1 \in 1 .. Stored(l)
      BY <2>4, <3>1, StoredType
    <3>4. e \in Int
      BY <3>3, StoredType
    <3>5. Set(s) = [x EXCEPT !.v[1] = e]
      BY <2>4 DEF SetTo
    <3> HIDE DEF x, e, Set
    <3>6. x.v \in [1 .. 1 -> Int] /\ x.n \in 0 .. 1
      BY <3>1, <3>2 DEF Arrays
    <3>7. Set(s) = [n |-> x.n, v |-> [x.v EXCEPT ![1] = e]]
      BY <3>2, <3>5 DEF Arrays
    <3>8. [x.v EXCEPT ![1] = e] \in [1 .. 1 -> Int]
      BY <3>4, <3>6
    <3>9. Set(s) \in Arrays(p) /\ Set(s).n = 1
      BY <3>1, <3>2, <3>6, <3>7, <3>8 DEF Arrays
    <3> QED
      BY <3>1, <3>9 DEF SoundArray
  <2> QED
    BY <2>2, <2>3, <2>4
<1> HIDE DEF Set
<1>4. \A q \in DOMAIN Pars : \A s \in Selectors(q) : SoundArray(ParsGet(l)[q][s], q)
  BY <1>1, <1>2, <1>3
<1>5. \A q \in DOMAIN Pars : ParsGet(l)[q] \in [Selectors(q) -> Arrays(q)]
  BY <1>1, <1>2, <1>3 DEF SoundArray
<1> QED
  BY <1>2, <1>4, <1>5 DEF SoundStore, IsStore

LEMMA DefaultSound == SoundStore(Default)
<1> DEFINE D(p) == [n |-> Len(Pars[p].default),
                    v |-> [i \in 1 .. Pars[p].max |->
                             IF i <= Len(Pars[p].default) THEN Pars[p].default[i] ELSE 0]]
<1>1. DOMAIN Default = DOMAIN Pars
  BY DEF Default
<1>2. \A p \in DOMAIN Pars : Default[p] = [s \in Selectors(p) |-> D(p)]
  BY DEF Default
<1>3. ASSUME NEW p \in DOMAIN Pars PROVE SoundArray(D(p), p)
  <2>1. /\ Pars[p].max \in Nat \ {0} /\ Pars[p].default \in Seq(Int)
        /\ Len(Pars[p].default) \in 0 .. Pars[p].max
        /\ (Pars[p].cyc /\ Pars[p].max = 1 => Len(Pars[p].default) = 1)
    BY ParType
  <2>2. \A i \in 1 .. Pars[p].max : i <= Len(Pars[p].default) => Pars[p].default[i] \in Int
    BY <2>1, ElementOfSeq
  <2>3. D(p).v \in [1 .. Pars[p].max -> Int]
    BY <2>2
  <2>4. \A i \in D(p).n + 1 .. Pars[p].max : D(p).v[i] = 0
    BY <2>1
  <2> QED
    BY <2>1, <2>3, <2>4 DEF SoundArray, Arrays
<1> HIDE DEF D
<1> QED
  BY <1>1, <1>2, <1>3 DEF SoundStore, SoundArray, IsStore

\* RUN may take away the perturbation of the voltage: no other parameter changes.
LEMMA UnperturbedIs ==
    ASSUME SoundStore(store), Unperturbed # store
    PROVE  /\ DOMAIN Unperturbed = DOMAIN store
           /\ \A p \in DOMAIN Pars \ {"volts", "time"} : Unperturbed[p] = store[p]
           /\ \A p \in {"volts", "time"} :
                /\ p \in DOMAIN Pars /\ Selectors(p) = {0} /\ Pars[p].max = 1
                /\ \E e \in {0, Never} :
                     Unperturbed[p] = [s \in {0} |-> [n |-> 1, v |-> [i \in 1 .. 1 |-> e]]]
<1> DEFINE U(p, e) == [store[p] EXCEPT ![0].v[1] = e]
<1>1. ASSUME NEW p \in {"volts", "time"}
      PROVE  /\ p \in DOMAIN Pars /\ Selectors(p) = {0} /\ Pars[p].max = 1
             /\ DOMAIN store[p] = {0} /\ SoundArray(store[p][0], p) /\ store[p][0].n = 1
             /\ store[p] \in [{0} -> [n : 0 .. 1, v : [1 .. 1 -> Int]]]
  <2>1. /\ p \in DOMAIN Pars /\ Pars[p].max = 1 /\ ~Pars[p].cyc /\ Len(Pars[p].default) = 1
    BY ParsAssumption
  <2>2. Selectors(p) = {0}
    BY <2>1 DEF Selectors
  <2>3. SoundArray(store[p][0], p) /\ store[p] \in [{0} -> Arrays(p)]
    BY <2>1, <2>2 DEF SoundStore, IsStore
  <2> QED
    BY <2>1, <2>2, <2>3 DEF SoundArray, Arrays
<1>2. ASSUME NEW p \in {"volts", "time"}, NEW e
      PROVE  U(p, e) = [s \in {0} |-> [n |-> 1, v |-> [i \in 1 .. 1 |-> e]]]
  <2> DEFINE x == store[p][0]
  <2>1. DOMAIN store[p] = {0} /\ x \in [n : 0 .. 1, v : [1 .. 1 -> Int]] /\ x.n = 1
    BY <1>1
  <2>2. U(p, e) = [s \in {0} |-> [x EXCEPT !.v[1] = e]]
    BY <2>1
  <2> HIDE DEF x
  <2>3. [x EXCEPT !.v[1] = e] = [n |-> 1, v |-> [i \in 1 .. 1 |-> e]]
    BY <2>1
  <2> QED
    BY <2>2, <2>3
<1> HIDE DEF U
<1>3. Unperturbed = [store EXCEPT !["volts"] = U("volts", 0), !["time"] = U("time", Never)]
  BY DEF Unperturbed, U
<1>4. DOMAIN store = DOMAIN Pars
  BY DEF SoundStore, IsStore
<1>5. Unperturbed["volts"] = U("volts", 0) /\ Unperturbed["time"] = U("time", Never)
  BY <1>1, <1>3, <1>4
<1> QED
  BY <1>1, <1>2, <1>3, <1>4, <1>5

LEMMA UnperturbedSound == ASSUME SoundStore(store) PROVE SoundStore(Unperturbed)
<1>1. CASE Unperturbed = store
  BY <1>1
<1>2. CASE Unperturbed # store
  <2>1. /\ DOMAIN store = DOMAIN Pars
        /\ \A q \in DOMAIN Pars : store[q] \in [Selectors(q) -> Arrays(q)]
        /\ \A q \in DOMAIN Pars : \A s \in Selectors(q) : SoundArray(store[q][s], q)
    BY DEF SoundStore, IsStore
  <2>2. ASSUME NEW p \in {"volts", "time"}
        PROVE  /\ Unperturbed[p] \in [Selectors(p) -> Arrays(p)]
               /\ \A s \in Selectors(p) : SoundArray(Unperturbed[p][s], p)
    <3>1. PICK e \in {0, Never} :
            Unperturbed[p] = [s \in {0} |-> [n |-> 1, v |-> [i \in 1 .. 1 |-> e]]]
      BY <1>2, UnperturbedIs
    <3>2. Selectors(p) = {0} /\ Pars[p].max = 1 /\ e \in Int
      BY <1>2, UnperturbedIs DEF Never
    <3> DEFINE x == [n |-> 1, v |-> [i \in 1 .. 1 |-> e]]
    <3>3. x \in Arrays(p) /\ x.n = 1
      BY <3>2 DEF Arrays
    <3>4. Unperturbed[p] = [s \in {0} |-> x]
      BY <3>1
    <3> HIDE DEF x
    <3>5. SoundArray(x, p)
      BY <3>2, <3>3 DEF SoundArray
    <3> QED
      BY <3>2, <3>3, <3>4, <3>5
  <2>3. \A q \in DOMAIN Pars : /\ Unperturbed[q] \in [Selectors(q) -> Arrays(q)]
                               /\ \A s \in Selectors(q) : SoundArray(Unperturbed[q][s], q)
    BY <1>2, <2>1, <2>2, UnperturbedIs
  <2> QED
    BY <1>2, <2>1, <2>3, UnperturbedIs DEF SoundStore, IsStore
<1> QED
  BY <1>1, <1>2

\* What SAVE writes are lines.
LEMMA ParsPrintType ==
    ASSUME SoundStore(store), NEW p \in DOMAIN Pars, NEW s \in Selectors(p)
    PROVE  ParsPrint(p, s) \in Seq(LineSet)
<1> DEFINE x == store[p][s]
           vals == [i \in 1 .. x.n |-> Printed(x.v[i])]
           l == Par(p, IF s = 0 THEN NoIndex ELSE s, NoIndex, vals)
<1>1. SoundArray(x, p)
  BY DEF SoundStore
<1>2. x.n \in 0 .. Pars[p].max /\ x.v \in [1 .. Pars[p].max -> Int] /\ Pars[p].max \in Nat \ {0}
  BY <1>1, ParType DEF SoundArray, Arrays
<1>3. CASE x.n = 0
  BY <1>3 DEF ParsPrint
<1>4. CASE x.n # 0
  <2> HIDE DEF x
  <2>1. \A i \in 1 .. x.n : Printed(x.v[i]) \in Int
    <3> SUFFICES ASSUME NEW i \in 1 .. x.n PROVE Printed(x.v[i]) \in Int
      OBVIOUS
    <3>1. x.v[i] \in Int
      BY <1>2
    <3> QED
      BY <3>1, CommandsAssumption DEF Printed
  <2>2. vals \in Seq(Int) /\ Len(vals) = x.n
    BY <1>2, <2>1
  <2>3. vals # << >>
    BY <1>4, <2>2
  <2>4. s \in 0 .. MaxSel
    BY CommandsAssumption DEF Selectors
  <2> HIDE DEF vals
  <2>5. l \in ParLines /\ l.idx = NoIndex /\ l.par = p
    BY <2>2, <2>3, <2>4 DEF ParLines, Par, NoIndex, AllCycles
  <2>6. l \in LineSet
    BY <1>2, <2>5 DEF LineSet, NoIndex
  <2>7. ParsPrint(p, s) = << l >>
    BY <1>4 DEF ParsPrint, x, vals
  <2> QED
    BY <2>6, <2>7
<1> QED
  BY <1>3, <1>4

LEMMA SavedLinesIn ==
    ASSUME NEW S, \A p \in DOMAIN Pars : \A s \in Selectors(p) : ParsPrint(p, s) \in Seq(S)
    PROVE  SavedLines \in Seq(S)
<1>1. ASSUME NEW pars \in Seq(DOMAIN Pars) PROVE ParsPrintAll(pars) \in Seq(S)
  <2> DEFINE Of(s, i) == IF s - 1 \in Selectors(pars[i]) THEN ParsPrint(pars[i], s - 1) ELSE << >>
             Each(s) == [i \in DOMAIN pars |-> Of(s, i)]
             All_ == [s \in 1 .. MaxSel + 1 |-> Each(s)]
  <2>1. \A s \in 1 .. MaxSel + 1 : \A i \in DOMAIN pars : Of(s, i) \in Seq(S)
    <3> SUFFICES ASSUME NEW s \in 1 .. MaxSel + 1, NEW i \in DOMAIN pars
                 PROVE  Of(s, i) \in Seq(S)
      OBVIOUS
    <3>1. pars[i] \in DOMAIN Pars
      BY ElementOfSeq, LenProperties
    <3> QED
      BY <3>1
  <2> HIDE DEF Of
  <2>2. DOMAIN pars = 1 .. Len(pars) /\ Len(pars) \in Nat
    BY LenProperties
  <2>3. \A s \in 1 .. MaxSel + 1 : Each(s) \in Seq(Seq(S))
    BY <2>1, <2>2
  <2> HIDE DEF Each
  <2>4. All_ \in Seq(Seq(Seq(S)))
    BY <2>3, CommandsAssumption
  <2> HIDE DEF All_
  <2>5. FlattenSeq(FlattenSeq(All_)) \in Seq(S)
    <3>1. FlattenSeq(All_) \in Seq(Seq(S))
      BY <2>4, FlattenType
    <3> QED
      BY <3>1, FlattenType
  <2> QED
    BY <2>5 DEF ParsPrintAll, All_, Each, Of
<1> DEFINE Cmds == [c \in DOMAIN CmdTable |-> ParsPrintAll(CmdTable[c])]
<1>2. Len(CmdTable) \in Nat /\ DOMAIN CmdTable = 1 .. Len(CmdTable)
  BY LenProperties, CommandsAssumption
<1>3. \A c \in DOMAIN CmdTable : ParsPrintAll(CmdTable[c]) \in Seq(S)
  <2> SUFFICES ASSUME NEW c \in DOMAIN CmdTable PROVE CmdTable[c] \in Seq(DOMAIN Pars)
    BY <1>1
  <2> QED
    BY <1>2, ElementOfSeq, CommandsAssumption
<1>4. Cmds \in Seq(Seq(S))
  BY <1>2, <1>3
<1> HIDE DEF Cmds
<1>5. FlattenSeq(Cmds) \in Seq(S)
  BY <1>4, FlattenType
<1> QED
  BY <1>5 DEF SavedLines, Cmds

LEMMA SavedLinesType == ASSUME SoundStore(store) PROVE SavedLines \in Seq(LineSet)
  BY ParsPrintType, SavedLinesIn

-----------------------------------------------------------------------------
(***************************************************************************)
(* The loops.                                                               *)
(***************************************************************************)
\* The files being read: each is there and has its place among the inputs, where
\* stdin may have one that it has not given back.
Open(st) == {i \in DOMAIN st : st[i].kind = "file"}
InputsInv ==
    /\ \A i \in Open(stack) : stack[i].file \in DOMAIN disk
    /\ IsFiniteSet(Open(stack)) /\ Cardinality(Open(stack)) <= inputIdx

StoresInv == SoundStore(store) /\ \A f \in DOMAIN saved : SoundStore(saved[f])
IInv == TypeOK /\ StoresInv /\ InputsInv

LEMMA TopType ==
    ASSUME TypeOK, Running
    PROVE  /\ Len(stack) \in Nat \ {0} /\ DOMAIN stack = 1 .. Len(stack) /\ Top \in Frames
           /\ \A i \in 1 .. Len(stack) : stack[i] \in Frames
<1>1. stack \in Seq(Frames) /\ stack # << >>
  BY DEF TypeOK, Running
<1>2. Len(stack) \in Nat \ {0} /\ DOMAIN stack = 1 .. Len(stack)
  BY <1>1, EmptySeq, LenProperties
<1> QED
  BY <1>1, <1>2, ElementOfSeq DEF Top

LEMMA LinesType ==
    ASSUME TypeOK, InputsInv, Running, Top.kind # "stdin" PROVE Lines(Top) \in Seq(LineSet)
<1>1. Top \in Frames /\ argv \in Seq(LineSet)
  BY TopType DEF TypeOK
<1>2. CASE Top.kind = "args"
  BY <1>1, <1>2 DEF Lines
<1>3. CASE Top.kind = "dir"
  <2> DEFINE L(i) == Line(IF Names[i] \in DOMAIN disk THEN "READ" ELSE "SKIP", Names[i])
  <2>1. Lines(Top) = [i \in DOMAIN Names |-> L(i)]
    BY <1>3 DEF Lines
  <2>2. DOMAIN Names = 1 .. Len(Names) /\ Len(Names) \in Nat
        /\ \A i \in 1 .. Len(Names) : Names[i] \in Words
    BY NamesAssumption, LenProperties DEF Words, ToSet
  <2>3. \A i \in 1 .. Len(Names) : L(i) \in LineSet
    BY <2>2 DEF Line, LineSet, OtherLines
  <2> HIDE DEF L
  <2> QED
    BY <2>1, <2>2, <2>3
<1>4. CASE Top.kind = "file"
  <2> DEFINE d == disk[Top.file]
             L(i) == IF d[i].cmd = "PAR" /\ Len(d[i].vals) > LineMax
                     THEN Line("WRONG", "long") ELSE d[i]
  <2>1. Lines(Top) = [i \in DOMAIN d |-> L(i)]
    BY <1>4 DEF Lines
  <2>2. d \in Seq(LineSet)
    <3>1. Len(stack) \in Open(stack)
      BY <1>4, TopType DEF Open, Top
    <3> QED
      BY <3>1 DEF TypeOK, InputsInv, Top
  <2> HIDE DEF d
  <2>3. DOMAIN d = 1 .. Len(d) /\ Len(d) \in Nat /\ \A i \in 1 .. Len(d) : d[i] \in LineSet
    BY <2>2, LenProperties, ElementOfSeq
  <2>4. Line("WRONG", "long") \in LineSet
    BY DEF Line, LineSet, OtherLines, Words
  <2>5. \A i \in 1 .. Len(d) : L(i) \in LineSet
    BY <2>3, <2>4
  <2> HIDE DEF L
  <2> QED
    BY <2>1, <2>3, <2>5
<1> QED
  BY <1>1, <1>2, <1>3, <1>4 DEF Frames

LEMMA NextLineType ==
    ASSUME TypeOK, InputsInv, NEW l \in NextLines
    PROVE  /\ Running /\ (l.cmd = "PAR" => l \in GoodLines)
           /\ (l.cmd # "PAR" => l \in OtherLines)
           /\ (Top.kind = "stdin" => typed < MaxTyped)
<1>1. Running
  BY DEF NextLines
<1>2. l \in LineSet
  <2>1. CASE Top.kind = "stdin"
    BY <2>1, LinesAssumption DEF NextLines
  <2>2. CASE Top.kind # "stdin"
    <3>1. Lines(Top) \in Seq(LineSet) /\ Top.next \in Nat \ {0}
      BY <1>1, <2>2, LinesType, TopType DEF Frames
    <3>2. l = Lines(Top)[Top.next] /\ ~(Top.next > Len(Lines(Top)))
      BY <2>2 DEF NextLines, Over
    <3>3. Len(Lines(Top)) \in Nat
      BY <3>1, LenProperties
    <3>4. Top.next \in 1 .. Len(Lines(Top))
      BY <3>1, <3>2, <3>3
    <3> QED
      BY <3>1, <3>2, <3>4, ElementOfSeq
  <2> QED
    BY <2>1, <2>2
<1>3. Top.kind = "stdin" => typed < MaxTyped
  BY <1>1 DEF NextLines
<1>4. (l.cmd = "PAR" => l \in GoodLines) /\ (l.cmd # "PAR" => l \in OtherLines)
  BY <1>2 DEF LineSet, GoodLines, OtherLines, ParLines
<1> QED
  BY <1>1, <1>3, <1>4

LEMMA DoneType ==
    ASSUME TypeOK, Running, NEW status \in {"ok", "fail"}
    PROVE  /\ Done(status) \in Seq(Frames) /\ Len(Done(status)) = Len(stack)
           /\ DOMAIN Done(status) = DOMAIN stack
           /\ \A i \in DOMAIN stack : /\ Done(status)[i].kind = stack[i].kind
                                      /\ Done(status)[i].file = stack[i].file
           /\ Done(status)[Len(stack)].status = status
           /\ Done(status)[Len(stack)].fresh = Top.fresh
           /\ Done(status)[Len(stack)].next = IF Top.kind = "stdin" THEN Top.next ELSE Top.next + 1
<1> DEFINE n == Len(stack)
           next == IF Top.kind = "stdin" THEN Top.next ELSE Top.next + 1
           e == [Top EXCEPT !.status = status, !.next = next]
<1>1. n \in Nat \ {0} /\ DOMAIN stack = 1 .. n /\ Top \in Frames /\ stack \in Seq(Frames)
  BY TopType DEF TypeOK
<1>2. next \in Nat \ {0}
  BY <1>1 DEF Frames
<1>3. Done(status) = [stack EXCEPT ![n] = e]
  <2>1. stack[n] = Top
    BY DEF Top
  <2> QED
    BY <1>1, <2>1 DEF Done, Frames
<1> HIDE DEF next
<1>4. e \in Frames /\ e.kind = Top.kind /\ e.file = Top.file /\ e.status = status
      /\ e.fresh = Top.fresh /\ e.next = next
  BY <1>1, <1>2 DEF Frames
<1> HIDE DEF e, n
<1>5. Done(status) \in Seq(Frames) /\ Len(Done(status)) = n
      /\ \A j \in 1 .. n : Done(status)[j] = IF j = n THEN e ELSE stack[j]
  BY <1>1, <1>3, <1>4, ExceptSeq DEF n
<1>6. DOMAIN Done(status) = 1 .. n
  BY <1>5, LenProperties
<1>7. Top = stack[n]
  BY DEF Top, n
<1>8. \A i \in 1 .. n : /\ Done(status)[i].kind = stack[i].kind
                        /\ Done(status)[i].file = stack[i].file
  BY <1>4, <1>5, <1>7
<1>9. /\ Done(status)[n].status = status /\ Done(status)[n].fresh = Top.fresh
      /\ Done(status)[n].next = next
  BY <1>1, <1>4, <1>5
<1> QED
  BY <1>1, <1>5, <1>6, <1>8, <1>9 DEF n, next

LEMMA ReturnType ==
    ASSUME TypeOK, Running
    PROVE  /\ Return(Top) \in Seq(Frames) /\ Len(Return(Top)) = Len(stack) - 1
           /\ DOMAIN Return(Top) = 1 .. Len(stack) - 1
           /\ \A i \in 1 .. Len(stack) - 1 : /\ Return(Top)[i].kind = stack[i].kind
                                             /\ Return(Top)[i].file = stack[i].file
           /\ Len(stack) > 1 => Return(Top)[Len(stack) - 1].status = Top.status
<1> DEFINE n == Len(stack) - 1
           R(i) == IF i = n THEN [stack[i] EXCEPT !.status = Top.status] ELSE stack[i]
<1>1. n \in Nat /\ Top \in Frames /\ \A i \in 1 .. n : stack[i] \in Frames
  BY TopType
<1>2. Return(Top) = [i \in 1 .. n |-> R(i)]
  BY DEF Return
<1>3. ASSUME NEW i \in 1 .. n
      PROVE  /\ R(i) \in Frames /\ R(i).kind = stack[i].kind /\ R(i).file = stack[i].file
             /\ i = n => R(i).status = Top.status
  <2>1. Top.status \in {"ok", "fail"} /\ stack[i] \in Frames
    BY <1>1 DEF Frames
  <2> QED
    BY <2>1 DEF Frames
<1> HIDE DEF n, R
<1>4. Return(Top) \in Seq(Frames) /\ Len(Return(Top)) = n /\ DOMAIN Return(Top) = 1 .. n
  BY <1>1, <1>2, <1>3
<1>5. Len(stack) > 1 => n \in 1 .. n
  BY <1>1 DEF n
<1> QED
  BY <1>2, <1>3, <1>4, <1>5 DEF n

-----------------------------------------------------------------------------
(***************************************************************************)
(* The steps.                                                               *)
(***************************************************************************)
LEMMA InitIInv == Init => IInv
<1> SUFFICES ASSUME Init PROVE IInv
  OBVIOUS
<1>1. SoundStore(store) /\ DOMAIN saved = {}
  BY DefaultSound DEF Init
<1>2. StoresInv
  BY <1>1 DEF StoresInv
<1>3. InputsInv
  <2>1. Open(stack) = {} /\ inputIdx = 0
    BY DEF Init, Open
  <2> QED
    BY <2>1, FS_EmptySet DEF InputsInv
<1>4. argv \in Seq(LineSet) /\ stack \in Seq(Frames)
  BY EmptySeq DEF Init
<1>5. \A f \in DOMAIN disk : disk[f] \in Seq(LineSet)
  BY LinesAssumption DEF Init
<1>6. inputIdx \in 0 .. NestLimit - 1 /\ typed \in 0 .. MaxTyped /\ starts \in 0 .. MaxStarts
  BY CommandsAssumption DEF Init
<1>7. {errno, failed} \subseteq BOOLEAN
  BY Zenon DEF Init
<1>8. IsStore(store) /\ \A f \in DOMAIN saved : IsStore(saved[f])
  BY <1>1 DEF SoundStore
<1> QED
  BY <1>2, <1>3, <1>4, <1>5, <1>6, <1>7, <1>8 DEF IInv, TypeOK

\* What a line leaves of the loops, if it opens no file.
LEMMA LineStep ==
    ASSUME TypeOK, InputsInv, NEW l \in NextLines, NEW status \in {"ok", "fail"},
           stack' = Done(status), Counted \/ typed' = typed,
           inputIdx' = inputIdx, DOMAIN disk \subseteq DOMAIN disk'
    PROVE  stack' \in Seq(Frames) /\ typed' \in 0 .. MaxTyped /\ InputsInv'
<1>1. Running /\ (Top.kind = "stdin" => typed < MaxTyped)
  BY NextLineType
<1>2. /\ stack' \in Seq(Frames) /\ DOMAIN stack' = DOMAIN stack
      /\ \A i \in DOMAIN stack : stack'[i].kind = stack[i].kind /\ stack'[i].file = stack[i].file
  BY <1>1, DoneType
<1>3. typed' \in 0 .. MaxTyped
  BY <1>1, CommandsAssumption DEF Counted, TypeOK
<1>4. Open(stack') = Open(stack)
  BY <1>2 DEF Open
<1>5. InputsInv'
  BY <1>2, <1>4 DEF InputsInv, Open
<1> QED
  BY <1>2, <1>3, <1>5

\* The parameters, the files and their contents after a line: unchanged, or set
\* by a parameter's line, or saved.
StoresNext ==
    /\ SoundStore(store)' /\ \A f \in DOMAIN saved' : SoundStore(saved'[f])
    /\ argv' \in Seq(LineSet) /\ \A f \in DOMAIN disk' : disk'[f] \in Seq(LineSet)

LEMMA StoresSame ==
    ASSUME TypeOK, StoresInv, UNCHANGED <<store, disk, saved, argv>> PROVE StoresNext
  BY DEF TypeOK, StoresInv, StoresNext, SoundStore, IsStore

LEMMA LinesStep == ASSUME IInv, Reads, {errno', failed'} \subseteq BOOLEAN PROVE IInv'
<1>0. TypeOK /\ StoresInv /\ InputsInv
  BY DEF IInv
<1>1. SUFFICES /\ StoresNext /\ InputsInv' /\ stack' \in Seq(Frames) /\ inputIdx' \in 0 .. NestLimit - 1
               /\ typed' \in 0 .. MaxTyped /\ starts' \in 0 .. MaxStarts
  BY DEF IInv, TypeOK, StoresInv, StoresNext, SoundStore
<1>2. inputIdx \in 0 .. NestLimit - 1 /\ typed \in 0 .. MaxTyped /\ starts \in 0 .. MaxStarts
  BY <1>0 DEF TypeOK
<1>3. CASE CmdsPar
  <2>1. PICK l \in NextLines : /\ l.cmd = "PAR" /\ store' = ParsGet(l)
                               /\ stack' = Done(IF Accepted(l) THEN "ok" ELSE "fail") /\ Counted
                               /\ UNCHANGED <<disk, saved, argv, inputIdx, starts>>
    BY <1>3 DEF CmdsPar
  <2>2. l \in GoodLines
    BY <1>0, <2>1, NextLineType
  <2>3. SoundStore(ParsGet(l))
    BY <1>0, <2>2, ParsGetSound DEF StoresInv
  <2>4. StoresNext
    BY <1>0, <2>1, <2>3 DEF StoresInv, StoresNext, SoundStore, IsStore, TypeOK
  <2>5. stack' \in Seq(Frames) /\ typed' \in 0 .. MaxTyped /\ InputsInv'
    BY <1>0, <2>1, LineStep
  <2> QED
    BY <1>2, <2>1, <2>4, <2>5
<1>4. CASE Wrong \/ CmdsExit \/ ReadRefused
  <2>1. PICK l \in NextLines : /\ stack' = Done("fail") /\ Counted
                               /\ UNCHANGED <<store, disk, saved, argv, inputIdx, starts>>
    BY <1>4 DEF Wrong, CmdsExit, ReadRefused
  <2>2. stack' \in Seq(Frames) /\ typed' \in 0 .. MaxTyped /\ InputsInv'
    BY <1>0, <2>1, LineStep
  <2> QED
    BY <1>0, <1>2, <2>1, <2>2, StoresSame
<1>5. CASE CmdsRun
  <2>1. PICK l \in NextLines, status \in {"ok", "fail"} :
            /\ store' \in {store, Unperturbed} /\ stack' = Done(status) /\ Counted
            /\ UNCHANGED <<disk, saved, argv, inputIdx, starts>>
    BY <1>5 DEF CmdsRun
  <2>2. SoundStore(store')
    BY <1>0, <2>1, UnperturbedSound DEF StoresInv
  <2>3. StoresNext
    BY <1>0, <2>1, <2>2 DEF StoresInv, StoresNext, SoundStore, IsStore, TypeOK
  <2>4. stack' \in Seq(Frames) /\ typed' \in 0 .. MaxTyped /\ InputsInv'
    BY <1>0, <2>1, LineStep
  <2> QED
    BY <1>2, <2>1, <2>3, <2>4
<1>6. CASE SkipEntry
  <2>1. PICK l \in NextLines : /\ stack' = Done(Top.status)
                               /\ UNCHANGED <<store, disk, saved, argv, inputIdx, typed, starts>>
    BY <1>6 DEF SkipEntry
  <2>2. Top.status \in {"ok", "fail"}
    BY <1>0, NextLineType, TopType DEF Frames
  <2>3. stack' \in Seq(Frames) /\ typed' \in 0 .. MaxTyped /\ InputsInv'
    BY <1>0, <2>1, <2>2, LineStep
  <2> QED
    BY <1>0, <1>2, <2>1, <2>3, StoresSame
<1>7. CASE CmdsSave
  <2>1. PICK l \in NextLines :
            /\ disk' = [f \in DOMAIN disk \cup {l.file} |-> IF f = l.file THEN SavedLines ELSE disk[f]]
            /\ saved' = [f \in DOMAIN saved \cup {l.file} |-> IF f = l.file THEN store ELSE saved[f]]
            /\ stack' = Done("ok") /\ Counted
            /\ UNCHANGED <<store, argv, inputIdx, starts>>
    BY <1>7 DEF CmdsSave
  <2>2. SavedLines \in Seq(LineSet)
    BY <1>0, SavedLinesType DEF StoresInv
  <2>3. \A f \in DOMAIN disk' : disk'[f] \in Seq(LineSet)
    BY <1>0, <2>1, <2>2 DEF TypeOK
  <2>4. \A f \in DOMAIN saved' : SoundStore(saved'[f])
    BY <1>0, <2>1 DEF StoresInv
  <2>5. SoundStore(store)' /\ argv' \in Seq(LineSet)
    BY <1>0, <2>1 DEF StoresInv, SoundStore, IsStore, TypeOK
  <2>6. stack' \in Seq(Frames) /\ typed' \in 0 .. MaxTyped /\ InputsInv'
    BY <1>0, <2>1, LineStep
  <2> QED
    BY <1>2, <2>1, <2>3, <2>4, <2>5, <2>6 DEF StoresNext
<1>8. CASE CmdsRead
  <2>1. PICK l \in NextLines : /\ l.cmd = "READ" /\ Opens(l)
                               /\ stack' = Append(Done(Top.status),
                                    Frame(CASE l.file = "stdin" -> "stdin" [] l.file = "*" -> "dir"
                                            [] OTHER -> "file", l.file))
                               /\ inputIdx' = (IF l.file = "*" THEN inputIdx ELSE inputIdx + 1)
                               /\ Counted /\ UNCHANGED <<store, disk, saved, argv, starts>>
    BY <1>8 DEF CmdsRead
  <2> DEFINE kind == IF l.file = "stdin" THEN "stdin" ELSE IF l.file = "*" THEN "dir" ELSE "file"
             fr == Frame(kind, l.file)
             n == Len(stack)
  <2>2. Running /\ l \in OtherLines /\ (Top.kind = "stdin" => typed < MaxTyped)
    BY <1>0, <2>1, NextLineType
  <2>3. stack' = Append(Done(Top.status), fr)
    BY <2>1
  <2>4. /\ Top.status \in {"ok", "fail"} /\ n \in Nat \ {0} /\ DOMAIN stack = 1 .. n
    BY <1>0, <2>2, TopType DEF Frames
  <2>5. fr \in Frames /\ fr.kind = kind /\ fr.file = l.file
    BY <2>2 DEF Frame, Frames, OtherLines
  <2>6. /\ Done(Top.status) \in Seq(Frames) /\ Len(Done(Top.status)) = n
        /\ \A i \in 1 .. n : /\ Done(Top.status)[i].kind = stack[i].kind
                             /\ Done(Top.status)[i].file = stack[i].file
    BY <1>0, <2>2, <2>4, DoneType
  <2> HIDE DEF fr, kind, n
  <2>7. /\ stack' \in Seq(Frames) /\ Len(stack') = n + 1 /\ stack'[n + 1] = fr
        /\ \A i \in 1 .. n : stack'[i].kind = stack[i].kind /\ stack'[i].file = stack[i].file
    BY <2>3, <2>5, <2>6, AppendProperties
  <2>8. DOMAIN stack' = 1 .. n + 1
    BY <2>7, LenProperties
  <2>9. inputIdx' \in 0 .. NestLimit - 1 /\ typed' \in 0 .. MaxTyped
    <3>1. inputIdx < NestLimit - 1
      BY <2>1 DEF Opens, Nesting
    <3> QED
      BY <1>2, <2>1, <2>2, <3>1, CommandsAssumption DEF Counted
  <2>10. InputsInv'
    <3>1. \A i \in 1 .. n + 1 : i \in 1 .. n \/ i = n + 1
      BY <2>4
    <3>2. \A i \in 1 .. n : i \in 1 .. n + 1 /\ i # n + 1
      BY <2>4
    <3>3. Open(stack') = IF kind = "file" THEN Open(stack) \cup {n + 1} ELSE Open(stack)
      BY <2>4, <2>5, <2>7, <2>8, <3>1, <3>2 DEF Open
    <3>4. n + 1 \notin Open(stack)
      BY <2>4, <3>2 DEF Open
    <3>5. kind = "file" => l.file \in DOMAIN disk /\ l.file # "*"
      BY <2>1 DEF kind, Opens
    <3>6. \A i \in Open(stack') : stack'[i].file \in DOMAIN disk'
      BY <1>0, <2>1, <2>4, <2>5, <2>7, <3>3, <3>5 DEF InputsInv, Open
    <3>7. IsFiniteSet(Open(stack)) /\ Cardinality(Open(stack)) <= inputIdx
          /\ Cardinality(Open(stack)) \in Nat
      BY <1>0, FS_CardinalityType DEF InputsInv
    <3>8. /\ IsFiniteSet(Open(stack'))
          /\ Cardinality(Open(stack')) = Cardinality(Open(stack)) + (IF kind = "file" THEN 1 ELSE 0)
      BY <3>3, <3>4, <3>7, FS_AddElement
    <3>9. Cardinality(Open(stack')) <= inputIdx'
      BY <1>2, <2>1, <3>5, <3>7, <3>8
    <3> QED
      BY <3>6, <3>8, <3>9 DEF InputsInv
  <2> QED
    BY <1>0, <1>2, <2>1, <2>7, <2>9, <2>10, StoresSame
<1>9. CASE CmdsQuit
  <2>1. stack' = << >> /\ UNCHANGED <<store, disk, saved, argv, inputIdx, typed, starts>>
    BY <1>9 DEF CmdsQuit
  <2>2. Open(stack') = {}
    BY <2>1 DEF Open
  <2>3. InputsInv'
    <3>1. IsFiniteSet({}) /\ Cardinality({}) = 0 /\ 0 <= inputIdx
      BY <1>2, FS_EmptySet
    <3>2. Open(stack') = {} /\ inputIdx' = inputIdx
      BY <2>1, <2>2
    <3> QED
      BY <3>1, <3>2 DEF InputsInv
  <2>4. stack' \in Seq(Frames)
    BY <2>1
  <2> QED
    BY <1>0, <1>2, <2>1, <2>3, <2>4, StoresSame
<1> QED
  BY <1>3, <1>4, <1>5, <1>6, <1>7, <1>8, <1>9 DEF Reads

\* The end of a loop: what is left are the loops that were there before it.
LEMMA ReturnStep ==
    ASSUME TypeOK, InputsInv, Running, stack' = Return(Top), UNCHANGED disk,
           inputIdx' = IF Top.kind = "file" THEN inputIdx - 1 ELSE inputIdx
    PROVE  stack' \in Seq(Frames) /\ inputIdx' \in 0 .. NestLimit - 1 /\ InputsInv'
<1> DEFINE n == Len(stack)
<1>1. /\ n \in Nat \ {0} /\ DOMAIN stack = 1 .. n
      /\ stack' \in Seq(Frames) /\ DOMAIN stack' = 1 .. n - 1
      /\ \A i \in 1 .. n - 1 : stack'[i].kind = stack[i].kind /\ stack'[i].file = stack[i].file
      /\ inputIdx \in 0 .. NestLimit - 1
  BY TopType, ReturnType DEF TypeOK
<1>2. /\ \A i \in Open(stack) : stack[i].file \in DOMAIN disk
      /\ IsFiniteSet(Open(stack)) /\ Cardinality(Open(stack)) <= inputIdx
      /\ Cardinality(Open(stack)) \in Nat
  BY FS_CardinalityType DEF InputsInv
<1>3. Top = stack[n]
  BY DEF Top
<1> HIDE DEF n
<1>4. \A i : i \in 1 .. n - 1 <=> i \in 1 .. n /\ i # n
  BY <1>1
<1>5. Open(stack') = Open(stack) \ {n}
  BY <1>1, <1>4 DEF Open
<1>6. n \in Open(stack) <=> Top.kind = "file"
  <2>1. n \in 1 .. n
    BY <1>1
  <2> QED
    BY <1>1, <1>3, <2>1 DEF Open
<1>7. /\ IsFiniteSet(Open(stack')) /\ Cardinality(Open(stack')) \in Nat
      /\ Cardinality(Open(stack')) =
           Cardinality(Open(stack)) - (IF Top.kind = "file" THEN 1 ELSE 0)
  BY <1>2, <1>5, <1>6, FS_RemoveElement, FS_CardinalityType
<1>8. Cardinality(Open(stack')) <= inputIdx'
  BY <1>1, <1>2, <1>7
<1>9. inputIdx' \in 0 .. NestLimit - 1
  BY <1>1, <1>7, <1>8, CommandsAssumption
<1>10. \A i \in Open(stack') : stack'[i].file \in DOMAIN disk'
  BY <1>1, <1>2, <1>4, <1>5 DEF Open
<1> QED
  BY <1>1, <1>7, <1>8, <1>9, <1>10 DEF InputsInv

LEMMA ClosesStep == ASSUME IInv, Closes \/ Main, {errno', failed'} \subseteq BOOLEAN PROVE IInv'
<1>0. TypeOK /\ StoresInv /\ InputsInv
  BY DEF IInv
<1>1. SUFFICES /\ StoresNext /\ InputsInv' /\ stack' \in Seq(Frames) /\ inputIdx' \in 0 .. NestLimit - 1
               /\ typed' \in 0 .. MaxTyped /\ starts' \in 0 .. MaxStarts
  BY DEF IInv, TypeOK, StoresInv, StoresNext, SoundStore
<1>2. inputIdx \in 0 .. NestLimit - 1 /\ typed \in 0 .. MaxTyped /\ starts \in 0 .. MaxStarts
  BY <1>0 DEF TypeOK
<1>3. CASE CloseFile \/ EndOfStdin \/ (CloseDir /\ stack' = Return(Top))
  <2>1. /\ Running /\ stack' = Return(Top)
        /\ inputIdx' = IF Top.kind = "file" THEN inputIdx - 1 ELSE inputIdx
        /\ UNCHANGED <<store, disk, saved, argv, typed, starts>>
    BY <1>3 DEF CloseFile, EndOfStdin, CloseDir
  <2>2. stack' \in Seq(Frames) /\ inputIdx' \in 0 .. NestLimit - 1 /\ InputsInv'
    BY <1>0, <2>1, ReturnStep
  <2> QED
    BY <1>0, <1>2, <2>1, <2>2, StoresSame
<1>4. CASE End \/ (CloseDir /\ stack' = << >>)
  <2>1. stack' = << >> /\ UNCHANGED <<store, disk, saved, argv, inputIdx, typed, starts>>
    BY <1>4 DEF End, CloseDir
  <2>2. Open(stack') = {}
    BY <2>1 DEF Open
  <2>3. InputsInv'
    <3>1. IsFiniteSet({}) /\ Cardinality({}) = 0 /\ 0 <= inputIdx
      BY <1>2, FS_EmptySet
    <3>2. Open(stack') = {} /\ inputIdx' = inputIdx
      BY <2>1, <2>2
    <3> QED
      BY <3>1, <3>2 DEF InputsInv
  <2>4. stack' \in Seq(Frames)
    BY <2>1
  <2> QED
    BY <1>0, <1>2, <2>1, <2>3, <2>4, StoresSame
<1>5. CASE Main
  <2> DEFINE fr == [kind |-> "args", file |-> "args", next |-> 1, status |-> "ok", fresh |-> TRUE]
  <2>1. /\ starts < MaxStarts /\ argv' \in Argvs /\ starts' = starts + 1
        /\ store' = Default /\ inputIdx' = 0 /\ typed' = 0 /\ stack' = << fr >>
        /\ UNCHANGED <<disk, saved>>
    BY <1>5 DEF Main
  <2>2. fr \in Frames /\ fr.kind = "args"
    BY DEF Frames, Words
  <2> HIDE DEF fr
  <2>3. stack' \in Seq(Frames) /\ Open(stack') = {}
    BY <2>1, <2>2 DEF Open
  <2>4. InputsInv'
    <3>1. IsFiniteSet({}) /\ Cardinality({}) = 0
      BY FS_EmptySet
    <3>2. Open(stack') = {} /\ inputIdx' = 0
      BY <2>1, <2>3
    <3> QED
      BY <3>1, <3>2 DEF InputsInv
  <2>5. argv' \in Seq(LineSet)
    BY <2>1, LinesAssumption
  <2>6. SoundStore(store)' /\ \A f \in DOMAIN saved' : SoundStore(saved'[f])
    BY <1>0, <2>1, DefaultSound DEF StoresInv, SoundStore, IsStore
  <2>7. \A f \in DOMAIN disk' : disk'[f] \in Seq(LineSet)
    BY <1>0, <2>1 DEF TypeOK
  <2>8. inputIdx' \in 0 .. NestLimit - 1 /\ typed' \in 0 .. MaxTyped /\ starts' \in 0 .. MaxStarts
    BY <1>2, <2>1, CommandsAssumption
  <2> QED
    BY <2>3, <2>4, <2>5, <2>6, <2>7, <2>8 DEF StoresNext
<1> QED
  BY <1>3, <1>4, <1>5 DEF Closes, CloseDir

LEMMA StepIInv == IInv /\ [Next]_vars => IInv'
<1> SUFFICES ASSUME IInv, [Next]_vars PROVE IInv'
  OBVIOUS
<1>1. CASE Next
  <2>1. errno \in BOOLEAN
    BY DEF IInv, TypeOK
  <2>2. failed' \in BOOLEAN
    BY <1>1, Zenon DEF Next, Failing
  <2>3. errno' \in BOOLEAN
    <3>1. CASE Reads
      <4>1. CASE ReadRefused
        <5>1. PICK l \in NextLines : errno' = (errno \/ (Nesting(inputIdx) /\ l.file # "stdin"))
          BY <4>1 DEF ReadRefused
        <5> QED
          BY <5>1, Zenon
      <4>2. CASE CmdsPar \/ Wrong \/ CmdsRun
        BY <4>2, Zenon DEF CmdsPar, Wrong, CmdsRun
      <4>3. CASE CmdsSave \/ CmdsRead \/ SkipEntry \/ CmdsExit \/ CmdsQuit
        <5>1. errno' = errno
          BY <4>3 DEF CmdsSave, CmdsRead, SkipEntry, CmdsExit, CmdsQuit
        <5> QED
          BY <2>1, <5>1
      <4> QED
        BY <3>1, <4>1, <4>2, <4>3 DEF Reads
    <3>2. CASE Closes \/ Main
      <4>1. errno' = FALSE \/ errno' = errno
        BY <3>2 DEF Closes, CloseFile, EndOfStdin, CloseDir, End, Main
      <4> QED
        BY <2>1, <4>1, Zenon
    <3> QED
      BY <1>1, <3>1, <3>2 DEF Next
  <2>4. {errno', failed'} \subseteq BOOLEAN
    BY <2>2, <2>3, Zenon
  <2> QED
    BY <1>1, <2>4, LinesStep, ClosesStep DEF Next
<1>2. CASE UNCHANGED vars
  BY <1>2 DEF vars, IInv, TypeOK, StoresInv, SoundStore, IsStore, InputsInv, Open
<1> QED
  BY <1>1, <1>2

\* For any parameters, files and command lines: every parameter is an array of its
\* length, with a place for all its elements and zero after them, whatever lines
\* were typed and read, with errors in them or not, and so is every parameter that
\* was saved; what SAVE writes are lines, and every file being read has its place
\* among the inputs.
THEOREM StoreSoundHolds == Spec => []StoreSound
<1>1. IInv => StoreSound
  BY DEF IInv, StoresInv, SoundStore, SoundArray, StoreSound, TrailingZero
<1> QED
  BY <1>1, InitIInv, StepIInv, PTL DEF Spec

-----------------------------------------------------------------------------
(***************************************************************************)
(* Errors.                                                                  *)
(***************************************************************************)
\* After a failed line of a file, with STOP_ON_ERROR, the loop at hand is one that
\* is left, and its status is that of the line.
Leaving == failed => Running /\ ~AtPrompt /\ Top.status = "fail" /\ Enabled(store)

\* Nothing but the end of loops is left then, and their end passes the error on.
LEMMA LeavingStep ==
    ASSUME IInv, Leaving, failed, Next
    PROVE  /\ store' = store /\ disk' = disk /\ Len(stack') < Len(stack)
           /\ failed' => Running' /\ ~AtPrompt' /\ Top'.status = "fail" /\ Enabled(store')
<1>1. /\ Running /\ Top.kind \notin {"args", "stdin"} /\ Top.status = "fail" /\ Enabled(store)
  BY DEF Leaving, AtPrompt
<1>2. Left
  BY <1>1 DEF Left
<1>3. NextLines = {}
  BY <1>2 DEF NextLines
<1>4. CloseFile \/ CloseDir
  BY <1>1, <1>3 DEF Next, Reads, CmdsPar, Wrong, CmdsRun, CmdsSave, CmdsRead, ReadRefused,
                    SkipEntry, CmdsExit, CmdsQuit, Closes, EndOfStdin, End, Main
<1>5. stack' = Return(Top) /\ store' = store /\ disk' = disk
  BY <1>2, <1>4 DEF CloseFile, CloseDir
<1>6. /\ Len(stack) \in Nat \ {0} /\ stack' \in Seq(Frames) /\ Len(stack') = Len(stack) - 1
      /\ Len(stack) > 1 => stack'[Len(stack) - 1].status = "fail"
  BY <1>1, <1>5, TopType, ReturnType DEF IInv
<1>7. ASSUME failed' PROVE Running' /\ ~AtPrompt' /\ Top'.status = "fail"
  <2>1. Running' /\ ~AtPrompt'
    BY <1>7 DEF Next, Failing
  <2>2. Len(stack') \in Nat \ {0}
    BY <1>6, <2>1, EmptySeq DEF Running
  <2>3. Len(stack) > 1 /\ Top' = stack'[Len(stack) - 1]
    BY <1>6, <2>2 DEF Top
  <2> QED
    BY <1>6, <2>1, <2>3
<1> QED
  BY <1>1, <1>5, <1>6, <1>7

LEMMA StepLeaving == IInv /\ Leaving /\ [Next]_vars => Leaving'
<1> SUFFICES ASSUME IInv, Leaving, [Next]_vars, failed'
             PROVE  Running' /\ ~AtPrompt' /\ Top'.status = "fail" /\ Enabled(store')
  BY DEF Leaving
<1>1. CASE UNCHANGED vars
  BY <1>1 DEF vars, Leaving, Running, AtPrompt, Top
<1>2. CASE Next /\ failed
  BY <1>2, LeavingStep
<1>3. CASE Next /\ ~failed
  BY <1>3 DEF Next, Failing
<1> QED
  BY <1>1, <1>2, <1>3

\* For any files, however they read each other: with STOP_ON_ERROR a failed line
\* is followed by the ends of all the files being read, and by nothing else, until
\* the prompt or the command line.
THEOREM ErrorStopsHolds == Spec => ErrorStops
<1>1. Init => Leaving
  BY DEF Init, Leaving
<1>2. IInv /\ Leaving /\ [Next]_vars
      => [failed => /\ store' = store /\ disk' = disk /\ Len(stack') < Len(stack)]_vars
  BY LeavingStep
<1> QED
  BY <1>1, <1>2, InitIInv, StepIInv, StepLeaving, PTL DEF Spec, ErrorStops

-----------------------------------------------------------------------------
(***************************************************************************)
(* The files that SAVE writes: their lines put the values back.               *)
(***************************************************************************)
\* A value as it is read again
Reread(x) == [x EXCEPT !.v = [i \in DOMAIN @ |-> Printed(@[i])]]

\* An array has only values that convert, does not become empty if it was not so at
\* the start, and does not become shorter than it was then if its length is fixed.
Kept(x, p) ==
    /\ \A i \in 1 .. Pars[p].max : x.v[i] # Bad
    /\ Len(Pars[p].default) > 0 => x.n > 0
    /\ Pars[p].fixed => x.n >= Len(Pars[p].default)

KeptStore(s) ==
    /\ SoundStore(s) /\ s = [p \in DOMAIN Pars |-> s[p]]
    /\ \A p \in DOMAIN Pars : \A sel \in Selectors(p) : Kept(s[p][sel], p)

\* The line of a parameter for a selector, in the file of a store
PrintedLine(sv, p, s) ==
    Par(p, IF s = 0 THEN NoIndex ELSE s, NoIndex, [i \in 1 .. sv[p][s].n |-> Printed(sv[p][s].v[i])])

\* A number is printed as a number, and zero as zero.
LEMMA PrintedType ==
    ASSUME NEW v \in Int PROVE Printed(v) \in Int /\ (v # Bad => Printed(v) # Bad) /\ Printed(0) = 0
  BY CommandsAssumption DEF Printed, Bad

LEMMA RereadIs ==
    ASSUME NEW x, NEW n, NEW v, x = [n |-> n, v |-> v]
    PROVE  Reread(x) = [n |-> n, v |-> [i \in DOMAIN v |-> Printed(v[i])]]
<1>1. x.n = n /\ x.v = v /\ DOMAIN x = {"n", "v"}
  OBVIOUS
<1> DEFINE w == [i \in DOMAIN v |-> Printed(v[i])]
<1>2. Reread(x) = [x EXCEPT !.v = w]
  BY <1>1 DEF Reread
<1> HIDE DEF w
<1>3. [x EXCEPT !.v = w] = [n |-> n, v |-> w]
  OBVIOUS
<1> QED
  BY <1>2, <1>3 DEF w

\* The values the program starts with, which are Kept.
LEMMA DefaultIs ==
    ASSUME NEW p \in DOMAIN Pars, NEW s \in Selectors(p)
    PROVE  Default[p][s] = [n |-> Len(Pars[p].default),
                            v |-> [i \in 1 .. Pars[p].max |->
                                     IF i <= Len(Pars[p].default) THEN Pars[p].default[i] ELSE 0]]
  BY DEF Default

LEMMA DefaultLen ==
    ASSUME NEW p \in DOMAIN Pars, NEW s \in Selectors(p)
    PROVE  Default[p][s].n = Len(Pars[p].default)
<1> DEFINE v == [i \in 1 .. Pars[p].max |->
                   IF i <= Len(Pars[p].default) THEN Pars[p].default[i] ELSE 0]
<1>1. Default[p][s] = [n |-> Len(Pars[p].default), v |-> v]
  BY DefaultIs
<1> HIDE DEF v
<1> QED
  BY <1>1

LEMMA DefaultKept == KeptStore(Default)
<1>1. ASSUME NEW p \in DOMAIN Pars, NEW s \in Selectors(p) PROVE Kept(Default[p][s], p)
  <2>1. /\ Len(Pars[p].default) \in 0 .. Pars[p].max /\ Pars[p].default \in Seq(Int)
        /\ Pars[p].max \in Nat
    BY ParType
  <2>2. Bad \notin ToSet(Pars[p].default)
    BY ParsAssumption
  <2>3. \A i \in 1 .. Len(Pars[p].default) : Pars[p].default[i] # Bad
    BY <2>1, <2>2, LenProperties DEF ToSet
  <2> DEFINE d == Pars[p].default
             v == [i \in 1 .. Pars[p].max |-> IF i <= Len(d) THEN d[i] ELSE 0]
  <2>0. Default[p][s] = [n |-> Len(d), v |-> v]
    BY DefaultIs
  <2>4. \A i \in 1 .. Pars[p].max : v[i] # Bad
    BY <2>1, <2>3 DEF Bad
  <2> HIDE DEF v
  <2>5. Default[p][s].n = Len(Pars[p].default) /\ Default[p][s].v = v
    BY <2>0
  <2> QED
    BY <2>1, <2>4, <2>5 DEF Kept
<1> QED
  <2>1. Default = [p \in DOMAIN Pars |-> Default[p]]
    BY DEF Default
  <2> QED
    BY <1>1, <2>1, DefaultSound DEF KeptStore

\* Whatever a line sets, arrays remain so.
LEMMA SetToKept ==
    ASSUME KeptStore(store), NEW l \in GoodLines, NEW s \in Selectors(l.par)
    PROVE  Kept(SetTo(l, s), l.par)
<1> DEFINE p == l.par
           x == store[p][s]
<1>1. /\ p \in DOMAIN Pars /\ Pars[p].max \in Nat \ {0} /\ Len(Pars[p].default) \in 0 .. Pars[p].max
      /\ l.vals \in Seq(Int) /\ First(l) \in Nat /\ Stored(l) \in Nat
  BY LineType, ParType, StoredType
<1>2. SoundArray(x, p) /\ Kept(x, p)
  BY <1>1 DEF KeptStore, SoundStore
<1>3. x.n \in 0 .. Pars[p].max /\ x.v \in [1 .. Pars[p].max -> Int] /\ DOMAIN x.v = 1 .. Pars[p].max
      /\ x = [n |-> x.n, v |-> x.v]
  BY <1>2 DEF SoundArray, Arrays
<1> DEFINE end == First(l) + Stored(l)
           n == IF x.n < end \/ Shrinks(l) THEN end ELSE x.n
           v == [i \in DOMAIN x.v |->
                   IF i > First(l) /\ i <= end THEN l.vals[i - First(l)]
                   ELSE IF i > end /\ Shrinks(l) THEN 0 ELSE x.v[i]]
           e == l.vals[s - l.sel + 1]
<1>4. CASE SetTo(l, s) = x
  BY <1>2, <1>4
<1>5. CASE Consecutive(l) /\ s >= l.sel /\ s < l.sel + Stored(l)
  <2>1. s \in Int /\ l.sel \in Int
    <3>1. s \in Int
      BY CommandsAssumption DEF Selectors
    <3>2. l.sel = NoIndex \/ l.sel = AllCycles \/ l.sel \in 0 .. MaxSel
      BY LineType
    <3> QED
      BY <3>1, <3>2, CommandsAssumption DEF NoIndex, AllCycles
  <2>2. s - l.sel + 1 \in 1 .. Stored(l)
    BY <1>1, <1>5, <2>1
  <2>3. e # Bad
    BY <2>2, StoredType
  <2>4. SetTo(l, s) = [x EXCEPT !.v[1] = e]
    BY <1>5 DEF SetTo
  <2> HIDE DEF e, x
  <2>5. SetTo(l, s) = [n |-> x.n, v |-> [x.v EXCEPT ![1] = e]]
    BY <1>3, <2>4
  <2> QED
    BY <1>2, <1>3, <2>3, <2>5 DEF Kept
<1>6. CASE ~Consecutive(l) /\ Stored(l) # 0 /\ SetTo(l, s) = Element(x, l)
  <2>1. SetTo(l, s) = [n |-> n, v |-> v]
    BY <1>6 DEF Element
  <2>2. \A i \in 1 .. Stored(l) : l.vals[i] # Bad
    BY StoredType
  <2>3. Pars[p].fixed => ~Shrinks(l)
    BY DEF Shrinks
  <2> HIDE DEF x
  <2>4. ASSUME NEW i \in 1 .. Pars[p].max PROVE v[i] # Bad
    <3>1. CASE i > First(l) /\ i <= end
      <4>1. i - First(l) \in 1 .. Stored(l)
        BY <1>1, <3>1
      <4> QED
        BY <1>3, <2>2, <3>1, <4>1
    <3>2. CASE ~(i > First(l) /\ i <= end)
      BY <1>2, <1>3, <3>2 DEF Kept, Bad
    <3> QED
      BY <3>1, <3>2
  <2>5. n > 0 /\ (~Shrinks(l) => n >= x.n)
    BY <1>1, <1>3, <1>6
  <2> HIDE DEF n, v
  <2>6. (Len(Pars[p].default) > 0 => n > 0) /\ (Pars[p].fixed => n >= Len(Pars[p].default))
    <3>1. n \in Int
      BY <1>1, <1>3 DEF n
    <3> QED
      BY <1>1, <1>2, <1>3, <2>3, <2>5, <3>1 DEF Kept
  <2> QED
    BY <2>1, <2>4, <2>6 DEF Kept
<1>7. \/ SetTo(l, s) = x
      \/ Consecutive(l) /\ s >= l.sel /\ s < l.sel + Stored(l)
      \/ ~Consecutive(l) /\ Stored(l) # 0 /\ SetTo(l, s) = Element(x, l)
  BY DEF SetTo, Element
<1> QED
  BY <1>4, <1>5, <1>6, <1>7

LEMMA ParsGetKept == ASSUME KeptStore(store), NEW l \in GoodLines PROVE KeptStore(ParsGet(l))
<1>1. SoundStore(ParsGet(l)) /\ IsStore(store)
  BY ParsGetSound DEF KeptStore, SoundStore
<1>2. ASSUME NEW q \in DOMAIN Pars, NEW s \in Selectors(q) PROVE Kept(ParsGet(l)[q][s], q)
  <2>1. CASE q = l.par
    BY <1>1, <2>1, ParsGetIs, SetToKept
  <2>2. CASE q # l.par
    BY <1>1, <2>2, ParsGetIs DEF KeptStore
  <2> QED
    BY <2>1, <2>2
<1>3. ParsGet(l) = [q \in DOMAIN Pars |-> ParsGet(l)[q]]
  BY <1>1 DEF ParsGet, IsStore
<1> QED
  BY <1>1, <1>2, <1>3 DEF KeptStore

LEMMA UnperturbedKept == ASSUME KeptStore(store) PROVE KeptStore(Unperturbed)
<1>1. CASE Unperturbed = store
  BY <1>1
<1>2. CASE Unperturbed # store
  <2>1. SoundStore(store) /\ DOMAIN store = DOMAIN Pars
    BY DEF KeptStore, SoundStore, IsStore
  <2>2. ASSUME NEW p \in {"volts", "time"} PROVE \A s \in Selectors(p) : Kept(Unperturbed[p][s], p)
    <3>1. PICK e \in {0, Never} :
            Unperturbed[p] = [s \in {0} |-> [n |-> 1, v |-> [i \in 1 .. 1 |-> e]]]
      BY <1>2, <2>1, UnperturbedIs
    <3>2. Selectors(p) = {0} /\ Pars[p].max = 1 /\ e # Bad /\ p \in DOMAIN Pars
      BY <1>2, <2>1, UnperturbedIs DEF Never, Bad
    <3> DEFINE x == [n |-> 1, v |-> [i \in 1 .. 1 |-> e]]
    <3>3. x.n = 1 /\ \A i \in 1 .. 1 : x.v[i] # Bad
      BY <3>2
    <3>4. Unperturbed[p] = [s \in {0} |-> x]
      BY <3>1
    <3> HIDE DEF x
    <3>5. Kept(x, p)
      <4>1. \A i \in 1 .. Pars[p].max : x.v[i] # Bad
        BY <3>2, <3>3
      <4>2. Len(Pars[p].default) = 1
        BY ParsAssumption
      <4> QED
        BY <3>3, <4>1, <4>2 DEF Kept
    <3> QED
      BY <3>2, <3>4, <3>5
  <2>3. \A p \in DOMAIN Pars : \A s \in Selectors(p) : Kept(Unperturbed[p][s], p)
    BY <1>2, <2>1, <2>2, UnperturbedIs DEF KeptStore
  <2>4. Unperturbed = [p \in DOMAIN Pars |-> Unperturbed[p]]
    BY <1>2, <2>1 DEF Unperturbed
  <2> QED
    BY <2>1, <2>3, <2>4, UnperturbedSound DEF KeptStore
<1> QED
  BY <1>1, <1>2

\* A saved line puts its parameter back and leaves the others alone.
LEMMA LineRestores ==
    ASSUME KeptStore(store), NEW sv, KeptStore(sv), NEW p \in DOMAIN Pars, NEW s \in Selectors(p),
           sv[p][s].n # 0, store[p][s] = Default[p][s] \/ store[p][s] = Reread(sv[p][s]),
           NEW l, l = PrintedLine(sv, p, s)
    PROVE  /\ l \in GoodLines /\ l.cmd = "PAR" /\ l.par = p
           /\ ParsGet(l)[p][s] = Reread(sv[p][s])
           /\ \A q \in DOMAIN Pars : \A r \in Selectors(q) :
                 q # p \/ r # s => ParsGet(l)[q][r] = store[q][r]
<1> DEFINE x == store[p][s]
           y == sv[p][s]
           max == Pars[p].max
           vals == [i \in 1 .. y.n |-> Printed(y.v[i])]
<1>1. max \in Nat \ {0} /\ Len(Pars[p].default) \in 0 .. max /\ Pars[p].cyc \in BOOLEAN
  BY ParType
<1>2. SoundArray(x, p) /\ Kept(x, p) /\ SoundArray(y, p) /\ Kept(y, p) /\ IsStore(store)
  BY DEF KeptStore, SoundStore
<1>3. /\ y.n \in 1 .. max /\ y.v \in [1 .. max -> Int] /\ DOMAIN y.v = 1 .. max
      /\ y = [n |-> y.n, v |-> y.v] /\ \A i \in y.n + 1 .. max : y.v[i] = 0
      /\ \A i \in 1 .. max : y.v[i] \in Int /\ y.v[i] # Bad
  <2>0. y.n # 0
    OBVIOUS
  <2> HIDE DEF y, x
  <2>1. y \in [n : 0 .. max, v : [1 .. max -> Int]]
    BY <1>2 DEF SoundArray, Arrays
  <2>2. y.n \in 1 .. max
    BY <1>1, <2>0, <2>1
  <2>3. \A i \in y.n + 1 .. max : y.v[i] = 0
    BY <1>2 DEF SoundArray
  <2>4. \A i \in 1 .. max : y.v[i] # Bad
    BY <1>2 DEF Kept
  <2>5. y.v \in [1 .. max -> Int] /\ y = [n |-> y.n, v |-> y.v]
    BY <2>1
  <2> HIDE DEF max
  <2>6. DOMAIN y.v = 1 .. max /\ \A i \in 1 .. max : y.v[i] \in Int
    BY <2>5
  <2> QED
    BY <2>2, <2>3, <2>4, <2>5, <2>6
<1>4. /\ x.n \in 0 .. max /\ x.v \in [1 .. max -> Int] /\ DOMAIN x.v = 1 .. max
      /\ x = [n |-> x.n, v |-> x.v] /\ \A i \in x.n + 1 .. max : x.v[i] = 0
  BY <1>1, <1>2 DEF SoundArray, Arrays
<1>5. l = Par(p, IF s = 0 THEN NoIndex ELSE s, NoIndex, vals)
  BY DEF PrintedLine
<1>6. Reread(y) = [n |-> y.n, v |-> [i \in 1 .. max |-> Printed(y.v[i])]]
  <2> HIDE DEF y
  <2>1. y = [n |-> y.n, v |-> y.v] /\ DOMAIN y.v = 1 .. max
    BY <1>3
  <2>2. Reread(y) = [n |-> y.n, v |-> [i \in DOMAIN y.v |-> Printed(y.v[i])]]
    BY <2>1, RereadIs
  <2> QED
    BY <2>1, <2>2
<1>7. Pars[p].fixed => x.n <= y.n
  <2>1. CASE x = Default[p][s]
    <3>1. x.n = Len(Pars[p].default)
      BY <2>1, DefaultLen
    <3> QED
      BY <1>2, <3>1 DEF Kept
  <2>2. CASE x = Reread(y)
    <3>1. x.n = y.n
      BY <1>6, <2>2
    <3> QED
      BY <1>3, <3>1
  <2> QED
    BY <2>1, <2>2
<1>8. s \in 0 .. MaxSel /\ MaxSel \in Nat /\ (s # 0 => Pars[p].cyc)
  BY CommandsAssumption DEF Selectors
<1> HIDE DEF x, y, max
<1>9. ASSUME NEW i \in 1 .. max PROVE Printed(y.v[i]) \in Int /\ Printed(y.v[i]) # Bad
  BY <1>3, PrintedType
<1>10. vals \in Seq(Int) /\ Len(vals) = y.n /\ \A i \in 1 .. y.n : vals[i] = Printed(y.v[i]) /\ vals[i] # Bad
  <2>1. \A i \in 1 .. y.n : i \in 1 .. max
    BY <1>1, <1>3
  <2> QED
    BY <1>3, <1>9, <2>1
<1> HIDE DEF vals
<1>11. /\ l.par = p /\ l.cmd = "PAR" /\ l.sel = (IF s = 0 THEN NoIndex ELSE s) /\ l.idx = NoIndex
       /\ l.vals = vals
  BY <1>5 DEF Par
<1>12. l \in GoodLines
  <2>1. vals # << >>
    BY <1>3, <1>10
  <2>2. l \in ParLines
    BY <1>5, <1>8, <1>10, <2>1 DEF ParLines, Par
  <2> QED
    BY <1>1, <1>11, <2>2 DEF GoodLines, NoIndex, max
<1>13. First(l) = 0
  BY <1>11 DEF First
<1>14. Stored(l) = y.n /\ Accepted(l)
  <2>1. y.n <= MaxPars(l) /\ MaxPars(l) \in Int
    <3>1. CASE Consecutive(l)
      <4>1. max = 1 /\ l.sel = s /\ MaxPars(l) = MaxSel + 1 - s
        BY <1>8, <1>11, <3>1 DEF Consecutive, MaxPars, NoIndex, max
      <4> QED
        BY <1>3, <1>8, <4>1
    <3>2. CASE ~Consecutive(l)
      BY <1>1, <1>3, <1>11, <1>13, <3>2 DEF MaxPars, max
    <3> QED
      BY <3>1, <3>2
  <2>2. /\ Stored(l) \in 0 .. y.n
        /\ Stored(l) < y.n => l.vals[Stored(l) + 1] = Bad \/ Stored(l) + 1 > MaxPars(l)
    BY <1>10, <1>11, <1>12, StoredType
  <2>3. ~(Stored(l) < y.n)
    BY <1>3, <1>10, <1>11, <2>1, <2>2
  <2>4. Stored(l) = y.n
    BY <1>3, <2>2, <2>3
  <2> QED
    BY <1>10, <1>11, <2>4 DEF Accepted
<1>15. /\ DOMAIN ParsGet(l) = DOMAIN Pars
       /\ ParsGet(l)[p] = [r \in Selectors(p) |-> SetTo(l, r)]
       /\ \A q \in DOMAIN Pars : q # p => ParsGet(l)[q] = store[q]
  BY <1>2, <1>11, <1>12, ParsGetIs
<1>16. ASSUME NEW r \in Selectors(p), r # s PROVE SetTo(l, r) = store[p][r]
  <2>1. r \in Int
    BY CommandsAssumption DEF Selectors
  <2>2. CASE Consecutive(l)
    <3>1. max = 1 /\ l.sel = s /\ y.n = 1
      BY <1>3, <1>8, <1>11, <2>2 DEF Consecutive, NoIndex, max
    <3> QED
      BY <1>8, <1>11, <1>14, <1>16, <2>1, <2>2, <3>1 DEF SetTo
  <2>3. CASE ~Consecutive(l)
    <3>1. Selected(l) = {s}
      BY <1>8, <1>11, <2>3 DEF Selected, NoIndex, AllCycles
    <3> QED
      BY <1>11, <1>16, <2>3, <3>1 DEF SetTo
  <2> QED
    BY <2>2, <2>3
<1>17. SetTo(l, s) = Reread(y)
  <2>1. CASE Consecutive(l)
    <3>0. Pars[p].max = 1 /\ Len(Pars[p].default) = 1
      BY <1>11, <2>1, ParType DEF Consecutive
    <3>1. max = 1 /\ l.sel = s /\ y.n = 1 /\ x.n = 1
      BY <1>2, <1>3, <1>8, <1>11, <2>1, <3>0 DEF Consecutive, NoIndex, max, SoundArray
    <3>2. s - l.sel + 1 = 1 /\ s >= l.sel /\ s < l.sel + Stored(l)
      BY <1>8, <1>14, <3>1
    <3>3. SetTo(l, s) = [x EXCEPT !.v[1] = l.vals[1]]
      BY <1>11, <2>1, <3>2 DEF SetTo, x
    <3>4. l.vals[1] = Printed(y.v[1])
      BY <1>10, <1>11, <3>1
    <3>5. SetTo(l, s) = [n |-> x.n, v |-> [x.v EXCEPT ![1] = Printed(y.v[1])]]
      BY <1>4, <3>3, <3>4
    <3>6. [x.v EXCEPT ![1] = Printed(y.v[1])] = [i \in 1 .. max |-> Printed(y.v[i])]
      BY <1>4, <3>1
    <3> QED
      BY <1>6, <3>1, <3>5, <3>6
  <2>2. CASE ~Consecutive(l)
    <3> DEFINE n == IF x.n < y.n \/ Shrinks(l) THEN y.n ELSE x.n
               v == [i \in DOMAIN x.v |->
                       IF i > 0 /\ i <= y.n THEN l.vals[i - 0]
                       ELSE IF i > y.n /\ Shrinks(l) THEN 0 ELSE x.v[i]]
    <3>1. Selected(l) = {s}
      BY <1>8, <1>11, <2>2 DEF Selected, NoIndex, AllCycles
    <3>2. SetTo(l, s) = Element(x, l)
      BY <1>11, <2>2, <3>1 DEF SetTo, x
    <3>3. Stored(l) # 0 /\ First(l) + Stored(l) = y.n /\ y.n \in Nat
      BY <1>3, <1>13, <1>14
    <3>4. Element(x, l) = [n |-> n, v |-> v]
      BY <1>13, <3>3 DEF Element
    <3>5. Shrinks(l) \/ x.n <= y.n
      <4>1. Shrinks(l) <=> ~Pars[p].fixed /\ max > 1
        BY <1>11, <1>14 DEF Shrinks, max
      <4> QED
        BY <1>1, <1>3, <1>4, <1>7, <4>1
    <3>6. n = y.n
      BY <1>3, <1>4, <3>5
    <3>7. ASSUME NEW i \in 1 .. max PROVE v[i] = Printed(y.v[i])
      <4>1. CASE i <= y.n
        <5>1. i \in 1 .. y.n /\ i - 0 = i
          BY <3>3, <4>1
        <5> QED
          BY <1>4, <1>10, <1>11, <4>1, <5>1
      <4>2. CASE i > y.n
        <5>1. y.v[i] = 0 /\ Printed(0) = 0
          BY <1>1, <1>3, <3>3, <4>2, PrintedType
        <5>2. Shrinks(l) \/ x.v[i] = 0
          BY <1>1, <1>4, <3>3, <3>5, <4>2
        <5> QED
          BY <1>4, <3>3, <4>2, <5>1, <5>2
      <4> QED
        BY <3>3, <4>1, <4>2
    <3>8. v = [i \in 1 .. max |-> Printed(y.v[i])]
      BY <1>4, <3>7
    <3> HIDE DEF n, v
    <3> QED
      BY <1>6, <3>2, <3>4, <3>6, <3>8
  <2> QED
    BY <2>1, <2>2
<1> QED
  BY <1>11, <1>12, <1>15, <1>16, <1>17 DEF y

\* Every parameter is one of some command.
LEMMA InCommand ==
    ASSUME NEW p \in DOMAIN Pars
    PROVE  \E c \in 1 .. Len(CmdTable) : p \in ToSet(CmdTable[c])
<1> SUFFICES ASSUME \A c \in 1 .. Len(CmdTable) : p \notin ToSet(CmdTable[c]) PROVE FALSE
  OBVIOUS
<1> DEFINE Others == DOMAIN Pars \ {p}
<1>1. /\ CmdTable \in Seq(Seq(DOMAIN Pars)) /\ Len(CmdTable) \in Nat
      /\ p \in ToSet(FlattenSeq(CmdTable))
  BY CommandsAssumption
<1>2. ASSUME NEW c \in 1 .. Len(CmdTable) PROVE CmdTable[c] \in Seq(Others)
  <2>1. CmdTable[c] \in Seq(DOMAIN Pars)
    BY <1>1, ElementOfSeq
  <2>2. DOMAIN CmdTable[c] = 1 .. Len(CmdTable[c]) /\ Len(CmdTable[c]) \in Nat
    BY <2>1, LenProperties
  <2>3. \A i \in 1 .. Len(CmdTable[c]) : CmdTable[c][i] \in Others
    BY <2>1, <2>2, ElementOfSeq DEF ToSet
  <2>4. CmdTable[c] = [i \in 1 .. Len(CmdTable[c]) |-> CmdTable[c][i]]
    BY <2>1, <2>2
  <2> QED
    BY <2>2, <2>3, <2>4
<1> HIDE DEF Others
<1>3. CmdTable \in Seq(Seq(Others))
  <2> DEFINE n == Len(CmdTable)
  <2>1. CmdTable = [c \in 1 .. n |-> CmdTable[c]]
    BY <1>1
  <2>2. n \in Nat /\ \A c \in 1 .. n : CmdTable[c] \in Seq(Others)
    BY <1>1, <1>2
  <2> HIDE DEF n
  <2>3. [c \in 1 .. n |-> CmdTable[c]] \in Seq(Seq(Others))
    BY <2>2
  <2> QED
    BY <2>1, <2>3
<1>4. FlattenSeq(CmdTable) \in Seq(Others)
  BY <1>3, FlattenType
<1>5. PICK i \in DOMAIN FlattenSeq(CmdTable) : FlattenSeq(CmdTable)[i] = p
  BY <1>1 DEF ToSet
<1>6. p \in Others
  BY <1>4, <1>5, ElementOfSeq, LenProperties
<1> QED
  BY <1>6 DEF Others

\* SAVE leaves out nothing that is printed.
LEMMA SavedLinesHave ==
    ASSUME SoundStore(store), NEW p \in DOMAIN Pars, NEW s \in Selectors(p),
           NEW e \in ToSet(ParsPrint(p, s))
    PROVE  e \in ToSet(SavedLines)
<1>0. /\ CmdTable \in Seq(Seq(DOMAIN Pars)) /\ Len(CmdTable) \in Nat
      /\ DOMAIN CmdTable = 1 .. Len(CmdTable) /\ MaxSel \in Nat
  BY CommandsAssumption, LenProperties
<1>1. \A q \in DOMAIN Pars : \A r \in Selectors(q) : ParsPrint(q, r) \in Seq(LineSet)
  BY ParsPrintType
<1> DEFINE Of(ps, r, k) == IF r - 1 \in Selectors(ps[k]) THEN ParsPrint(ps[k], r - 1) ELSE << >>
           Each(ps, r) == [k \in DOMAIN ps |-> Of(ps, r, k)]
           Every(ps) == [r \in 1 .. MaxSel + 1 |-> Each(ps, r)]
<1>2. ASSUME NEW ps \in Seq(DOMAIN Pars)
      PROVE  /\ Every(ps) \in Seq(Seq(Seq(LineSet)))
             /\ ParsPrintAll(ps) \in Seq(LineSet)
  <2>1. DOMAIN ps = 1 .. Len(ps) /\ Len(ps) \in Nat
    BY LenProperties
  <2>2. \A r \in 1 .. MaxSel + 1 : \A i \in 1 .. Len(ps) : Of(ps, r, i) \in Seq(LineSet)
    <3> SUFFICES ASSUME NEW r \in 1 .. MaxSel + 1, NEW i \in 1 .. Len(ps)
                 PROVE  Of(ps, r, i) \in Seq(LineSet)
      OBVIOUS
    <3>1. ps[i] \in DOMAIN Pars
      BY ElementOfSeq
    <3> QED
      BY <1>1, <3>1
  <2> HIDE DEF Of
  <2>3. \A r \in 1 .. MaxSel + 1 : Each(ps, r) \in Seq(Seq(LineSet))
    BY <2>1, <2>2
  <2> HIDE DEF Each
  <2>4. Every(ps) \in Seq(Seq(Seq(LineSet)))
    BY <1>0, <2>3
  <2> HIDE DEF Every
  <2>5. FlattenSeq(Every(ps)) \in Seq(Seq(LineSet))
    BY <2>4, FlattenType
  <2>6. FlattenSeq(FlattenSeq(Every(ps))) \in Seq(LineSet)
    BY <2>5, FlattenType
  <2> QED
    BY <2>4, <2>6 DEF ParsPrintAll, Every, Each, Of
<1>3. PICK c \in 1 .. Len(CmdTable) : p \in ToSet(CmdTable[c])
  BY InCommand
<1> DEFINE pars == CmdTable[c]
<1>4. pars \in Seq(DOMAIN Pars) /\ DOMAIN pars = 1 .. Len(pars) /\ Len(pars) \in Nat
  BY <1>0, ElementOfSeq, LenProperties
<1> HIDE DEF pars
<1>5. PICK i \in 1 .. Len(pars) : pars[i] = p
  BY <1>3, <1>4 DEF ToSet, pars
<1>6. s + 1 \in 1 .. MaxSel + 1 /\ (s + 1) - 1 = s
  BY <1>0 DEF Selectors
<1>7. Of(pars, s + 1, i) = ParsPrint(p, s)
  <2> DEFINE sel == (s + 1) - 1
             par == pars[i]
  <2>1. sel = s /\ par = p
    BY <1>5, <1>6
  <2>2. Of(pars, s + 1, i) = IF sel \in Selectors(par) THEN ParsPrint(par, sel) ELSE << >>
    BY Zenon
  <2> HIDE DEF sel, par, Of
  <2>3. sel \in Selectors(par) /\ ParsPrint(par, sel) = ParsPrint(p, s)
    BY <2>1, Zenon
  <2> QED
    BY <2>2, <2>3, Zenon
<1> HIDE DEF Of
<1>8. Each(pars, s + 1)[i] = ParsPrint(p, s) /\ DOMAIN Each(pars, s + 1) = 1 .. Len(pars)
  BY <1>4, <1>5, <1>7
<1> HIDE DEF Each
<1>9. ParsPrint(p, s) \in ToSet(Each(pars, s + 1))
  BY <1>5, <1>8 DEF ToSet
<1>10. /\ Every(pars) \in Seq(Seq(Seq(LineSet))) /\ Every(pars)[s + 1] = Each(pars, s + 1)
       /\ DOMAIN Every(pars) = 1 .. MaxSel + 1
  BY <1>2, <1>4, <1>6
<1> HIDE DEF Every
<1>11. s + 1 \in 1 .. Len(Every(pars))
  BY <1>6, <1>10, LenProperties
<1>12. ParsPrint(p, s) \in ToSet(FlattenSeq(Every(pars)))
  BY <1>9, <1>10, <1>11, FlattenHas
<1> DEFINE flat == FlattenSeq(Every(pars))
<1>13. flat \in Seq(Seq(LineSet)) /\ DOMAIN flat = 1 .. Len(flat)
  BY <1>10, FlattenType, LenProperties
<1> HIDE DEF flat
<1>14. PICK j \in 1 .. Len(flat) : flat[j] = ParsPrint(p, s)
  BY <1>12, <1>13 DEF ToSet, flat
<1>15. e \in ToSet(FlattenSeq(flat))
  BY <1>13, <1>14, FlattenHas
<1>16. e \in ToSet(ParsPrintAll(pars))
  BY <1>15 DEF flat, ParsPrintAll, Every, Each, Of
<1> DEFINE Cmds == [d \in DOMAIN CmdTable |-> ParsPrintAll(CmdTable[d])]
<1>17. \A d \in 1 .. Len(CmdTable) : ParsPrintAll(CmdTable[d]) \in Seq(LineSet)
  BY <1>0, <1>2, ElementOfSeq
<1>18. Cmds \in Seq(Seq(LineSet)) /\ Cmds[c] = ParsPrintAll(pars) /\ Len(Cmds) = Len(CmdTable)
  BY <1>0, <1>17 DEF pars
<1> HIDE DEF Cmds
<1>19. e \in ToSet(FlattenSeq(Cmds))
  BY <1>16, <1>18, FlattenHas
<1> QED
  BY <1>19 DEF SavedLines, Cmds

\* The file SAVE writes: a line for each value that has elements.
LinesOf(lines, sv) ==
    /\ \A i \in 1 .. Len(lines) : \E p \in DOMAIN Pars : \E s \in Selectors(p) :
         sv[p][s].n # 0 /\ lines[i] = PrintedLine(sv, p, s)
    /\ \A p \in DOMAIN Pars : \A s \in Selectors(p) :
         sv[p][s].n # 0 => \E i \in 1 .. Len(lines) : lines[i] = PrintedLine(sv, p, s)

LEMMA SavedLinesAre == ASSUME SoundStore(store) PROVE LinesOf(SavedLines, store)
<1> DEFINE S == {l \in LineSet : \E p \in DOMAIN Pars : \E s \in Selectors(p) :
                   store[p][s].n # 0 /\ l = PrintedLine(store, p, s)}
<1>1. \A p \in DOMAIN Pars : \A s \in Selectors(p) :
        ParsPrint(p, s) = IF store[p][s].n = 0 THEN << >> ELSE << PrintedLine(store, p, s) >>
  BY DEF ParsPrint, PrintedLine
<1>2. ASSUME NEW p \in DOMAIN Pars, NEW s \in Selectors(p) PROVE ParsPrint(p, s) \in Seq(S)
  <2>1. CASE store[p][s].n = 0
    <3>1. ParsPrint(p, s) = << >>
      BY <1>1, <2>1
    <3> HIDE DEF S
    <3> QED
      BY <3>1
  <2>2. CASE store[p][s].n # 0
    <3> DEFINE l == PrintedLine(store, p, s)
    <3>1. ParsPrint(p, s) = << l >> /\ ParsPrint(p, s) \in Seq(LineSet)
      BY <1>1, <2>2, ParsPrintType
    <3> HIDE DEF l
    <3>2. l \in LineSet
      BY <3>1, ElementOfSeq
    <3>3. l \in S
      BY <2>2, <3>2 DEF l
    <3> HIDE DEF S
    <3> QED
      BY <3>1, <3>3
  <2> QED
    BY <2>1, <2>2
<1>3. SavedLines \in Seq(S)
  <2> HIDE DEF S
  <2> QED
    BY <1>2, SavedLinesIn
<1>4. \A i \in 1 .. Len(SavedLines) : SavedLines[i] \in S
  <2> HIDE DEF S
  <2> QED
    BY <1>3, ElementOfSeq
<1>5. DOMAIN SavedLines = 1 .. Len(SavedLines)
  BY SavedLinesType, LenProperties
<1>6. ASSUME NEW p \in DOMAIN Pars, NEW s \in Selectors(p), store[p][s].n # 0
      PROVE  \E i \in 1 .. Len(SavedLines) : SavedLines[i] = PrintedLine(store, p, s)
  <2> DEFINE l == PrintedLine(store, p, s)
  <2>1. ParsPrint(p, s) = << l >>
    BY <1>1, <1>6
  <2> HIDE DEF l
  <2>2. l \in ToSet(ParsPrint(p, s))
    BY <2>1 DEF ToSet
  <2>3. l \in ToSet(SavedLines)
    BY <2>2, SavedLinesHave
  <2>4. PICK i \in 1 .. Len(SavedLines) : SavedLines[i] = l
    BY <1>5, <2>3 DEF ToSet
  <2> QED
    BY <2>4 DEF l
<1> QED
  BY <1>4, <1>6 DEF LinesOf

\* What was saved is like what is there; the files that were saved are what SAVE
\* wrote, and the others are as they were.
KeptInv == KeptStore(store) /\ \A f \in DOMAIN saved : KeptStore(saved[f])

FilesInv ==
    /\ DOMAIN disk = DOMAIN Files \cup DOMAIN saved
    /\ \A f \in DOMAIN saved : LinesOf(disk[f], saved[f])
    /\ \A f \in DOMAIN disk \ DOMAIN saved : disk[f] = Files[f]

\* A file that was saved opens no other, and neither stdin nor the command line is
\* read from within a file.
Beneath ==
    \A i \in DOMAIN stack : \A j \in DOMAIN stack :
      j < i /\ stack[j].kind = "file" =>
        stack[j].file \notin DOMAIN saved /\ stack[i].kind \notin {"args", "stdin"}

Fits(f) == \A p \in DOMAIN Pars : \A s \in Selectors(p) : saved[f][p][s].n <= LineMax

\* While a file that was saved is read into a store with its default values, each
\* value is what was saved, or has not had its line yet.
Progress ==
    Running /\ Top.kind = "file" /\ Top.file \in DOMAIN saved /\ Top.fresh /\ Fits(Top.file) =>
      \A p \in DOMAIN Pars : \A s \in Selectors(p) :
        \/ store[p][s] = Reread(saved[Top.file][p][s])
        \/ /\ store[p][s] = Default[p][s]
           /\ \A i \in 1 .. Len(disk[Top.file]) :
                i < Top.next => disk[Top.file][i] # PrintedLine(saved[Top.file], p, s)

RInv == KeptInv /\ FilesInv /\ Beneath /\ Progress

LEMMA PrintedLineIs ==
    ASSUME NEW sv, NEW p \in DOMAIN Pars, NEW s \in Selectors(p)
    PROVE  /\ PrintedLine(sv, p, s).par = p /\ PrintedLine(sv, p, s).cmd = "PAR"
           /\ PrintedLine(sv, p, s).vals = [i \in 1 .. sv[p][s].n |-> Printed(sv[p][s].v[i])]
  BY DEF PrintedLine, Par

\* Two values have different lines.
LEMMA PrintedLineOnce ==
    ASSUME NEW sv, NEW p \in DOMAIN Pars, NEW s \in Selectors(p),
           NEW q \in DOMAIN Pars, NEW r \in Selectors(q),
           PrintedLine(sv, p, s) = PrintedLine(sv, q, r)
    PROVE  p = q /\ s = r
<1>1. p = q /\ (IF s = 0 THEN NoIndex ELSE s) = (IF r = 0 THEN NoIndex ELSE r)
  <2> DEFINE vals == [i \in 1 .. sv[p][s].n |-> Printed(sv[p][s].v[i])]
             wals == [i \in 1 .. sv[q][r].n |-> Printed(sv[q][r].v[i])]
  <2>1. Par(p, IF s = 0 THEN NoIndex ELSE s, NoIndex, vals)
          = Par(q, IF r = 0 THEN NoIndex ELSE r, NoIndex, wals)
    BY DEF PrintedLine
  <2> HIDE DEF vals, wals
  <2> QED
    BY <2>1 DEF Par
<1>2. s \in Nat /\ r \in Nat
  BY CommandsAssumption DEF Selectors
<1> QED
  BY <1>1, <1>2 DEF NoIndex

\* A line of a file that was saved sets a parameter, unless it is too long.
LEMMA SavedTopLine ==
    ASSUME IInv, RInv, NEW l \in NextLines, Top.kind = "file", Top.file \in DOMAIN saved
    PROVE  /\ l.cmd \in {"PAR", "WRONG"}
           /\ Fits(Top.file) => /\ Top.next \in 1 .. Len(disk[Top.file])
                                /\ l = disk[Top.file][Top.next] /\ l.cmd = "PAR"
<1> DEFINE f == Top.file
           d == disk[f]
           L(i) == IF d[i].cmd = "PAR" /\ Len(d[i].vals) > LineMax THEN Line("WRONG", "long") ELSE d[i]
<1>1. Running /\ TypeOK /\ InputsInv /\ FilesInv /\ KeptInv
  BY DEF IInv, RInv, NextLines
<1>2. Lines(Top) = [i \in DOMAIN d |-> L(i)]
  BY DEF Lines
<1>3. d \in Seq(LineSet)
  BY <1>1 DEF FilesInv, TypeOK
<1>4. Top.next \in Nat \ {0}
  BY <1>1, TopType DEF Frames
<1>5. Top.kind # "stdin" /\ ~Over /\ l = Lines(Top)[Top.next]
  BY DEF NextLines
<1>6. LinesOf(d, saved[f]) /\ KeptStore(saved[f])
  BY <1>1 DEF FilesInv, KeptInv
<1> HIDE DEF d
<1>7. DOMAIN d = 1 .. Len(d) /\ Len(d) \in Nat
  BY <1>3, LenProperties
<1>8. Len(Lines(Top)) = Len(d)
  <2> HIDE DEF L
  <2> QED
    BY <1>2, <1>7
<1>9. Top.next \in 1 .. Len(d)
  BY <1>4, <1>5, <1>7, <1>8 DEF Over
<1>10. l = L(Top.next)
  <2> HIDE DEF L
  <2> QED
    BY <1>2, <1>5, <1>7, <1>9
<1>0. PICK p \in DOMAIN Pars : \E s \in Selectors(p) : d[Top.next] = PrintedLine(saved[f], p, s)
  BY <1>6, <1>9 DEF LinesOf
<1>11. PICK s \in Selectors(p) : d[Top.next] = PrintedLine(saved[f], p, s)
  BY <1>0
<1>12. /\ d[Top.next].cmd = "PAR"
       /\ d[Top.next].vals = [i \in 1 .. saved[f][p][s].n |-> Printed(saved[f][p][s].v[i])]
  BY <1>11, PrintedLineIs
<1>13. saved[f][p][s].n \in Nat
  BY <1>6, ParType DEF KeptStore, SoundStore, SoundArray, Arrays
<1>14. Len(d[Top.next].vals) = saved[f][p][s].n
  BY <1>12, <1>13
<1>15. l.cmd \in {"PAR", "WRONG"}
  BY <1>10, <1>12 DEF Line
<1>16. ASSUME Fits(f) PROVE l = d[Top.next]
  <2>1. ~(Len(d[Top.next].vals) > LineMax)
    BY <1>13, <1>14, <1>16, CommandsAssumption DEF Fits
  <2> QED
    BY <1>10, <2>1
<1> QED
  BY <1>9, <1>12, <1>15, <1>16 DEF d

\* Of the files being read none but the newest was saved.
LEMMA OpenFiles ==
    ASSUME IInv, RInv, Running, NEW j \in DOMAIN stack, stack[j].kind = "file"
    PROVE  /\ stack[j].file \in DOMAIN disk
           /\ stack[j] = Top \/ stack[j].file \notin DOMAIN saved
           /\ stack[j].file \notin DOMAIN saved => stack[j].file \in DOMAIN Files
<1>1. DOMAIN stack = 1 .. Len(stack) /\ Len(stack) \in Nat \ {0}
  BY TopType DEF IInv
<1>2. stack[j].file \in DOMAIN disk
  BY DEF IInv, InputsInv, Open
<1>3. stack[j].file \notin DOMAIN saved => stack[j].file \in DOMAIN Files
  BY <1>2 DEF RInv, FilesInv
<1>4. CASE j = Len(stack)
  BY <1>2, <1>3, <1>4 DEF Top
<1>5. CASE j # Len(stack)
  <2>1. Len(stack) \in DOMAIN stack /\ j < Len(stack)
    BY <1>1, <1>5
  <2>2. stack[j].file \notin DOMAIN saved
    BY <2>1 DEF RInv, Beneath
  <2> QED
    BY <1>2, <1>3, <2>2
<1> QED
  BY <1>4, <1>5

\* What a line leaves of the loops, if it opens no file and saves nothing.
LEMMA BeneathDone ==
    ASSUME IInv, RInv, Running, NEW status \in {"ok", "fail"}, stack' = Done(status), saved' = saved
    PROVE  /\ Beneath' /\ Running'
           /\ Top'.kind = Top.kind /\ Top'.file = Top.file /\ Top'.fresh = Top.fresh
           /\ Top'.next = IF Top.kind = "stdin" THEN Top.next ELSE Top.next + 1
<1>1. /\ Len(stack') = Len(stack) /\ DOMAIN stack' = DOMAIN stack /\ Len(stack) \in Nat \ {0}
      /\ Len(stack) \in DOMAIN stack /\ stack' \in Seq(Frames)
      /\ \A i \in DOMAIN stack : stack'[i].kind = stack[i].kind /\ stack'[i].file = stack[i].file
      /\ stack'[Len(stack)].fresh = Top.fresh
      /\ stack'[Len(stack)].next = IF Top.kind = "stdin" THEN Top.next ELSE Top.next + 1
  BY DoneType, TopType DEF IInv
<1>2. Beneath'
  BY <1>1 DEF RInv, Beneath
<1>3. Running'
  BY <1>1, EmptySeq DEF Running
<1> QED
  BY <1>1, <1>2, <1>3 DEF Top

\* A line that sets nothing.
LEMMA OtherLineStep ==
    ASSUME IInv, RInv, NEW l \in NextLines, l.cmd # "PAR", NEW status \in {"ok", "fail"},
           stack' = Done(status), UNCHANGED <<store, disk, saved>>
    PROVE  RInv'
<1>1. Running
  BY DEF NextLines
<1>2. /\ Beneath' /\ Top'.kind = Top.kind /\ Top'.file = Top.file
  BY <1>1, BeneathDone
<1>3. ~(Top.kind = "file" /\ Top.file \in DOMAIN saved /\ Fits(Top.file))
  BY SavedTopLine
<1>4. Progress'
  BY <1>2, <1>3 DEF Progress, Fits
<1>5. KeptInv' /\ FilesInv'
  BY DEF RInv, KeptInv, FilesInv, KeptStore, SoundStore, IsStore, LinesOf
<1> QED
  BY <1>2, <1>4, <1>5 DEF RInv

\* RUN, which no file that was saved has.
LEMMA RunStep == ASSUME IInv, RInv, CmdsRun PROVE RInv'
<1>1. PICK l \in NextLines, status \in {"ok", "fail"} :
        /\ l.cmd = "RUN" /\ store' \in {store, Unperturbed} /\ stack' = Done(status)
        /\ UNCHANGED <<disk, saved>>
  BY DEF CmdsRun
<1>2. Running
  BY DEF NextLines
<1>3. /\ Beneath' /\ Top'.kind = Top.kind /\ Top'.file = Top.file
  BY <1>1, <1>2, BeneathDone
<1>4. ~(Top.kind = "file" /\ Top.file \in DOMAIN saved /\ Fits(Top.file))
  BY <1>1, SavedTopLine
<1>5. Progress'
  BY <1>1, <1>3, <1>4 DEF Progress, Fits
<1>6. KeptInv'
  <2>1. KeptStore(store') /\ \A f \in DOMAIN saved' : KeptStore(saved'[f])
    BY <1>1, UnperturbedKept DEF RInv, KeptInv
  <2> QED
    BY <2>1 DEF KeptInv, KeptStore, SoundStore, IsStore
<1>7. FilesInv'
  BY <1>1 DEF RInv, FilesInv, LinesOf
<1> QED
  BY <1>3, <1>5, <1>6, <1>7 DEF RInv

\* The end of a loop.
LEMMA LoopEnds ==
    ASSUME IInv, RInv, Running, stack' = Return(Top) \/ stack' = << >>,
           UNCHANGED <<store, disk, saved>>
    PROVE  RInv'
<1>1. KeptInv' /\ FilesInv'
  BY DEF RInv, KeptInv, FilesInv, KeptStore, SoundStore, IsStore, LinesOf
<1>2. CASE stack' = << >>
  BY <1>1, <1>2 DEF RInv, Beneath, Progress, Running
<1>3. CASE stack' = Return(Top)
  <2> DEFINE n == Len(stack)
  <2>1. /\ n \in Nat \ {0} /\ DOMAIN stack = 1 .. n /\ DOMAIN stack' = 1 .. n - 1
        /\ Len(stack') = n - 1 /\ stack' \in Seq(Frames)
        /\ \A i \in 1 .. n - 1 : stack'[i].kind = stack[i].kind /\ stack'[i].file = stack[i].file
    BY <1>3, TopType, ReturnType DEF IInv
  <2>2. \A i \in 1 .. n - 1 : i \in DOMAIN stack
    BY <2>1
  <2>3. Beneath'
    BY <2>1, <2>2 DEF RInv, Beneath
  <2>4. ASSUME Running', Top'.kind = "file" PROVE Top'.file \notin DOMAIN saved'
    <3>1. n - 1 \in 1 .. n - 1 /\ n \in DOMAIN stack /\ n - 1 < n
      BY <2>1, <2>4, EmptySeq DEF Running
    <3>2. Top'.kind = stack[n - 1].kind /\ Top'.file = stack[n - 1].file
      BY <2>1, <3>1 DEF Top
    <3>3. n - 1 \in DOMAIN stack
      BY <2>2, <3>1
    <3> QED
      BY <2>4, <3>1, <3>2, <3>3 DEF RInv, Beneath
  <2>5. Progress'
    BY <2>4 DEF Progress
  <2> QED
    BY <1>1, <2>3, <2>5 DEF RInv
<1> QED
  BY <1>2, <1>3

\* A parameter's line, one of a file that was saved or not.
LEMMA ParStep == ASSUME IInv, RInv, CmdsPar PROVE RInv'
<1>1. PICK l \in NextLines : /\ l.cmd = "PAR" /\ store' = ParsGet(l)
                             /\ stack' = Done(IF Accepted(l) THEN "ok" ELSE "fail")
                             /\ UNCHANGED <<disk, saved>>
  BY DEF CmdsPar
<1>2. /\ Running /\ TypeOK /\ InputsInv /\ KeptInv /\ FilesInv /\ Progress
      /\ KeptStore(store)
  BY DEF IInv, RInv, NextLines, KeptInv
<1>3. l \in GoodLines
  BY <1>1, <1>2, NextLineType
<1>4. KeptInv'
  <2>1. KeptStore(ParsGet(l))
    BY <1>2, <1>3, ParsGetKept
  <2>2. KeptStore(store') /\ \A f \in DOMAIN saved' : KeptStore(saved'[f])
    BY <1>1, <1>2, <2>1 DEF KeptInv
  <2> QED
    BY <2>2 DEF KeptInv, KeptStore, SoundStore, IsStore
<1>5. FilesInv'
  BY <1>1, <1>2 DEF FilesInv, LinesOf
<1>6. PICK status \in {"ok", "fail"} : stack' = Done(status)
  BY <1>1
<1>7. /\ Beneath' /\ Top'.kind = Top.kind /\ Top'.file = Top.file /\ Top'.fresh = Top.fresh
      /\ Top.kind = "file" => Top'.next = Top.next + 1
  BY <1>1, <1>2, <1>6, BeneathDone
<1> DEFINE f == Top.file
           Back(p, s) ==
             \/ store'[p][s] = Reread(saved[f][p][s])
             \/ /\ store'[p][s] = Default[p][s]
                /\ \A i \in 1 .. Len(disk[f]) :
                     i < Top.next + 1 => disk[f][i] # PrintedLine(saved[f], p, s)
<1>8. ASSUME Top.kind = "file", f \in DOMAIN saved, Top.fresh, Fits(f),
             NEW q \in DOMAIN Pars, NEW r \in Selectors(q)
      PROVE  Back(q, r)
  <2> DEFINE sv == saved[f]
             d == disk[f]
             Pending(p, s) == \/ store[p][s] = Reread(sv[p][s])
                            \/ /\ store[p][s] = Default[p][s]
                               /\ \A i \in 1 .. Len(d) :
                                    i < Top.next => d[i] # PrintedLine(sv, p, s)
  <2>1. Top.next \in 1 .. Len(d) /\ l = d[Top.next]
    BY <1>8, SavedTopLine
  <2>2. LinesOf(d, sv) /\ KeptStore(sv)
    BY <1>2, <1>8 DEF FilesInv, KeptInv
  <2>3. \A p \in DOMAIN Pars : \A s \in Selectors(p) : Pending(p, s)
    BY <1>2, <1>8 DEF Progress
  <2> HIDE DEF sv, d
  <2>4. PICK p \in DOMAIN Pars : \E s \in Selectors(p) :
               sv[p][s].n # 0 /\ l = PrintedLine(sv, p, s)
    BY <2>1, <2>2 DEF LinesOf
  <2>5. PICK s \in Selectors(p) : sv[p][s].n # 0 /\ l = PrintedLine(sv, p, s)
    BY <2>4
  <2>6. store[p][s] = Default[p][s] \/ store[p][s] = Reread(sv[p][s])
    BY <2>3
  <2>7. /\ ParsGet(l)[p][s] = Reread(sv[p][s])
        /\ q # p \/ r # s => ParsGet(l)[q][r] = store[q][r]
    BY <1>2, <2>2, <2>5, <2>6, LineRestores
  <2>8. CASE q = p /\ r = s
    BY <1>1, <2>7, <2>8 DEF sv
  <2>9. CASE q # p \/ r # s
    <3>1. store'[q][r] = store[q][r] /\ Pending(q, r)
      BY <1>1, <2>3, <2>7, <2>9
    <3>2. d[Top.next] # PrintedLine(sv, q, r)
      BY <2>1, <2>5, <2>9, PrintedLineOnce
    <3>3. ASSUME NEW i \in 1 .. Len(d), i < Top.next + 1,
                 \A k \in 1 .. Len(d) : k < Top.next => d[k] # PrintedLine(sv, q, r)
          PROVE  d[i] # PrintedLine(sv, q, r)
      <4>1. i < Top.next \/ i = Top.next
        BY <2>1, <3>3
      <4> QED
        BY <3>2, <3>3, <4>1
    <3> QED
      BY <3>1, <3>3 DEF sv, d
  <2> QED
    BY <2>8, <2>9
<1>9. Progress'
  <2> HIDE DEF Back
  <2>1. SUFFICES ASSUME Top.kind = "file", f \in DOMAIN saved, Top.fresh, Fits(f),
                        Top'.next = Top.next + 1,
                        NEW q \in DOMAIN Pars, NEW r \in Selectors(q)
                 PROVE  Back(q, r)
    BY <1>1, <1>7 DEF Progress, Back, Fits
  <2> QED
    BY <1>8, <2>1
<1> QED
  BY <1>4, <1>5, <1>7, <1>9 DEF RInv

\* SAVE, from the command line, from stdin or from a file that was there: never from
\* a directory or from a file that was saved, and never over a file that is being read.
LEMMA SaveStep == ASSUME SavesApart, IInv, RInv, CmdsSave PROVE RInv'
<1>1. PICK l \in NextLines :
          /\ l.cmd = "SAVE"
          /\ disk' = [f \in DOMAIN disk \cup {l.file} |-> IF f = l.file THEN SavedLines ELSE disk[f]]
          /\ saved' = [f \in DOMAIN saved \cup {l.file} |-> IF f = l.file THEN store ELSE saved[f]]
          /\ stack' = Done("ok") /\ store' = store
  BY DEF CmdsSave
<1>2. /\ Running /\ TypeOK /\ InputsInv /\ StoresInv /\ KeptInv /\ FilesInv /\ Beneath
      /\ Len(stack) \in Nat \ {0} /\ DOMAIN stack = 1 .. Len(stack) /\ Top = stack[Len(stack)]
  BY TopType DEF IInv, RInv, NextLines, Top
<1>3. KeptInv'
  <2>1. KeptStore(store') /\ \A f \in DOMAIN saved' : KeptStore(saved'[f])
    BY <1>1, <1>2 DEF KeptInv
  <2> QED
    BY <2>1 DEF KeptInv, KeptStore, SoundStore, IsStore
<1>4. FilesInv'
  <2>1. LinesOf(SavedLines, store)
    BY <1>2, SavedLinesAre DEF StoresInv
  <2>2. \A f \in DOMAIN saved' : LinesOf(disk'[f], saved'[f])
    BY <1>1, <1>2, <2>1 DEF FilesInv
  <2>3. DOMAIN disk' = DOMAIN Files \cup DOMAIN saved'
    BY <1>1, <1>2 DEF FilesInv
  <2>4. \A f \in DOMAIN disk' \ DOMAIN saved' : disk'[f] = Files[f]
    BY <1>1, <1>2 DEF FilesInv
  <2> QED
    BY <2>2, <2>3, <2>4 DEF FilesInv, LinesOf
<1>5. CASE Top.kind \in {"args", "stdin"}
  <2>1. ASSUME NEW j \in DOMAIN stack, stack[j].kind = "file" PROVE FALSE
    <3>1. j # Len(stack)
      BY <1>2, <1>5, <2>1
    <3>2. j < Len(stack) /\ Len(stack) \in DOMAIN stack
      BY <1>2, <3>1
    <3> QED
      BY <1>2, <1>5, <2>1, <3>2 DEF Beneath
  <2>2. \A i \in DOMAIN stack : stack'[i].kind # "file"
    BY <1>1, <1>2, <2>1, DoneType
  <2>3. DOMAIN stack' = DOMAIN stack /\ Len(stack') = Len(stack)
    BY <1>1, <1>2, DoneType
  <2>4. Beneath' /\ Progress'
    BY <1>2, <2>2, <2>3 DEF Beneath, Progress, Top
  <2> QED
    BY <1>3, <1>4, <2>4 DEF RInv
<1>6. CASE Top.kind = "dir"
  <2> DEFINE L(i) == Line(IF Names[i] \in DOMAIN disk THEN "READ" ELSE "SKIP", Names[i])
  <2>1. /\ Lines(Top) = [i \in DOMAIN Names |-> L(i)]
        /\ l = Lines(Top)[Top.next] /\ ~(Top.next > Len(Lines(Top)))
    BY <1>6 DEF Lines, NextLines, Over
  <2>2. Lines(Top) \in Seq(LineSet) /\ Top.next \in Nat \ {0}
    BY <1>2, <1>6, LinesType, TopType DEF Frames
  <2>3. Top.next \in DOMAIN Lines(Top)
    BY <2>1, <2>2, LenProperties
  <2>4. l = L(Top.next)
    <3> HIDE DEF L
    <3> QED
      BY <2>1, <2>3
  <2> QED
    BY <1>1, <2>4 DEF Line
<1>7. CASE Top.kind = "file"
  <2> DEFINE f == Top.file
             d == Files[f]
             L(i) == IF d[i].cmd = "PAR" /\ Len(d[i].vals) > LineMax THEN Line("WRONG", "long") ELSE d[i]
  <2>1. f \notin DOMAIN saved
    BY <1>1, <1>7, SavedTopLine
  <2>2. f \in DOMAIN Files /\ disk[f] = d /\ f \in DOMAIN disk
    <3>1. Len(stack) \in DOMAIN stack
      BY <1>2
    <3> QED
      BY <1>2, <1>7, <2>1, <3>1, OpenFiles DEF FilesInv
  <2>3. Lines(Top) = [i \in DOMAIN d |-> L(i)]
    BY <1>7, <2>2 DEF Lines
  <2>4. l = Lines(Top)[Top.next] /\ ~(Top.next > Len(Lines(Top)))
    BY <1>7 DEF NextLines, Over
  <2>5. Lines(Top) \in Seq(LineSet) /\ Top.next \in Nat \ {0}
    BY <1>2, <1>7, LinesType, TopType DEF Frames
  <2>6. Top.next \in DOMAIN d /\ l = L(Top.next)
    <3>1. Top.next \in DOMAIN Lines(Top)
      BY <2>4, <2>5, LenProperties
    <3> HIDE DEF L
    <3> QED
      BY <2>3, <2>4, <3>1
  <2>7. l = d[Top.next]
    BY <1>1, <2>6 DEF Line
  <2>8. l.file \notin DOMAIN Files
    BY <1>1, <2>2, <2>6, <2>7 DEF SavesApart
  <2>9. \A j \in DOMAIN stack : stack[j].kind = "file" => stack[j].file \notin DOMAIN saved'
    <3> SUFFICES ASSUME NEW j \in DOMAIN stack, stack[j].kind = "file"
                 PROVE  stack[j].file \notin DOMAIN saved'
      OBVIOUS
    <3>1. stack[j].file \notin DOMAIN saved /\ stack[j].file \in DOMAIN Files
      BY <1>2, <2>1, OpenFiles
    <3> QED
      BY <1>1, <2>8, <3>1
  <2>10. /\ DOMAIN stack' = DOMAIN stack /\ Len(stack') = Len(stack)
         /\ \A i \in DOMAIN stack : stack'[i].kind = stack[i].kind /\ stack'[i].file = stack[i].file
    BY <1>1, <1>2, DoneType
  <2>11. Beneath'
    BY <1>2, <2>9, <2>10 DEF Beneath
  <2>12. Len(stack) \in DOMAIN stack
    BY <1>2
  <2>13. Progress'
    BY <2>9, <2>10, <2>12 DEF Progress, Top
  <2> QED
    BY <1>3, <1>4, <2>11, <2>13 DEF RInv
<1>8. Top.kind \in {"args", "stdin", "dir", "file"}
  BY <1>2, TopType DEF Frames
<1> QED
  BY <1>5, <1>6, <1>7, <1>8

\* READ: a file that was saved is read from its first line, and opens none.
LEMMA ReadStep == ASSUME IInv, RInv, CmdsRead PROVE RInv'
<1>1. PICK l \in NextLines : /\ l.cmd = "READ" /\ Opens(l)
                             /\ stack' = Append(Done(Top.status),
                                  Frame(CASE l.file = "stdin" -> "stdin" [] l.file = "*" -> "dir"
                                          [] OTHER -> "file", l.file))
                             /\ UNCHANGED <<store, disk, saved>>
  BY DEF CmdsRead
<1> DEFINE kind == IF l.file = "stdin" THEN "stdin" ELSE IF l.file = "*" THEN "dir" ELSE "file"
           fr == Frame(kind, l.file)
           n == Len(stack)
<1>2. /\ Running /\ TypeOK /\ InputsInv /\ KeptInv /\ FilesInv /\ Beneath
      /\ n \in Nat \ {0} /\ DOMAIN stack = 1 .. n /\ Top = stack[n]
      /\ Top.status \in {"ok", "fail"}
  BY TopType DEF IInv, RInv, NextLines, Frames, Top
<1>3. stack' = Append(Done(Top.status), fr)
  BY <1>1
<1>4. l \in OtherLines
  BY <1>1, <1>2, NextLineType
<1>5. fr \in Frames /\ fr.kind = kind /\ fr.next = 1 /\ fr.fresh = (store = Default)
  BY <1>4 DEF Frame, Frames, OtherLines
<1>6. /\ Done(Top.status) \in Seq(Frames) /\ Len(Done(Top.status)) = n
      /\ \A i \in 1 .. n : /\ Done(Top.status)[i].kind = stack[i].kind
                           /\ Done(Top.status)[i].file = stack[i].file
  BY <1>2, DoneType
<1>7. KeptInv' /\ FilesInv'
  BY <1>1, <1>2 DEF KeptInv, FilesInv, KeptStore, SoundStore, IsStore, LinesOf
<1>8. \A j \in DOMAIN stack : stack[j].kind = "file" => stack[j].file \notin DOMAIN saved
  BY <1>1, <1>2, OpenFiles, SavedTopLine
<1>9. kind = "stdin" => \A j \in DOMAIN stack : stack[j].kind # "file"
  <2> SUFFICES ASSUME kind = "stdin" PROVE Open(stack) = {}
    BY DEF Open
  <2>1. inputIdx = 0
    BY <1>1 DEF Opens
  <2>2. IsFiniteSet(Open(stack)) /\ Cardinality(Open(stack)) <= 0
    BY <1>2, <2>1 DEF InputsInv
  <2>3. Cardinality(Open(stack)) = 0
    BY <2>2, FS_CardinalityType
  <2> QED
    BY <2>2, <2>3, FS_EmptySet
<1>10. kind # "args"
  OBVIOUS
<1> HIDE DEF fr, kind, n
<1>11. /\ stack' \in Seq(Frames) /\ Len(stack') = n + 1 /\ stack'[n + 1] = fr
       /\ \A i \in 1 .. n : stack'[i].kind = stack[i].kind /\ stack'[i].file = stack[i].file
  BY <1>3, <1>5, <1>6, AppendProperties
<1>12. DOMAIN stack' = 1 .. n + 1
  BY <1>11, LenProperties
<1>13. Beneath'
  <2> SUFFICES ASSUME NEW i \in DOMAIN stack', NEW j \in DOMAIN stack', j < i, stack'[j].kind = "file"
               PROVE  stack'[j].file \notin DOMAIN saved /\ stack'[i].kind \notin {"args", "stdin"}
    BY <1>1 DEF Beneath
  <2>1. j \in 1 .. n /\ (i \in 1 .. n \/ i = n + 1)
    BY <1>2, <1>12
  <2>2. stack[j].kind = "file" /\ stack'[j].file = stack[j].file
    BY <1>11, <2>1
  <2>3. CASE i \in 1 .. n
    BY <1>2, <1>11, <2>1, <2>2, <2>3 DEF Beneath
  <2>4. CASE i = n + 1
    BY <1>2, <1>5, <1>8, <1>9, <1>10, <1>11, <2>1, <2>2, <2>4
  <2> QED
    BY <2>1, <2>3, <2>4
<1>14. Progress'
  <2>1. Top' = fr
    BY <1>11 DEF Top
  <2> SUFFICES ASSUME Top'.fresh, NEW p \in DOMAIN Pars, NEW s \in Selectors(p)
               PROVE  /\ store[p][s] = Default[p][s]
                      /\ \A i \in 1 .. Len(disk'[Top'.file]) : ~(i < Top'.next)
    BY <1>1 DEF Progress
  <2>2. store = Default /\ Top'.next = 1
    BY <1>5, <2>1
  <2> QED
    BY <2>2
<1> QED
  BY <1>7, <1>13, <1>14 DEF RInv

LEMMA MainStep == ASSUME RInv, Main PROVE RInv'
<1> DEFINE fr == [kind |-> "args", file |-> "args", next |-> 1, status |-> "ok", fresh |-> TRUE]
<1>1. store' = Default /\ stack' = << fr >> /\ UNCHANGED <<disk, saved>>
  BY DEF Main
<1>2. fr.kind = "args"
  OBVIOUS
<1> HIDE DEF fr
<1>3. KeptInv'
  <2>1. KeptStore(store') /\ \A f \in DOMAIN saved' : KeptStore(saved'[f])
    BY <1>1, DefaultKept DEF RInv, KeptInv
  <2> QED
    BY <2>1 DEF KeptInv, KeptStore, SoundStore, IsStore
<1>4. FilesInv'
  BY <1>1 DEF RInv, FilesInv, LinesOf
<1>5. Beneath' /\ Progress'
  BY <1>1, <1>2 DEF Beneath, Progress, Top
<1> QED
  BY <1>3, <1>4, <1>5 DEF RInv

\* An array that is empty and may be was empty from the start.
LEMMA EmptyReread ==
    ASSUME NEW p \in DOMAIN Pars, NEW s \in Selectors(p), NEW y, SoundArray(y, p), Kept(y, p), y.n = 0
    PROVE  Reread(y) = Default[p][s]
<1> DEFINE max == Pars[p].max
<1>1. /\ max \in Nat \ {0} /\ Len(Pars[p].default) \in 0 .. max
  BY ParType
<1>2. y \in [n : 0 .. max, v : [1 .. max -> Int]]
  BY DEF SoundArray, Arrays
<1>3. y = [n |-> 0, v |-> y.v] /\ DOMAIN y.v = 1 .. max
  BY <1>2
<1>4. \A i \in 1 .. max : y.v[i] = 0
  BY <1>1 DEF SoundArray
<1>5. Len(Pars[p].default) = 0
  BY <1>1 DEF Kept
<1>6. Reread(y) = [n |-> 0, v |-> [i \in DOMAIN y.v |-> Printed(y.v[i])]]
  BY <1>3, RereadIs
<1> HIDE DEF max
<1>7. [i \in DOMAIN y.v |-> Printed(y.v[i])] = [i \in 1 .. max |-> 0]
  BY <1>3, <1>4, PrintedType
<1>8. Default[p][s] = [n |-> Len(Pars[p].default),
                       v |-> [i \in 1 .. max |-> IF i <= Len(Pars[p].default) THEN Pars[p].default[i] ELSE 0]]
  BY DefaultIs DEF max
<1>9. [i \in 1 .. max |-> IF i <= Len(Pars[p].default) THEN Pars[p].default[i] ELSE 0]
        = [i \in 1 .. max |-> 0]
  BY <1>5
<1> QED
  BY <1>5, <1>6, <1>7, <1>8, <1>9, Zenon

LEMMA InitRInv == Init => RInv
<1> SUFFICES ASSUME Init PROVE RInv
  OBVIOUS
<1>1. KeptInv /\ FilesInv
  BY DefaultKept DEF Init, KeptInv, FilesInv
<1>2. Beneath /\ Progress
  BY DEF Init, Beneath, Progress, Running
<1> QED
  BY <1>1, <1>2 DEF RInv

LEMMA StepRInv == SavesApart /\ IInv /\ RInv /\ [Next]_vars => RInv'
<1> SUFFICES ASSUME SavesApart, IInv, RInv, [Next]_vars PROVE RInv'
  OBVIOUS
<1>1. CASE CmdsPar
  BY <1>1, ParStep
<1>2. CASE CmdsSave
  BY <1>2, SaveStep
<1>3. CASE CmdsRead
  BY <1>3, ReadStep
<1>4. CASE Main
  BY <1>4, MainStep
<1>5. CASE Wrong \/ CmdsExit \/ ReadRefused
  <2>1. PICK l \in NextLines, status \in {"ok", "fail"} :
            l.cmd # "PAR" /\ stack' = Done(status) /\ UNCHANGED <<store, disk, saved>>
    BY <1>5 DEF Wrong, CmdsExit, ReadRefused, Quits
  <2> QED
    BY <2>1, OtherLineStep
<1>9. CASE CmdsRun
  BY <1>9, RunStep
<1>6. CASE SkipEntry
  <2>1. PICK l \in NextLines :
            l.cmd = "SKIP" /\ stack' = Done(Top.status) /\ UNCHANGED <<store, disk, saved>>
    BY <1>6 DEF SkipEntry
  <2>2. Top.status \in {"ok", "fail"}
    BY <2>1, TopType DEF IInv, NextLines, Frames
  <2> QED
    BY <2>1, <2>2, OtherLineStep
<1>7. CASE CmdsQuit \/ Closes
  <2>1. Running /\ (stack' = Return(Top) \/ stack' = << >>) /\ UNCHANGED <<store, disk, saved>>
    BY <1>7 DEF CmdsQuit, NextLines, Closes, CloseFile, EndOfStdin, CloseDir, End
  <2> QED
    BY <2>1, LoopEnds
<1>8. CASE UNCHANGED vars
  BY <1>8 DEF vars, RInv, KeptInv, KeptStore, SoundStore, IsStore, FilesInv, LinesOf, Beneath,
              Progress, Fits, Running, Top
<1> QED
  BY <1>1, <1>2, <1>3, <1>4, <1>5, <1>6, <1>7, <1>8, <1>9 DEF Next, Reads

\* For any parameters, files and lines typed: what SAVE wrote, read after the program
\* has been started again, gives every parameter of every selector the values it had, to the
\* precision of the file, with as many elements, if no line of the file is too
\* long; it needs that no line of the files that were there saves over one of them.
THEOREM RoundTripHolds == ASSUME SavesApart PROVE Spec => []RoundTrip
<1>1. ASSUME IInv, RInv PROVE RoundTrip
  <2> SUFFICES ASSUME Running, Top.kind = "file", Top.file \in DOMAIN saved, Top.fresh, Over,
                      Fits(Top.file)
               PROVE  store = [p \in DOMAIN Pars |->
                                 [s \in Selectors(p) |-> Reread(saved[Top.file][p][s])]]
    BY DEF RoundTrip, Restored, Fits, Reread
  <2> DEFINE f == Top.file
             d == disk[f]
             sv == saved[f]
             L(i) == IF d[i].cmd = "PAR" /\ Len(d[i].vals) > LineMax THEN Line("WRONG", "long") ELSE d[i]
  <2>1. KeptStore(sv) /\ LinesOf(d, sv) /\ d \in Seq(LineSet) /\ KeptStore(store)
    BY <1>1 DEF RInv, KeptInv, FilesInv, IInv, TypeOK
  <2>2. Lines(Top) = [i \in DOMAIN d |-> L(i)]
    BY DEF Lines
  <2>3. Top.next \in Nat \ {0}
    BY <1>1, TopType DEF IInv, Frames
  <2>4. \A p \in DOMAIN Pars : \A s \in Selectors(p) :
           \/ store[p][s] = Reread(sv[p][s])
           \/ /\ store[p][s] = Default[p][s]
              /\ \A i \in 1 .. Len(d) : i < Top.next => d[i] # PrintedLine(sv, p, s)
    BY <1>1 DEF RInv, Progress
  <2> HIDE DEF d, sv, L
  <2>5. DOMAIN d = 1 .. Len(d) /\ Len(d) \in Nat
    BY <2>1, LenProperties
  <2>6. Len(Lines(Top)) = Len(d)
    BY <2>2, <2>5
  <2>7. \A i \in 1 .. Len(d) : i < Top.next
    BY <2>3, <2>5, <2>6 DEF Over
  <2>8. ASSUME NEW p \in DOMAIN Pars, NEW s \in Selectors(p)
        PROVE  store[p][s] = Reread(sv[p][s])
    <3>1. CASE sv[p][s].n # 0
      <4>1. \E i \in 1 .. Len(d) : d[i] = PrintedLine(sv, p, s)
        BY <2>1, <3>1 DEF LinesOf
      <4> QED
        BY <2>4, <2>7, <4>1
    <3>2. CASE sv[p][s].n = 0
      <4>1. SoundArray(sv[p][s], p) /\ Kept(sv[p][s], p)
        BY <2>1 DEF KeptStore, SoundStore
      <4>2. Reread(sv[p][s]) = Default[p][s]
        BY <3>2, <4>1, EmptyReread
      <4> QED
        BY <2>4, <4>2
    <3> QED
      BY <3>1, <3>2
  <2>9. store = [p \in DOMAIN Pars |-> store[p]] /\ \A p \in DOMAIN Pars : store[p] \in [Selectors(p) -> Arrays(p)]
    BY <2>1 DEF KeptStore, SoundStore, IsStore
  <2>10. \A p \in DOMAIN Pars : store[p] = [s \in Selectors(p) |-> Reread(sv[p][s])]
    BY <2>8, <2>9
  <2>11. store = [p \in DOMAIN Pars |-> [s \in Selectors(p) |-> Reread(sv[p][s])]]
    BY <2>9, <2>10
  <2> QED
    BY <2>11 DEF sv
<1> QED
  BY <1>1, InitIInv, StepIInv, InitRInv, StepRInv, PTL DEF Spec
=============================================================================
