---- MODULE MeasFilterProofs ----
(***************************************************************************)
(* Proofs about MeasFilter, for every value of its constants. They need    *)
(* that a filter is never set up with a stage, or an extrapolation, that   *)
(* ends before the index into it stands (IndexesFit), as indexes are never *)
(* reset; OneLengthFits gives constants for which that is so.              *)
(***************************************************************************)
EXTENDS MeasFilter, FiniteSetTheorems, WellFoundedInduction, TLAPS

----------------------------------------------------------------------------
(* Sums over finite sets                                                   *)

\* A set of natural numbers has a least member.
LEMMA Least == ASSUME NEW T, T \subseteq Nat, T # {} PROVE \E m \in T : \A k \in T : m <= k
<1>1. PICK m \in T : \A k \in T : ~(<<k, m>> \in OpToRel(<, Nat))
  BY NatLessThanWellFounded, WFMin
<1>2. \A k \in T : ~(k < m)
  BY <1>1 DEF OpToRel
<1> QED
  BY <1>2

\* Among subsets of a finite set there is one with no smaller among them.
LEMMA Smallest ==
    ASSUME NEW S, IsFiniteSet(S), NEW T, T \subseteq SUBSET S, T # {}
    PROVE  \E m \in T : \A t \in T : t \subseteq m => t = m
<1>1. IsWellFoundedOn(StrictSubsetOrdering(S), SUBSET S)
  BY FS_StrictSubsetOrderingWellFounded, FS_FiniteSubsetsOfFinite
<1>2. PICK m \in T : \A t \in T : ~(<<t, m>> \in StrictSubsetOrdering(S))
  BY <1>1, WFMin
<1>3. ASSUME NEW t \in T, t \subseteq m PROVE t = m
  <2>1. t \in SUBSET S /\ m \in SUBSET S
    OBVIOUS
  <2> QED
    BY <1>2, <1>3, <2>1 DEF StrictSubsetOrdering
<1> QED
  BY <1>3

\* SumFunctionOnSet sums in the order in which CHOOSE takes elements.
Pick(s) == CHOOSE i \in s : TRUE

\* What the recursion makes of a set, from its value g on smaller ones.
SumStep(g, f, s) == IF s = {} THEN 0 ELSE f[Pick(s)] + g[s \ {Pick(s)}]

\* g is the recursive function SumFunctionOnSet is defined by.
SumsUp(g, f, S) == g = [s \in SUBSET S |-> SumStep(g, f, s)]

UpTo(S, n) == {t \in SUBSET S : Cardinality(t) <= n}

\* The recursion has a solution on the subsets of at most n elements.
LEMMA SumsUpTo ==
    ASSUME NEW f, NEW S, IsFiniteSet(S), NEW n \in Nat
    PROVE  \E g : g = [s \in UpTo(S, n) |-> SumStep(g, f, s)]
<1> USE DEF UpTo
<1> DEFINE Upto(m) == UpTo(S, m)
           Without == {m \in Nat : ~ \E g : g = [s \in Upto(m) |-> SumStep(g, f, s)]}
<1> SUFFICES ASSUME Without # {} PROVE FALSE
  OBVIOUS
<1>0. \A t \in SUBSET S : IsFiniteSet(t) /\ Cardinality(t) \in Nat
  BY FS_Subset, FS_CardinalityType
<1>1. PICK m \in Without : \A k \in Without : m <= k
  BY Least
<1>2. CASE m = 0
  <2> DEFINE none == [s \in Upto(0) |-> 0]
  <2>1. \A s \in Upto(0) : s = {}
    BY <1>0, FS_EmptySet
  <2>2. none = [s \in Upto(0) |-> SumStep(none, f, s)]
    BY <2>1 DEF SumStep
  <2> QED
    BY <1>1, <1>2, <2>2
<1>3. CASE m # 0
  <2>1. m - 1 \in Nat /\ m \in Nat /\ m - 1 \notin Without
    <3>1. m \in Nat
      BY <1>1
    <3> HIDE DEF Without
    <3> QED
      BY <1>1, <1>3, <3>1
  <2>2. PICK h : h = [s \in Upto(m - 1) |-> SumStep(h, f, s)]
    BY <2>1
  <2> DEFINE g == [s \in Upto(m) |-> IF s \in Upto(m - 1) THEN h[s] ELSE SumStep(h, f, s)]
  <2>3. ASSUME NEW s \in Upto(m) PROVE g[s] = SumStep(g, f, s)
    <3>1. CASE s = {}
      <4>1. s \in Upto(m - 1)
        BY <2>1, <3>1, FS_EmptySet
      <4>2. h[s] = SumStep(h, f, s)
        BY <2>2, <4>1, Zenon
      <4> QED
        BY <3>1, <4>1, <4>2 DEF SumStep
    <3>2. CASE s # {}
      <4> DEFINE r == s \ {Pick(s)}
      <4>1. Pick(s) \in s
        BY <3>2 DEF Pick
      <4>2. r \in SUBSET S /\ Cardinality(r) = Cardinality(s) - 1
        BY <1>0, <4>1, FS_RemoveElement
      <4>3. r \in Upto(m - 1) /\ r \in Upto(m)
        BY <1>0, <2>1, <4>2
      <4>4. g[r] = h[r]
        BY <4>3
      <4> HIDE DEF r
      <4>5. h[s] = SumStep(h, f, s) \/ s \notin Upto(m - 1)
        BY <2>2, Zenon
      <4>6. g[s] = f[Pick(s)] + h[r]
        BY <3>2, <4>5 DEF SumStep, r
      <4> HIDE DEF g
      <4> QED
        BY <3>2, <4>4, <4>6 DEF SumStep, r
    <3> QED
      BY <3>1, <3>2
  <2>4. g = [s \in Upto(m) |-> g[s]]
    OBVIOUS
  <2> HIDE DEF g, Upto
  <2>5. g = [s \in Upto(m) |-> SumStep(g, f, s)]
    BY <2>3, <2>4
  <2> QED
    BY <1>1, <2>5
<1> QED
  BY <1>2, <1>3

LEMMA SumsUpExists == ASSUME NEW f, NEW S, IsFiniteSet(S) PROVE \E g : SumsUp(g, f, S)
<1> DEFINE n == Cardinality(S)
<1>1. n \in Nat
  BY FS_CardinalityType
<1>2. UpTo(S, n) = SUBSET S
  BY FS_Subset DEF UpTo
<1> HIDE DEF n
<1>3. PICK g : g = [s \in UpTo(S, n) |-> SumStep(g, f, s)]
  BY <1>1, SumsUpTo
<1> QED
  BY <1>2, <1>3 DEF SumsUp

\* SumFunctionOnSet satisfies its recursion.
LEMMA SumIs ==
    ASSUME NEW f, NEW S, IsFiniteSet(S)
    PROVE  \E g : SumsUp(g, f, S) /\ SumFunctionOnSet(f, S) = g[S]
<1> DEFINE iter == CHOOSE g : SumsUp(g, f, S)
<1>1. SumFunctionOnSet(f, S) = iter[S]
  BY DEF SumFunctionOnSet, FoldFunctionOnSet, MapThenFoldSet, SumsUp, SumStep, Pick
<1>2. SumsUp(iter, f, S)
  BY SumsUpExists
<1> QED
  BY <1>1, <1>2

\* What the recursion yields on the subsets does not depend on the set summed over.
LEMMA SumsUpAgree ==
    ASSUME NEW f, NEW S, IsFiniteSet(S), NEW T \in SUBSET S, NEW g, SumsUp(g, f, S),
           NEW h, SumsUp(h, f, T)
    PROVE  \A t \in SUBSET T : h[t] = g[t]
<1> DEFINE Wrong == {t \in SUBSET T : h[t] # g[t]}
<1> SUFFICES ASSUME Wrong # {} PROVE FALSE
  OBVIOUS
<1>1. IsFiniteSet(T) /\ Wrong \subseteq SUBSET T
  BY FS_Subset
<1>2. PICK m \in Wrong : \A t \in Wrong : t \subseteq m => t = m
  <2> HIDE DEF Wrong
  <2> QED
    BY <1>1, Smallest
<1>3. h[m] = SumStep(h, f, m) /\ g[m] = SumStep(g, f, m)
  <2>1. m \in SUBSET T /\ m \in SUBSET S
    OBVIOUS
  <2> QED
    BY <2>1, Zenon DEF SumsUp
<1>4. m # {}
  BY <1>3 DEF SumStep
<1>5. Pick(m) \in m
  BY <1>4 DEF Pick
<1>6. m \ {Pick(m)} \in SUBSET T /\ m \ {Pick(m)} \notin Wrong
  BY <1>2, <1>5
<1>7. h[m \ {Pick(m)}] = g[m \ {Pick(m)}]
  BY <1>6
<1> QED
  BY <1>3, <1>4, <1>7 DEF SumStep

LEMMA SumEmpty == ASSUME NEW f PROVE SumFunctionOnSet(f, {}) = 0
<1>1. IsFiniteSet({})
  BY FS_EmptySet
<1>2. PICK g : SumsUp(g, f, {}) /\ SumFunctionOnSet(f, {}) = g[{}]
  BY <1>1, SumIs
<1>3. g[{}] = SumStep(g, f, {})
  <2>1. {} \in SUBSET {}
    OBVIOUS
  <2> QED
    BY <1>2, <2>1, Zenon DEF SumsUp
<1> QED
  BY <1>2, <1>3 DEF SumStep

\* The element that is chosen is taken off.
LEMMA SumChosen ==
    ASSUME NEW f, NEW S, IsFiniteSet(S), S # {}
    PROVE  /\ Pick(S) \in S
           /\ SumFunctionOnSet(f, S) = f[Pick(S)] + SumFunctionOnSet(f, S \ {Pick(S)})
<1> DEFINE R == S \ {Pick(S)}
<1>1. Pick(S) \in S
  BY DEF Pick
<1>2. IsFiniteSet(R) /\ R \in SUBSET S /\ R \in SUBSET R
  BY FS_Subset
<1>3. PICK g : SumsUp(g, f, S) /\ SumFunctionOnSet(f, S) = g[S]
  BY SumIs
<1>4. g[S] = f[Pick(S)] + g[R]
  <2>1. S \in SUBSET S
    OBVIOUS
  <2>2. g[S] = SumStep(g, f, S)
    BY <1>3, <2>1, Zenon DEF SumsUp
  <2> QED
    BY <2>2 DEF SumStep
<1> HIDE DEF R
<1>5. PICK h : SumsUp(h, f, R) /\ SumFunctionOnSet(f, R) = h[R]
  BY <1>2, SumIs
<1>6. h[R] = g[R]
  <2>1. \A t \in SUBSET R : h[t] = g[t]
    BY <1>2, <1>3, <1>5, SumsUpAgree
  <2> QED
    BY <1>2, <2>1
<1> QED
  BY <1>1, <1>3, <1>4, <1>5, <1>6 DEF R

\* A sum of integers is an integer.
LEMMA SumType ==
    ASSUME NEW f, NEW S, IsFiniteSet(S), \A i \in S : f[i] \in Int
    PROVE  SumFunctionOnSet(f, S) \in Int
<1> DEFINE Wrong == {t \in SUBSET S : SumFunctionOnSet(f, t) \notin Int}
<1> SUFFICES ASSUME Wrong # {} PROVE FALSE
  OBVIOUS
<1>1. Wrong \subseteq SUBSET S
  OBVIOUS
<1>2. PICK m \in Wrong : \A t \in Wrong : t \subseteq m => t = m
  <2> HIDE DEF Wrong
  <2> QED
    BY <1>1, Smallest
<1>3. m # {}
  BY SumEmpty
<1>4. IsFiniteSet(m)
  BY FS_Subset
<1>5. Pick(m) \in m /\ SumFunctionOnSet(f, m) = f[Pick(m)] + SumFunctionOnSet(f, m \ {Pick(m)})
  BY <1>3, <1>4, SumChosen
<1>6. SumFunctionOnSet(f, m \ {Pick(m)}) \in Int
  BY <1>2, <1>5
<1> QED
  BY <1>5, <1>6

\* Any element may be taken off.
LEMMA SumPeel ==
    ASSUME NEW f, NEW S, IsFiniteSet(S), \A i \in S : f[i] \in Int, NEW e \in S
    PROVE  SumFunctionOnSet(f, S) = f[e] + SumFunctionOnSet(f, S \ {e})
<1> DEFINE Sum(t) == SumFunctionOnSet(f, t)
           Wrong == {t \in SUBSET S : \E y \in t : Sum(t) # f[y] + Sum(t \ {y})}
<1> SUFFICES ASSUME Wrong # {} PROVE FALSE
  OBVIOUS
<1>0. \A t \in SUBSET S : IsFiniteSet(t) /\ Sum(t) \in Int
  BY FS_Subset, SumType
<1>1. Wrong \subseteq SUBSET S
  OBVIOUS
<1>2. PICK m \in Wrong : \A t \in Wrong : t \subseteq m => t = m
  <2> HIDE DEF Wrong
  <2> QED
    BY <1>1, Smallest
<1>3. PICK y \in m : Sum(m) # f[y] + Sum(m \ {y})
  OBVIOUS
<1> DEFINE z == Pick(m)
<1>4. z \in m /\ Sum(m) = f[z] + Sum(m \ {z})
  BY <1>0, <1>3, SumChosen
<1>5. z # y /\ y \in m \ {z} /\ z \in m \ {y}
  BY <1>3, <1>4
<1>6. m \ {z} \notin Wrong /\ m \ {y} \notin Wrong
  BY <1>2, <1>5
<1> HIDE DEF Sum, z
<1>7. Sum(m \ {z}) = f[y] + Sum((m \ {z}) \ {y}) /\ Sum(m \ {y}) = f[z] + Sum((m \ {y}) \ {z})
  BY <1>5, <1>6
<1> DEFINE rest == (m \ {y}) \ {z}
<1>8. (m \ {z}) \ {y} = rest
  OBVIOUS
<1>9. f[y] \in Int /\ f[z] \in Int /\ Sum(rest) \in Int
  BY <1>0, <1>4
<1> HIDE DEF rest
<1>10. Sum(m \ {z}) = f[y] + Sum(rest) /\ Sum(m \ {y}) = f[z] + Sum(rest)
  BY <1>7, <1>8 DEF rest
<1> QED
  BY <1>3, <1>4, <1>9, <1>10

\* Only the values on the set matter.
LEMMA SumAgree ==
    ASSUME NEW f, NEW g, NEW S, IsFiniteSet(S), \A i \in S : f[i] \in Int /\ g[i] = f[i]
    PROVE  SumFunctionOnSet(g, S) = SumFunctionOnSet(f, S)
<1> DEFINE Wrong == {t \in SUBSET S : SumFunctionOnSet(g, t) # SumFunctionOnSet(f, t)}
<1> SUFFICES ASSUME Wrong # {} PROVE FALSE
  OBVIOUS
<1>1. Wrong \subseteq SUBSET S
  OBVIOUS
<1>2. PICK m \in Wrong : \A t \in Wrong : t \subseteq m => t = m
  <2> HIDE DEF Wrong
  <2> QED
    BY <1>1, Smallest
<1>3. m # {}
  BY SumEmpty
<1>4. IsFiniteSet(m)
  BY FS_Subset
<1>5. /\ Pick(m) \in m
      /\ SumFunctionOnSet(f, m) = f[Pick(m)] + SumFunctionOnSet(f, m \ {Pick(m)})
      /\ SumFunctionOnSet(g, m) = g[Pick(m)] + SumFunctionOnSet(g, m \ {Pick(m)})
  BY <1>3, <1>4, SumChosen
<1>6. SumFunctionOnSet(f, m \ {Pick(m)}) = SumFunctionOnSet(g, m \ {Pick(m)})
  BY <1>2, <1>5
<1> QED
  BY <1>5, <1>6

\* One element replaced: what an accumulator that adds the difference follows.
LEMMA SumReplace ==
    ASSUME NEW f, NEW g, NEW S, IsFiniteSet(S), \A i \in S : f[i] \in Int /\ g[i] \in Int,
           NEW e \in S, \A i \in S \ {e} : g[i] = f[i]
    PROVE  SumFunctionOnSet(g, S) = (SumFunctionOnSet(f, S) + g[e]) - f[e]
<1> DEFINE R == S \ {e}
<1>1. IsFiniteSet(R) /\ R \subseteq S
  BY FS_Subset
<1>2. SumFunctionOnSet(g, R) = SumFunctionOnSet(f, R) /\ SumFunctionOnSet(f, R) \in Int
  BY <1>1, SumAgree, SumType
<1>3. /\ SumFunctionOnSet(f, S) = f[e] + SumFunctionOnSet(f, R)
      /\ SumFunctionOnSet(g, S) = g[e] + SumFunctionOnSet(g, R)
  BY SumPeel
<1> QED
  BY <1>2, <1>3

\* F tells what the first elements of f from a on add up to, up to the n-th.
Totals(F, f, a, n) ==
    /\ F[0] = 0 /\ \A j \in 0 .. n : F[j] \in Int
    /\ \A j \in 0 .. n - 1 : f[a + j] \in Int /\ F[j + 1] = F[j] + f[a + j]

Span(a, n) == a .. (a + n) - 1

\* If F adds up f step by step, its last value is the sum.
LEMMA SumTelescopes ==
    ASSUME NEW f, NEW a \in Int, NEW n \in Nat, NEW F, Totals(F, f, a, n)
    PROVE  SumFunctionOnSet(f, Span(a, n)) = F[n]
<1> USE DEF Totals, Span
<1> DEFINE Wrong == {m \in 0 .. n : SumFunctionOnSet(f, a .. (a + m) - 1) # F[m]}
<1> SUFFICES ASSUME Wrong # {} PROVE FALSE
  <2>1. n \in 0 .. n
    OBVIOUS
  <2> QED
    BY <2>1
<1>1. Wrong \subseteq Nat
  OBVIOUS
<1>2. PICK m \in Wrong : \A k \in Wrong : m <= k
  <2> HIDE DEF Wrong
  <2> QED
    BY <1>1, Least
<1>3. m # 0
  <2>1. a .. (a + 0) - 1 = {}
    OBVIOUS
  <2> QED
    BY <1>2, <2>1, SumEmpty
<1>4. m \in 0 .. n /\ m - 1 \in 0 .. n /\ m - 1 \in 0 .. n - 1 /\ m - 1 \notin Wrong
  <2>1. m \in 0 .. n
    OBVIOUS
  <2> HIDE DEF Wrong
  <2> QED
    BY <1>2, <1>3, <2>1
<1> DEFINE S == a .. (a + m) - 1
           last == (a + m) - 1
           R == a .. (a + (m - 1)) - 1
<1>5. last \in S /\ S \ {last} = R
  <2>1. m \in Int /\ m >= 1
    BY <1>3, <1>4
  <2>2. \A i : i \in S \ {last} <=> i \in R
    BY <2>1
  <2> QED
    BY <2>1, <2>2
<1>6. \A i \in S : f[i] \in Int
  <2> TAKE i \in S
  <2>1. i - a \in 0 .. n - 1 /\ a + (i - a) = i
    BY <1>4
  <2> QED
    BY <2>1
<1>7. IsFiniteSet(S)
  <2>1. (a + m) - 1 \in Int
    BY <1>4
  <2> QED
    BY <2>1, FS_Interval
<1>8. SumFunctionOnSet(f, R) = F[m - 1]
  BY <1>4
<1>9. SumFunctionOnSet(f, S) # F[m]
  BY <1>2
<1> HIDE DEF S, R, Wrong
<1>10. SumFunctionOnSet(f, S) = f[last] + SumFunctionOnSet(f, R)
  BY <1>5, <1>6, <1>7, SumPeel
<1>11. last = a + (m - 1) /\ (m - 1) + 1 = m
  BY <1>4
<1>12. F[m] = F[m - 1] + f[last] /\ F[m - 1] \in Int /\ f[last] \in Int
  BY <1>4, <1>11
<1> QED
  BY <1>8, <1>9, <1>10, <1>12

Places == 0 .. BufLen - 1

Steps == {"idle", "lengths", "clear", "bypass", "fill"}

\* The types the proof uses.
Types ==
    /\ x \in 0 .. MaxMeas * Scale /\ {slope, u, filtered, extrapolated} \subseteq Int
    /\ running \in BOOLEAN
    /\ len \in Nat \X Nat /\ elen \in Nat /\ fidx \in Nat \X Nat /\ eidx \in Nat
    /\ acc \in Int \X Int /\ buf \in [Places -> Int]
    /\ rate \in [counter : 0 .. Period - 1, history : [0 .. 3 -> Int], estimate : Int]
    /\ bg \in [at : Steps, left : Nat, met : Nat]
    /\ changes \in Nat /\ inits \in Nat /\ steady \in 0 .. Enough

\* The stages and the extrapolation fit in the buffer.
Layout ==
    /\ (len[1] + len[2]) + elen <= BufLen
    /\ len[1] = 0 => len[2] = 0

\* Each index is within its stage, also while the filter is being set up.
Indexes ==
    /\ len[1] > 0 => fidx[1] < len[1]
    /\ len[2] > 0 => fidx[2] < len[2]
    /\ elen > 0 => eidx < elen

----------------------------------------------------------------------------
(* Quotients                                                               *)

\* The divisions met on a ramp are exact.
LEMMA Quotient == ASSUME NEW n \in Nat, n > 0, NEW q \in Int PROVE (n * q) \div n = q
<1>1. (n * q) \div n \in Int /\ ((n * q) % n) \in 0 .. n - 1
      /\ n * q = (n * ((n * q) \div n)) + ((n * q) % n)
  BY SMT
<1> DEFINE p == (n * q) \div n
           r == (n * q) % n
<1>2. n * q = n * p + r /\ p \in Int /\ r \in Int /\ 0 <= r /\ r < n
  BY <1>1
<1> HIDE DEF p, r
<1>3. n * (q - p) = r
  BY <1>2
<1>4. q - p < 1
  <2> SUFFICES ASSUME q - p >= 1 PROVE FALSE
    BY <1>2
  <2>1. n * (q - p) >= n
    BY <1>2
  <2> QED
    BY <1>2, <1>3, <2>1
<1>5. q - p > -1
  <2> SUFFICES ASSUME q - p <= -1 PROVE FALSE
    BY <1>2
  <2>1. n * (q - p) <= -n
    BY <1>2
  <2> QED
    BY <1>2, <1>3, <2>1
<1> QED
  BY <1>2, <1>4, <1>5 DEF p

LEMMA QuotientType == ASSUME NEW n \in Nat, n > 0, NEW q \in Int PROVE q \div n \in Int
  BY SMT

----------------------------------------------------------------------------
(* One value through the filter                                            *)

LEMMA ClipType == ASSUME NEW v \in Int PROVE Clip(v) \in Int
  BY InputAssumption DEF Clip, Scale

\* What a value does to the accumulators and the buffer: each stage replaces
\* one element and adds the difference.
LEMMA FirBuffer ==
    ASSUME Types, Layout, Indexes, len[1] > 0, NEW v \in Int
    PROVE  LET r == Fir(v)
               c == Clip(v)
               to == len[1] + fidx[2]
           IN  /\ r.acc[1] = (acc[1] + c) - buf[fidx[1]] /\ r.acc[1] \in Int
               /\ r.buf \in [Places -> Int] /\ r.buf[fidx[1]] = c
               /\ len[2] = 0 => /\ r.acc[2] = acc[2] /\ r.out = r.acc[1] \div len[1]
                                /\ \A i \in Places \ {fidx[1]} : r.buf[i] = buf[i]
               /\ len[2] > 0 =>
                    /\ to \in Places /\ to # fidx[1]
                    /\ r.buf[to] = r.acc[1] \div len[1]
                    /\ r.acc[2] = (acc[2] + r.buf[to]) - buf[to]
                    /\ r.out = r.acc[2] \div len[2]
                    /\ \A i \in Places \ {fidx[1], to} : r.buf[i] = buf[i]
<1> DEFINE c == Clip(v)
           at == fidx[1]
           to == len[1] + fidx[2]
           a1 == (acc[1] + c) - buf[at]
           b1 == [buf EXCEPT ![at] = c]
           q == a1 \div len[1]
           a2 == (acc[2] + q) - b1[to]
           b2 == [b1 EXCEPT ![to] = q]
<1>1. /\ len[1] \in Nat /\ len[2] \in Nat /\ fidx[1] \in Nat /\ fidx[2] \in Nat /\ elen \in Nat
      /\ acc[1] \in Int /\ acc[2] \in Int /\ buf \in [Places -> Int]
  BY DEF Types
<1>2. BufLen \in Int /\ (len[1] + len[2]) + elen <= BufLen /\ fidx[1] < len[1]
      /\ (len[2] > 0 => fidx[2] < len[2])
  BY <1>1, BufLenAssumption DEF Layout, Indexes
<1>3. at \in Places /\ c \in Int /\ a1 \in Int
  <2>1. at \in Places
    BY <1>2, <1>1 DEF Places
  <2>2. c \in Int
    BY ClipType
  <2> QED
    BY <1>1, <2>1, <2>2
<1>4. b1 \in [Places -> Int] /\ b1[at] = c /\ \A i \in Places \ {at} : b1[i] = buf[i]
  BY <1>1, <1>3
<1>5. q \in Int
  BY <1>1, <1>3, QuotientType
<1>6. ASSUME len[2] > 0 PROVE to \in Places /\ to # at
  <2>1. fidx[2] < len[2]
    BY <1>2, <1>6
  <2>2. to \in Int /\ 0 <= to /\ to <= BufLen - 1 /\ at < to
    BY <1>2, <1>1, <2>1
  <2> QED
    BY <1>2, <2>2 DEF Places
<1>7. len[2] > 0 => /\ b2 \in [Places -> Int] /\ b2[to] = q /\ b2[at] = c
                    /\ \A i \in Places \ {at, to} : b2[i] = buf[i]
                    /\ a2 = (acc[2] + q) - buf[to]
  <2> SUFFICES ASSUME len[2] > 0 PROVE /\ b2 \in [Places -> Int] /\ b2[to] = q /\ b2[at] = c
                                       /\ \A i \in Places \ {at, to} : b2[i] = buf[i]
                                       /\ a2 = (acc[2] + q) - buf[to]
    OBVIOUS
  <2>1. to \in Places /\ to # at
    BY <1>6
  <2> HIDE DEF b1, q, to, at, c
  <2>2. b1[to] = buf[to]
    BY <1>4, <2>1
  <2>3. b2 \in [Places -> Int] /\ b2[to] = q /\ \A i \in Places \ {to} : b2[i] = b1[i]
    BY <1>4, <1>5, <2>1
  <2> HIDE DEF b2
  <2> QED
    BY <1>3, <1>4, <2>1, <2>2, <2>3
<1>8. /\ Stage1(Clip(v)).acc = acc[1] + c - buf[at] /\ Stage1(Clip(v)).buf = b1
      /\ a1 = acc[1] + c - buf[at]
  BY <1>1, <1>3 DEF Stage1, Places
<1>9. /\ Stage2(q, b1).acc = acc[2] + q - b1[to] /\ Stage2(q, b1).buf = b2
  BY DEF Stage2
<1>10. len[2] > 0 => a2 = acc[2] + q - b1[to]
  <2> SUFFICES ASSUME len[2] > 0 PROVE a2 = acc[2] + q - b1[to]
    OBVIOUS
  <2>1. b1[to] \in Int
    BY <1>4, <1>6
  <2> HIDE DEF b1, q, to
  <2> QED
    BY <1>1, <1>5, <2>1
<1> HIDE DEF c, at, to, a1, b1, q, a2, b2
<1>11. CASE len[2] = 0
  <2>1. Fir(v).acc[1] = a1 /\ Fir(v).acc[2] = acc[2] /\ Fir(v).buf = b1 /\ Fir(v).out = q
    BY <1>8, <1>11 DEF Fir, q
  <2> QED
    BY <1>1, <1>3, <1>4, <1>11, <2>1 DEF a1, at, c, q
<1>12. CASE len[2] > 0
  <2>1. Fir(v).acc[1] = a1 /\ Fir(v).acc[2] = a2 /\ Fir(v).buf = b2 /\ Fir(v).out = a2 \div len[2]
    BY <1>1, <1>8, <1>9, <1>10, <1>12 DEF Fir, q
  <2> QED
    BY <1>1, <1>3, <1>5, <1>6, <1>7, <1>12, <2>1 DEF a1, at, c, q, to
<1> QED
  BY <1>1, <1>11, <1>12

\* The indexes stay in their stages.
LEMMA FirIndex ==
    ASSUME Types, Layout, Indexes, len[1] > 0, NEW v
    PROVE  LET f == Fir(v).fidx
           IN  /\ f \in Nat \X Nat
               /\ f[1] = Wrap(fidx[1] + 1, len[1]) /\ f[1] < len[1]
               /\ len[2] > 0 => f[2] = Wrap(fidx[2] + 1, len[2]) /\ f[2] < len[2]
<1>1. /\ len[1] \in Nat /\ len[2] \in Nat /\ fidx[1] \in Nat /\ fidx[2] \in Nat
  BY DEF Types
<1>2. fidx[1] + 1 \in Nat /\ fidx[2] + 1 \in Nat
  BY <1>1
<1>3. Wrap(fidx[1] + 1, len[1]) \in Nat /\ Wrap(fidx[1] + 1, len[1]) < len[1]
  BY <1>1, <1>2 DEF Wrap
<1>4. len[2] > 0 => Wrap(fidx[2] + 1, len[2]) \in Nat /\ Wrap(fidx[2] + 1, len[2]) < len[2]
  BY <1>1, <1>2 DEF Wrap
<1>5. CASE len[2] = 0
  <2>1. Fir(v).fidx = <<Wrap(fidx[1] + 1, len[1]), fidx[2]>>
    BY <1>5 DEF Fir, Stage1
  <2> QED
    BY <1>1, <1>3, <1>5, <2>1
<1>6. CASE len[2] > 0
  <2>1. Fir(v).fidx = <<Wrap(fidx[1] + 1, len[1]), Wrap(fidx[2] + 1, len[2])>>
    BY <1>1, <1>6 DEF Fir, Stage1, Stage2
  <2> QED
    BY <1>3, <1>4, <1>6, <2>1
<1> QED
  BY <1>1, <1>5, <1>6

LEMMA FirType ==
    ASSUME Types, Layout, Indexes, len[1] > 0, NEW v \in Int
    PROVE  Fir(v).acc \in Int \X Int /\ Fir(v).buf \in [Places -> Int] /\ Fir(v).out \in Int
<1>1. len[1] \in Nat /\ len[2] \in Nat /\ acc \in Int \X Int /\ buf \in [Places -> Int]
  BY DEF Types
<1>2. Fir(v).acc[1] \in Int /\ Fir(v).buf \in [Places -> Int]
  BY FirBuffer
<1>3. CASE len[2] = 0
  <2>1. Fir(v).acc[2] = acc[2] /\ Fir(v).out = Fir(v).acc[1] \div len[1]
    BY <1>3, FirBuffer
  <2>2. Fir(v).acc = <<Fir(v).acc[1], Fir(v).acc[2]>>
    BY <1>3 DEF Fir
  <2> QED
    BY <1>1, <1>2, <2>1, <2>2, QuotientType
<1>4. CASE len[2] > 0
  <2> DEFINE to == len[1] + fidx[2]
  <2>1. /\ to \in Places /\ Fir(v).acc[2] = (acc[2] + Fir(v).buf[to]) - buf[to]
        /\ Fir(v).out = Fir(v).acc[2] \div len[2]
    BY <1>4, FirBuffer
  <2>2. Fir(v).acc = <<Fir(v).acc[1], Fir(v).acc[2]>>
    BY <1>1, <1>4 DEF Fir
  <2> HIDE DEF to
  <2>3. Fir(v).acc[2] \in Int
    BY <1>1, <1>2, <2>1
  <2> QED
    BY <1>1, <1>2, <1>4, <2>1, <2>2, <2>3, QuotientType
<1> QED
  BY <1>1, <1>3, <1>4

\* The slots of each stage.
Window1 == 0 .. len[1] - 1
Window2 == len[1] .. len[1] + len[2] - 1

\* The accumulators a are the sums of the stages in b.
SumsOf(a, b) ==
    /\ a[1] = SumFunctionOnSet(b, Window1)
    /\ len[2] > 0 => a[2] = SumFunctionOnSet(b, Window2)

LEMMA Windows ==
    ASSUME Types, Layout
    PROVE  /\ IsFiniteSet(Window1) /\ Window1 \subseteq Places
           /\ IsFiniteSet(Window2) /\ Window2 \subseteq Places
           /\ Window1 \cap Window2 = {}
<1>1. /\ len[1] \in Nat /\ len[2] \in Nat /\ elen \in Nat /\ BufLen \in Nat
      /\ (len[1] + len[2]) + elen <= BufLen
  BY BufLenAssumption DEF Types, Layout
<1>2. len[1] - 1 \in Int /\ len[1] + len[2] - 1 \in Int
  BY <1>1
<1>3. IsFiniteSet(Window1) /\ IsFiniteSet(Window2)
  <2>1. \A a, b \in Int : IsFiniteSet(a .. b)
    BY FS_Interval
  <2> QED
    BY <1>1, <1>2, <2>1 DEF Window1, Window2
<1>4. \A i : /\ i \in Window1 => i \in Places /\ i < len[1]
             /\ i \in Window2 => i \in Places /\ i >= len[1]
  BY <1>1 DEF Window1, Window2, Places
<1>5. \A i : ~(i \in Window1 /\ i \in Window2)
  BY <1>1, <1>4 DEF Places
<1> QED
  BY <1>3, <1>4, <1>5

\* A value through the filter keeps the accumulators the sums of their windows.
LEMMA FirSums ==
    ASSUME Types, Layout, Indexes, len[1] > 0, NEW v \in Int, SumsOf(acc, buf)
    PROVE  SumsOf(Fir(v).acc, Fir(v).buf)
<1> DEFINE b == Fir(v).buf
           at == fidx[1]
           to == len[1] + fidx[2]
<1>1. /\ len[1] \in Nat /\ len[2] \in Nat /\ fidx[1] \in Nat /\ fidx[2] \in Nat
      /\ buf \in [Places -> Int] /\ b \in [Places -> Int] /\ acc[1] \in Int /\ acc[2] \in Int
  BY FirType DEF Types
<1>2. /\ IsFiniteSet(Window1) /\ Window1 \subseteq Places
      /\ IsFiniteSet(Window2) /\ Window2 \subseteq Places /\ Window1 \cap Window2 = {}
  BY Windows
<1>3. at \in Window1
  BY <1>1 DEF Indexes, Window1
<1>4. ASSUME len[2] > 0 PROVE to \in Window2
  <2>1. fidx[2] < len[2]
    BY <1>4 DEF Indexes
  <2> QED
    BY <1>1, <2>1 DEF Window2
<1>5. /\ Fir(v).acc[1] = (acc[1] + b[at]) - buf[at]
      /\ \A i \in Window1 \ {at} : b[i] = buf[i]
  <2>1. b[at] = Clip(v) /\ Fir(v).acc[1] = (acc[1] + Clip(v)) - buf[at]
    BY FirBuffer
  <2>2. CASE len[2] = 0
    <3>1. \A i \in Places \ {at} : b[i] = buf[i]
      BY <2>2, FirBuffer
    <3> QED
      BY <1>2, <2>1, <3>1
  <2>3. CASE len[2] > 0
    <3>1. \A i \in Places \ {at, to} : b[i] = buf[i]
      BY <2>3, FirBuffer
    <3> HIDE DEF b, at, to
    <3> QED
      BY <1>2, <1>4, <2>1, <2>3, <3>1
  <2> QED
    BY <1>1, <2>2, <2>3
<1>6. SumFunctionOnSet(b, Window1) = (SumFunctionOnSet(buf, Window1) + b[at]) - buf[at]
  <2>1. \A i \in Window1 : buf[i] \in Int /\ b[i] \in Int
    BY <1>1, <1>2
  <2> HIDE DEF b, at
  <2> QED
    BY <1>2, <1>3, <1>5, <2>1, SumReplace
<1>7. Fir(v).acc[1] = SumFunctionOnSet(b, Window1)
  BY <1>5, <1>6 DEF SumsOf
<1>8. ASSUME len[2] > 0 PROVE Fir(v).acc[2] = SumFunctionOnSet(b, Window2)
  <2>1. /\ Fir(v).acc[2] = (acc[2] + b[to]) - buf[to]
        /\ \A i \in Places \ {at, to} : b[i] = buf[i]
    BY <1>8, FirBuffer
  <2>2. \A i \in Window2 : buf[i] \in Int /\ b[i] \in Int
    BY <1>1, <1>2
  <2>3. to \in Window2
    BY <1>4, <1>8
  <2> HIDE DEF b, at, to
  <2>4. \A i \in Window2 \ {to} : b[i] = buf[i]
    BY <1>2, <1>3, <2>1
  <2>5. SumFunctionOnSet(b, Window2) = (SumFunctionOnSet(buf, Window2) + b[to]) - buf[to]
    BY <1>2, <2>2, <2>3, <2>4, SumReplace
  <2> QED
    BY <1>8, <2>1, <2>5 DEF SumsOf
<1> QED
  BY <1>7, <1>8 DEF SumsOf

----------------------------------------------------------------------------
(* Rings                                                                   *)

\* How many values ago slot i of a ring of n, whose next slot is at, was written.
Age(i, at, n) == IF i < at THEN at - i ELSE (at - i) + n

\* The last k values written to a ring are a ramp of slope d that has come to top.
Ring(b, from, n, at, k, top, d) ==
    \A i \in 0 .. n - 1 : Age(i, at, n) <= k => b[from + i] = top - (Age(i, at, n) - 1) * d

\* One more value of the ramp: the ring holds one more of them.
LEMMA RingStep ==
    ASSUME NEW n \in Nat, NEW at \in 0 .. n - 1, NEW from \in Nat, NEW k \in Int, NEW top \in Int,
           NEW d \in Int, NEW b, NEW c, Ring(b, from, n, at, k, top, d), c[from + at] = top + d,
           \A i \in 0 .. n - 1 : i # at => c[from + i] = b[from + i]
    PROVE  Ring(c, from, n, Wrap(at + 1, n), k + 1, top + d, d)
<1> SUFFICES ASSUME NEW i \in 0 .. n - 1, Age(i, Wrap(at + 1, n), n) <= k + 1
             PROVE  c[from + i] = (top + d) - (Age(i, Wrap(at + 1, n), n) - 1) * d
  BY DEF Ring
<1> DEFINE g == Age(i, at, n)
<1>1. CASE i = at
  <2>1. Age(i, Wrap(at + 1, n), n) = 1
    BY <1>1 DEF Age, Wrap
  <2> QED
    BY <1>1, <2>1
<1>2. CASE i # at
  <2>1. Age(i, Wrap(at + 1, n), n) = g + 1 /\ g \in Int
    BY <1>2 DEF Age, Wrap
  <2> HIDE DEF g
  <2>2. g <= k
    BY <2>1
  <2>3. c[from + i] = top - (g - 1) * d
    BY <1>2, <2>2 DEF g, Ring
  <2> QED
    BY <2>1, <2>3
<1> QED
  BY <1>1, <1>2

\* The last slot of the ring of n holds the value of n values ago.
LEMMA RingOldest ==
    ASSUME NEW n \in Nat, NEW at \in 0 .. n - 1, NEW from \in Nat, NEW k \in Int, k >= n,
           NEW top \in Int, NEW d \in Int, NEW b, Ring(b, from, n, at, k, top, d)
    PROVE  b[from + at] = top - (n - 1) * d
<1>1. Age(at, at, n) = n
  BY DEF Age
<1> QED
  BY <1>1 DEF Ring

\* The sum of a ring that holds nothing but the ramp.
LEMMA RingSum ==
    ASSUME NEW n \in Nat, NEW at \in 0 .. n - 1, NEW from \in Nat, NEW k \in Int, k >= n,
           NEW top \in Int, NEW e \in Int, NEW b, Ring(b, from, n, at, k, top, 2 * e)
    PROVE  SumFunctionOnSet(b, Span(from, n)) = n * (top - e * (n - 1))
<1> DEFINE Part(j) == j * top - e * ((2 * (j * at) - j * j) - j)
           Over(j) == 2 * (e * (n * (j - at)))
           F == [j \in 0 .. n |-> IF j <= at THEN Part(j) ELSE Part(j) - Over(j)]
<1>1. n \in Int /\ at \in Int /\ 0 <= at /\ at < n
  OBVIOUS
<1>2. ASSUME NEW j \in 0 .. n - 1 PROVE b[from + j] = top - (Age(j, at, n) - 1) * (2 * e)
  BY DEF Ring, Age
<1>3. ASSUME NEW j \in Int PROVE Part(j) \in Int /\ Over(j) \in Int
  BY <1>1
<1>4. F[0] = 0
  BY <1>1
<1>5. \A j \in 0 .. n : F[j] \in Int
  BY <1>3
<1>6. ASSUME NEW j \in 0 .. n - 1 PROVE b[from + j] \in Int /\ F[j + 1] = F[j] + b[from + j]
  <2>1. j \in Int /\ 0 <= j /\ j < n /\ j \in 0 .. n /\ j + 1 \in 0 .. n
    OBVIOUS
  <2>2. Part(j + 1) = Part(j) + top - e * (2 * at - 2 * j - 2)
    BY <1>1, <2>1
  <2>3. Over(j + 1) = Over(j) + 2 * (e * n)
    BY <1>1, <2>1
  <2>4. CASE j < at
    <3>1. b[from + j] = top - (at - j - 1) * (2 * e)
      BY <1>2, <2>4 DEF Age
    <3>2. F[j] = Part(j) /\ F[j + 1] = Part(j + 1)
      BY <1>1, <2>1, <2>4
    <3> QED
      BY <1>1, <1>3, <2>1, <2>2, <3>1, <3>2
  <2>5. CASE j >= at
    <3>1. b[from + j] = top - (((at - j) + n) - 1) * (2 * e)
      BY <1>1, <1>2, <2>1, <2>5 DEF Age
    <3>2. F[j + 1] = Part(j + 1) - Over(j + 1)
      BY <1>1, <2>1, <2>5
    <3>3. F[j] = Part(j) - Over(j)
      BY <1>1, <1>3, <2>1, <2>5
    <3> QED
      BY <1>1, <1>3, <2>1, <2>2, <2>3, <3>1, <3>2, <3>3
  <2> QED
    BY <1>1, <2>1, <2>4, <2>5
<1>7. F[n] = n * (top - e * (n - 1))
  BY <1>1
<1> HIDE DEF F
<1>8. from \in Int /\ \A j \in 0 .. n - 1 : b[from + j] \in Int /\ F[j + 1] = F[j] + b[from + j]
  BY <1>6
<1>10. n \in Nat
  OBVIOUS
<1> HIDE DEF Part, Over
<1>9. SumFunctionOnSet(b, Span(from, n)) = F[n]
  <2>1. Totals(F, b, from, n)
    BY <1>4, <1>5, <1>8 DEF Totals
  <2> QED
    BY <1>8, <1>10, <2>1, SumTelescopes
<1> QED
  BY <1>7, <1>9

Both == len[1] + len[2]

\* How many iterations' worth of the ramp the filter is behind, twice.
Lag == IF len[1] = 0 THEN 0 ELSE IF len[2] = 0 THEN len[1] - 1 ELSE (len[1] - 1) + (len[2] - 1)

\* The last k values filtered are a ramp of slope 2 * e that has come to top.
Rings(b, f, k, top, e) ==
    /\ Ring(b, 0, len[1], f[1], k, top, 2 * e)
    /\ len[2] > 0 => Ring(b, len[1], len[2], f[2], k - len[1], top - e * (len[1] - 1), 2 * e)

\* Nothing is claimed of a ring that holds none of the ramp.
LEMMA RingNone ==
    ASSUME NEW n \in Nat, NEW at \in 0 .. n - 1, NEW from, NEW k \in Int, k <= 0,
           NEW top, NEW d, NEW b
    PROVE  Ring(b, from, n, at, k, top, d)
<1>1. \A i \in 0 .. n - 1 : Age(i, at, n) > 0
  BY DEF Age
<1>2. \A i \in 0 .. n - 1 : Age(i, at, n) \in Int
  BY DEF Age
<1> QED
  BY <1>1, <1>2 DEF Ring

\* An older claim is weaker.
LEMMA RingWeaker ==
    ASSUME NEW n \in Nat, NEW at \in 0 .. n - 1, NEW from, NEW k \in Int, NEW m \in Int,
           m <= k \/ n <= k, NEW top, NEW d, NEW b, Ring(b, from, n, at, k, top, d)
    PROVE  Ring(b, from, n, at, m, top, d)
<1>1. \A i \in 0 .. n - 1 : Age(i, at, n) <= n /\ Age(i, at, n) \in Int
  BY DEF Age
<1> QED
  BY <1>1 DEF Ring

\* A ramp through both stages: once it has gone through them, the output is the
\* ramp, later by half of what each stage is long.
LEMMA FirRamp ==
    ASSUME Types, Layout, Indexes, len[1] > 0, SumsOf(acc, buf), NEW k \in Int, NEW top \in Int,
           NEW e \in Int, Rings(buf, fidx, k, top, e), NEW v, v = top + 2 * e, Clip(v) = v
    PROVE  /\ Rings(Fir(v).buf, Fir(v).fidx, k + 1, v, e)
           /\ k + 1 >= Both => Fir(v).out = v - e * Lag
<1> DEFINE b == Fir(v).buf
           at == fidx[1]
           to == len[1] + fidx[2]
           f == Fir(v).fidx
           a == Fir(v).acc
           n == len[1]
           m == len[2]
           mid == v - e * (n - 1)
           old == top - e * (n - 1)
<1>1. /\ n \in Nat /\ m \in Nat /\ fidx[1] \in Nat /\ fidx[2] \in Nat /\ v \in Int
      /\ buf \in [Places -> Int] /\ b \in [Places -> Int]
  BY FirType DEF Types
<1>2. /\ at \in 0 .. n - 1 /\ (m > 0 => fidx[2] \in 0 .. m - 1)
  BY <1>1 DEF Indexes
<1>3. /\ f[1] = Wrap(at + 1, n) /\ f[1] \in 0 .. n - 1
      /\ m > 0 => f[2] = Wrap(fidx[2] + 1, m) /\ f[2] \in 0 .. m - 1
  BY <1>1, FirIndex
<1>4. b[at] = v /\ a[1] = SumFunctionOnSet(b, Window1)
      /\ (m > 0 => a[2] = SumFunctionOnSet(b, Window2))
  BY <1>1, FirBuffer, FirSums DEF SumsOf
<1>6. Window1 \subseteq Places /\ Window2 \subseteq Places /\ Window1 \cap Window2 = {}
  BY Windows
<1>7. \A i \in 0 .. n - 1 : i # at => b[i] = buf[i]
  <2>1. \A i \in 0 .. n - 1 : i \in Window1 /\ i \in Places
    BY <1>6 DEF Window1
  <2>2. m > 0 => to \in Window2
    BY <1>1, <1>2 DEF Window2
  <2>3. ASSUME m = 0 PROVE \A i \in Places \ {at} : b[i] = buf[i]
    BY <1>1, <2>3, FirBuffer
  <2>4. ASSUME m > 0 PROVE \A i \in Places \ {at, to} : b[i] = buf[i]
    BY <1>1, <2>4, FirBuffer
  <2>5. m = 0 \/ m > 0
    BY <1>1
  <2> HIDE DEF b, at, to
  <2> QED
    BY <1>6, <2>1, <2>2, <2>3, <2>4, <2>5
<1>8. Ring(b, 0, n, f[1], k + 1, v, 2 * e)
  <2>1. Ring(buf, 0, n, at, k, top, 2 * e)
    BY DEF Rings
  <2>2. b[0 + at] = top + 2 * e /\ \A i \in 0 .. n - 1 : i # at => b[0 + i] = buf[0 + i]
    BY <1>1, <1>4, <1>7
  <2>3. 0 \in Nat /\ 2 * e \in Int
    OBVIOUS
  <2> HIDE DEF b, at, f, n
  <2>4. Ring(b, 0, n, Wrap(at + 1, n), k + 1, top + 2 * e, 2 * e)
    BY <1>1, <1>2, <2>1, <2>2, <2>3, RingStep
  <2> QED
    BY <1>3, <2>4
<1>9. ASSUME k + 1 >= n PROVE a[1] \div n = mid
  <2>1. Window1 = Span(0, n)
    BY <1>1 DEF Window1, Span
  <2>2. k + 1 \in Int /\ 0 \in Nat
    OBVIOUS
  <2> HIDE DEF b, f, n, a
  <2>3. SumFunctionOnSet(b, Span(0, n)) = n * (v - e * (n - 1))
    BY <1>1, <1>3, <1>8, <1>9, <2>2, RingSum
  <2>4. a[1] = n * mid /\ mid \in Int /\ n > 0
    BY <1>1, <1>4, <2>1, <2>3 DEF n
  <2> HIDE DEF mid
  <2> QED
    BY <1>1, <2>4, Quotient
<1>10. ASSUME m > 0 PROVE Ring(b, n, m, f[2], (k + 1) - n, mid, 2 * e)
  <2>0. mid \in Int /\ old \in Int /\ mid = old + 2 * e
    BY <1>1
  <2>1. CASE k + 1 <= n
    <3>1. (k + 1) - n <= 0 /\ (k + 1) - n \in Int
      BY <1>1, <2>1
    <3> HIDE DEF b, f, n, m, mid
    <3> QED
      BY <1>1, <1>3, <1>10, <3>1, RingNone
  <2>2. CASE k + 1 > n
    <3>1. b[to] = a[1] \div n
      BY <1>1, <1>10, FirBuffer
    <3>2. b[n + fidx[2]] = old + 2 * e
      <4>1. a[1] \div n = mid
        BY <1>1, <1>9, <2>2
      <4> QED
        BY <2>0, <3>1, <4>1
    <3>3. \A i \in 0 .. m - 1 : n + i \in Window2
      BY <1>1 DEF Window2
    <3>4. at \in Window1
      BY <1>2 DEF Window1
    <3>5. \A i \in Places \ {at, to} : b[i] = buf[i]
      BY <1>1, <1>10, FirBuffer
    <3>6. \A i \in 0 .. m - 1 : i # fidx[2] => b[n + i] = buf[n + i]
      <4>1. \A i \in 0 .. m - 1 : i # fidx[2] => n + i # to
        BY <1>1
      <4> HIDE DEF b, at, to, n, m
      <4> QED
        BY <1>6, <3>3, <3>4, <3>5, <4>1
    <3>7. Ring(buf, n, m, fidx[2], k - n, old, 2 * e)
      BY <1>10 DEF Rings
    <3>8. k - n \in Int /\ 2 * e \in Int /\ (k - n) + 1 = (k + 1) - n
      BY <1>1
    <3> HIDE DEF b, at, to, n, m, old, mid, f
    <3>9. Ring(b, n, m, Wrap(fidx[2] + 1, m), (k - n) + 1, old + 2 * e, 2 * e)
      BY <1>1, <1>2, <1>10, <2>0, <3>2, <3>6, <3>7, <3>8, RingStep
    <3> QED
      BY <1>3, <1>10, <2>0, <3>8, <3>9
  <2> QED
    BY <1>1, <2>1, <2>2
<1>11. ASSUME k + 1 >= Both, m = 0 PROVE Fir(v).out = v - e * Lag
  <2>1. Fir(v).out = a[1] \div n
    BY <1>1, <1>11, FirBuffer
  <2>2. k + 1 >= n /\ Lag = n - 1
    BY <1>1, <1>11 DEF Both, Lag
  <2> HIDE DEF a, n
  <2> QED
    BY <1>9, <2>1, <2>2
<1>12. ASSUME k + 1 >= Both, m > 0 PROVE Fir(v).out = v - e * Lag
  <2>1. Fir(v).out = a[2] \div m
    BY <1>1, <1>12, FirBuffer
  <2>2. (k + 1) - n >= m /\ (k + 1) - n \in Int /\ Lag = (n - 1) + (m - 1)
    BY <1>1, <1>12 DEF Both, Lag
  <2>3. Window2 = Span(n, m)
    BY <1>1 DEF Window2, Span
  <2>4. mid \in Int
    BY <1>1
  <2>5. v - e * Lag = mid - e * (m - 1) /\ mid - e * (m - 1) \in Int
    BY <1>1, <2>2
  <2> HIDE DEF b, f, n, m, a, mid
  <2>6. SumFunctionOnSet(b, Span(n, m)) = m * (mid - e * (m - 1))
    BY <1>1, <1>3, <1>10, <1>12, <2>2, <2>4, RingSum
  <2>7. a[2] = m * (mid - e * (m - 1))
    BY <1>4, <1>12, <2>3, <2>6
  <2> DEFINE out == mid - e * (m - 1)
  <2> HIDE DEF out
  <2>8. a[2] = m * out /\ out \in Int
    BY <2>5, <2>7 DEF out
  <2> QED
    BY <1>1, <1>12, <2>1, <2>5, <2>8, Quotient DEF out
<1> HIDE DEF b, f, n, m, mid
<1> QED
  <2>1. Rings(b, f, k + 1, v, e)
    BY <1>8, <1>10 DEF Rings, n, m, mid
  <2>2. m = 0 \/ m > 0
    BY <1>1
  <2> QED
    BY <1>11, <1>12, <2>1, <2>2 DEF b, f

\* The stages do not see what is written after them.
LEMMA AfterStages ==
    ASSUME Types, Layout, Indexes, NEW a, NEW f, NEW b, NEW c, NEW k \in Int, NEW top, NEW e,
           \A i \in Places : b[i] \in Int, \A i \in 0 .. Both - 1 : c[i] = b[i]
    PROVE  /\ SumsOf(a, b) => SumsOf(a, c)
           /\ len[1] > 0 /\ Rings(b, f, k, top, e) => Rings(c, f, k, top, e)
<1>1. /\ len[1] \in Nat /\ len[2] \in Nat
  BY DEF Types
<1>2. IsFiniteSet(Window1) /\ IsFiniteSet(Window2)
  BY Windows
<1>3. \A i \in Window1 : b[i] \in Int /\ c[i] = b[i]
  <2>1. \A i \in Window1 : i \in Places /\ i \in 0 .. Both - 1
    BY <1>1, Windows DEF Window1, Both
  <2> QED
    BY <2>1
<1>4. \A i \in Window2 : b[i] \in Int /\ c[i] = b[i]
  <2>1. \A i \in Window2 : i \in Places /\ i \in 0 .. Both - 1
    BY <1>1, Windows DEF Window2, Both
  <2> QED
    BY <2>1
<1>5. SumFunctionOnSet(c, Window1) = SumFunctionOnSet(b, Window1)
  BY <1>2, <1>3, SumAgree
<1>6. SumFunctionOnSet(c, Window2) = SumFunctionOnSet(b, Window2)
  BY <1>2, <1>4, SumAgree
<1>7. \A i \in 0 .. len[1] - 1 : c[0 + i] = b[0 + i]
  BY <1>1 DEF Both
<1>8. \A i \in 0 .. len[2] - 1 : c[len[1] + i] = b[len[1] + i]
  BY <1>1 DEF Both
<1> QED
  BY <1>5, <1>6, <1>7, <1>8 DEF SumsOf, Rings, Ring

\* An iteration's filter and extrapolation, while the filter runs.
LEMMA FilterRuns ==
    ASSUME Types, Layout, Indexes, running, NEW v \in Int, FilterRT(v)
    PROVE  /\ running' = TRUE /\ len' = len /\ elen' = elen
           /\ len[1] > 0 => /\ acc' = Fir(v).acc /\ fidx' = Fir(v).fidx /\ filtered' = Fir(v).out
                            /\ \A i \in 0 .. Both - 1 : buf'[i] = Fir(v).buf[i]
           /\ len[1] = 0 => acc' = acc /\ fidx' = fidx /\ filtered' = v
           /\ filtered' \in Int /\ extrapolated' \in Int /\ buf' \in [Places -> Int]
           /\ elen = 0 => eidx' = eidx
           /\ elen > 0 =>
                /\ eidx' = Wrap(eidx + 1, elen) /\ buf'[Both + eidx] = filtered'
                /\ \A i \in 0 .. elen - 1 : i # eidx => buf'[Both + i] = buf[Both + i]
                /\ extrapolated' = filtered' + (Delay2 * (filtered' - buf[Both + eidx])) \div (2 * elen)
<1> DEFINE r == IF len[1] > 0 THEN Fir(v) ELSE [acc |-> acc, buf |-> buf, fidx |-> fidx, out |-> v]
           at == len[1] + len[2] + eidx
<1>1. /\ len[1] \in Nat /\ len[2] \in Nat /\ elen \in Nat /\ eidx \in Nat /\ BufLen \in Nat
      /\ fidx[1] \in Nat /\ fidx[2] \in Nat
      /\ buf \in [Places -> Int] /\ (len[1] + len[2]) + elen <= BufLen /\ (elen > 0 => eidx < elen)
      /\ (len[1] > 0 => fidx[1] < len[1]) /\ (len[2] > 0 => fidx[2] < len[2])
  BY BufLenAssumption DEF Types, Layout, Indexes
<1>2. r.buf \in [Places -> Int] /\ r.out \in Int
  BY <1>1, FirType
<1>3. /\ filtered' = r.out /\ acc' = r.acc /\ fidx' = r.fidx
      /\ IF elen = 0 THEN extrapolated' = r.out /\ buf' = r.buf /\ eidx' = eidx
         ELSE /\ extrapolated' = r.out + (Delay2 * (r.out - r.buf[at])) \div (2 * elen)
              /\ buf' = [r.buf EXCEPT ![at] = r.out]
              /\ eidx' = Wrap(eidx + 1, elen)
      /\ running' = running /\ len' = len /\ elen' = elen
  BY DEF FilterRT
<1>4. \A i \in Places : i >= Both => r.buf[i] = buf[i]
  <2>1. CASE len[1] = 0
    BY <2>1
  <2>2. CASE len[1] > 0 /\ len[2] = 0
    <3>1. \A i \in Places \ {fidx[1]} : Fir(v).buf[i] = buf[i]
      BY <2>2, FirBuffer
    <3>2. Both > fidx[1]
      BY <1>1, <2>2 DEF Both
    <3> QED
      BY <1>1, <2>2, <3>1, <3>2 DEF Places, Both
  <2>3. CASE len[1] > 0 /\ len[2] > 0
    <3>1. \A i \in Places \ {fidx[1], len[1] + fidx[2]} : Fir(v).buf[i] = buf[i]
      BY <2>3, FirBuffer
    <3>2. Both > fidx[1] /\ Both > len[1] + fidx[2]
      BY <1>1, <2>3 DEF Both
    <3>3. \A i \in Places : i >= Both => i \in Places \ {fidx[1], len[1] + fidx[2]}
      BY <1>1, <3>2 DEF Places, Both
    <3>4. r.buf = Fir(v).buf
      BY <2>3
    <3> HIDE DEF r
    <3> QED
      BY <3>1, <3>3, <3>4
  <2> QED
    BY <1>1, <2>1, <2>2, <2>3
<1>5. at = Both + eidx /\ Both \in Nat /\ Both + elen <= BufLen
  BY <1>1 DEF Both
<1>6. Delay2 \in Int
  BY <1>1, PeriodAssumption DEF Delay2
<1> HIDE DEF r, at
<1>7. ASSUME elen = 0
      PROVE  /\ filtered' \in Int /\ extrapolated' \in Int /\ buf' \in [Places -> Int] /\ eidx' = eidx
             /\ len[1] > 0 => /\ acc' = Fir(v).acc /\ fidx' = Fir(v).fidx /\ filtered' = Fir(v).out
                              /\ \A i \in 0 .. Both - 1 : buf'[i] = Fir(v).buf[i]
  <2>1. extrapolated' = r.out /\ buf' = r.buf /\ eidx' = eidx
    BY <1>3, <1>7
  <2> QED
    BY <1>1, <1>2, <1>3, <1>7, <2>1 DEF r
<1>8. ASSUME elen > 0
      PROVE  /\ filtered' \in Int /\ extrapolated' \in Int /\ buf' \in [Places -> Int]
             /\ len[1] > 0 => /\ acc' = Fir(v).acc /\ fidx' = Fir(v).fidx /\ filtered' = Fir(v).out
                              /\ \A i \in 0 .. Both - 1 : buf'[i] = Fir(v).buf[i]
             /\ eidx' = Wrap(eidx + 1, elen) /\ buf'[Both + eidx] = filtered'
             /\ \A i \in 0 .. elen - 1 : i # eidx => buf'[Both + i] = buf[Both + i]
             /\ extrapolated' = filtered' + (Delay2 * (filtered' - buf[Both + eidx])) \div (2 * elen)
  <2>1. /\ extrapolated' = r.out + (Delay2 * (r.out - r.buf[at])) \div (2 * elen)
        /\ buf' = [r.buf EXCEPT ![at] = r.out] /\ eidx' = Wrap(eidx + 1, elen)
    BY <1>3, <1>8
  <2>2. at \in Places /\ at >= Both
    BY <1>1, <1>5, <1>8 DEF Places
  <2>3. r.buf[at] = buf[at] /\ buf[at] \in Int
    BY <1>1, <1>4, <2>2
  <2>4. /\ buf' \in [Places -> Int] /\ buf'[at] = r.out
        /\ \A i \in Places \ {at} : buf'[i] = r.buf[i]
    BY <1>2, <2>1, <2>2
  <2>5. \A i \in 0 .. Both - 1 : i \in Places /\ i # at
    BY <1>1, <1>5 DEF Places
  <2>6. \A i \in 0 .. elen - 1 : i # eidx => /\ Both + i \in Places /\ Both + i # at
                                             /\ Both + i >= Both
    BY <1>1, <1>5 DEF Places
  <2>7. \A i \in 0 .. elen - 1 : i # eidx => buf'[Both + i] = buf[Both + i]
    BY <1>4, <2>4, <2>6
  <2>8. \A i \in 0 .. Both - 1 : buf'[i] = r.buf[i]
    BY <2>4, <2>5
  <2>9. extrapolated' \in Int
    <3>1. Delay2 * (r.out - r.buf[at]) \in Int /\ 2 * elen \in Nat /\ 2 * elen > 0
      BY <1>1, <1>2, <1>6, <1>8, <2>3
    <3>2. (Delay2 * (r.out - r.buf[at])) \div (2 * elen) \in Int
      BY <3>1, QuotientType
    <3> QED
      BY <1>2, <2>1, <3>2
  <2>10. extrapolated' = filtered' + (Delay2 * (filtered' - buf[Both + eidx])) \div (2 * elen)
    BY <1>3, <1>5, <2>1, <2>3
  <2>11. buf'[Both + eidx] = filtered'
    BY <1>3, <1>5, <2>4
  <2> QED
    BY <1>1, <1>2, <1>3, <1>8, <2>1, <2>4, <2>7, <2>8, <2>9, <2>10, <2>11 DEF r
<1>9. running' = TRUE /\ len' = len /\ elen' = elen
  BY <1>3 DEF Types
<1>10. len[1] > 0 => /\ acc' = Fir(v).acc /\ fidx' = Fir(v).fidx /\ filtered' = Fir(v).out
                     /\ \A i \in 0 .. Both - 1 : buf'[i] = Fir(v).buf[i]
  BY <1>1, <1>7, <1>8
<1>11. len[1] = 0 => acc' = acc /\ fidx' = fidx /\ filtered' = v
  BY <1>3 DEF r
<1>12. filtered' \in Int /\ extrapolated' \in Int /\ buf' \in [Places -> Int] /\ (elen = 0 => eidx' = eidx)
  BY <1>1, <1>7, <1>8
<1>13. elen > 0 =>
          /\ eidx' = Wrap(eidx + 1, elen) /\ buf'[Both + eidx] = filtered'
          /\ \A i \in 0 .. elen - 1 : i # eidx => buf'[Both + i] = buf[Both + i]
          /\ extrapolated' = filtered' + (Delay2 * (filtered' - buf[Both + eidx])) \div (2 * elen)
  BY <1>8
<1> QED
  BY <1>9, <1>10, <1>11, <1>12, <1>13, Zenon

----------------------------------------------------------------------------
(* The invariant                                                           *)

\* Where the initialisation is, while the filter does not run.
Control ==
    /\ running => bg.at = "idle"
    /\ ~running => steady = 0
    /\ bg.at = "clear" => len[1] > 0
    /\ bg.at = "bypass" => len[1] = 0
    /\ IF bg.at = "fill" THEN bg.left <= Both ELSE bg.left = 0

\* Between Clear and the next SetLengths the accumulators are the sums.
Sums == bg.at # "clear" /\ len[1] > 0 => SumsOf(acc, buf)

\* The unfiltered value is the input, replaced or not.
Input ==
    /\ u = x /\ rate.estimate = Regression(rate.history)
    /\ changes = 0 => x = Scale /\ slope = 0

\* Half the slope, in the units of the values.
Half == 40 * slope

\* Since the slope last changed, or the filter was started, all values of the
\* last iterations are of one ramp: in the stages, in the extrapolation, in the
\* rate and in what comes out.
OnRamp == running =>
    /\ len[1] > 0 => Rings(buf, fidx, steady, x, Half)
    /\ steady > Both => filtered = x - Half * Lag
    /\ elen > 0 => Ring(buf, Both, elen, eidx, steady - Both, filtered, 2 * Half)
    /\ elen > 0 /\ steady > BufLen => extrapolated = x + MeasDelay * slope * Scale
    /\ \A i \in 0 .. 3 : steady > Both + (i * Period + rate.counter)
                          => rate.history[i] = filtered - (i * Period + rate.counter) * (2 * Half)

\* While the input never changed, the filter is being filled with it, and holds it.
Still == changes = 0 =>
    /\ running => filtered = Scale /\ (len[1] > 0 => Rings(buf, fidx, Both, Scale, 0))
    /\ bg.at = "fill" => /\ len[1] > 0 => Rings(buf, fidx, Both - bg.left, Scale, 0)
                         /\ bg.left = 0 => filtered = Scale

IInv == Types /\ Layout /\ Indexes /\ Control /\ Sums /\ Input /\ OnRamp /\ Still

\* A new stage, or extrapolation, reaches further than the index into it.
IndexFits ==
    SetLengths => /\ len'[1] > 0 => fidx[1] < len'[1]
                  /\ len'[2] > 0 => fidx[2] < len'[2]
                  /\ elen' > 0 => eidx < elen'

IndexesFit == [][IndexFits]_vars

LEMMA Numbers == /\ BufLen \in Nat /\ BufLen > 0 /\ Period \in Nat /\ Period > 0 /\ MeasDelay \in Nat
                 /\ MaxMeas \in Nat /\ MaxMeas > 0 /\ Enough \in Nat /\ Enough > BufLen
                 /\ Enough = BufLen + 4 * Period
  BY BufLenAssumption, PeriodAssumption, InputAssumption DEF Enough

LEMMA InitHolds == Init => IInv
<1> SUFFICES ASSUME Init PROVE IInv
  OBVIOUS
<1> USE DEF Init
<1>1. Types
  <2>1. [i \in 0 .. BufLen - 1 |-> 0] \in [Places -> Int]
    BY DEF Places
  <2>2. [counter |-> 0, history |-> [i \in 0 .. 3 |-> 0], estimate |-> 0]
        \in [counter : 0 .. Period - 1, history : [0 .. 3 -> Int], estimate : Int]
    BY Numbers
  <2>3. Scale \in 0 .. MaxMeas * Scale
    BY Numbers DEF Scale
  <2>4. [at |-> "idle", left |-> 0, met |-> 0] \in [at : Steps, left : Nat, met : Nat]
    BY DEF Steps
  <2>5. 0 \in 0 .. Enough
    BY Numbers
  <2>6. x \in 0 .. MaxMeas * Scale /\ {slope, u, filtered, extrapolated} \subseteq Int
    BY <2>3 DEF Scale
  <2>7. /\ len \in Nat \X Nat /\ elen \in Nat /\ fidx \in Nat \X Nat /\ eidx \in Nat
        /\ acc \in Int \X Int /\ running \in BOOLEAN
    <3>1. len = <<0, 0>> /\ fidx = <<0, 0>> /\ acc = <<0, 0>> /\ elen = 0 /\ eidx = 0 /\ running = FALSE
      OBVIOUS
    <3>2. <<0, 0>> \in Nat \X Nat /\ <<0, 0>> \in Int \X Int
      OBVIOUS
    <3> HIDE DEF Init
    <3> QED
      BY <3>1, <3>2
  <2>8. changes \in Nat /\ inits \in Nat /\ steady \in 0 .. Enough
    BY <2>5
  <2>9. buf \in [Places -> Int]
    BY <2>1
  <2> QED
    BY <2>2, <2>4, <2>6, <2>7, <2>8, <2>9 DEF Types
<1>2. Layout /\ Indexes
  BY Numbers DEF Layout, Indexes
<1>3. Control /\ Sums
  BY DEF Control, Sums
<1>4. Input
  <2>1. \A h : h = [i \in 0 .. 3 |-> 0] => Regression(h) = 0
    BY DEF Regression
  <2> QED
    BY <2>1 DEF Input
<1>5. OnRamp /\ Still
  BY DEF OnRamp, Still
<1> QED
  BY <1>1, <1>2, <1>3, <1>4, <1>5 DEF IInv

----------------------------------------------------------------------------
(* regMeasFilterInit                                                       *)

\* The steps of regMeasFilterInit.
LEMMA StopKeeps == ASSUME IInv, Stop PROVE IInv'
<1> USE DEF Stop, signals
<1>1. /\ bg' = [at |-> "lengths", left |-> 0, met |-> 0] /\ steady' = 0 /\ running' = FALSE
      /\ UNCHANGED <<x, slope, u, filtered, extrapolated, len, elen, fidx, eidx, acc, buf, rate, changes>>
      /\ bg.at = "idle" /\ inits' = inits + 1
  OBVIOUS
<1> HIDE DEF Stop
<1>2. bg'.at = "lengths" /\ bg'.left = 0 /\ bg' \in [at : Steps, left : Nat, met : Nat]
  BY <1>1 DEF Steps
<1>3. steady' \in 0 .. Enough
  BY <1>1, Numbers
<1>4. Types'
  <2>1. Types /\ inits' \in Nat
    BY <1>1 DEF IInv, Types
  <2> QED
    BY <1>1, <1>2, <1>3, <2>1 DEF Types
<1>5. Layout' /\ Indexes'
  BY <1>1 DEF IInv, Layout, Indexes
<1>6. Control'
  BY <1>1, <1>2 DEF Control
<1>7. Sums'
  BY <1>1, <1>2 DEF IInv, Sums, SumsOf, Window1, Window2
<1>8. Input'
  BY <1>1 DEF IInv, Input, Regression
<1>9. OnRamp' /\ Still'
  BY <1>1, <1>2 DEF OnRamp, Still
<1> QED
  BY <1>4, <1>5, <1>6, <1>7, <1>8, <1>9 DEF IInv

\* Min and Max of two numbers.
LEMMA SmallOf == ASSUME NEW a \in Int, NEW b \in Int PROVE Min({a, b}) = IF a <= b THEN a ELSE b
<1> DEFINE m == IF a <= b THEN a ELSE b
<1>1. m \in {a, b} /\ \A y \in {a, b} : m <= y
  OBVIOUS
<1>2. \A z \in {a, b} : (\A y \in {a, b} : z <= y) => z = m
  BY <1>1
<1> QED
  BY <1>1, <1>2 DEF Min

LEMMA LargeOf == ASSUME NEW a \in Int, NEW b \in Int PROVE Max({a, b}) = IF a >= b THEN a ELSE b
<1> DEFINE m == IF a >= b THEN a ELSE b
<1>1. m \in {a, b} /\ \A y \in {a, b} : m >= y
  OBVIOUS
<1>2. \A z \in {a, b} : (\A y \in {a, b} : z >= y) => z = m
  BY <1>1
<1> QED
  BY <1>1, <1>2 DEF Max

LEMMA SetLengthsKeeps == ASSUME IInv, SetLengths, IndexFits PROVE IInv'
<1>1. /\ bg.at = "lengths" /\ bg' = [bg EXCEPT !.at = IF len'[1] > 0 THEN "clear" ELSE "bypass"]
      /\ UNCHANGED <<x, slope, u, filtered, extrapolated, running, fidx, eidx, acc, buf, rate,
                     changes, inits, steady>>
  BY DEF SetLengths, signals
<1>2. bg'.at = (IF len'[1] > 0 THEN "clear" ELSE "bypass") /\ bg'.left = 0
      /\ bg' \in [at : Steps, left : Nat, met : Nat] /\ ~running
  BY <1>1 DEF IInv, Types, Control, Steps
<1>3. /\ elen' \in Nat /\ len' \in Nat \X Nat /\ (len'[1] + len'[2]) + elen' <= BufLen
      /\ len'[1] = 0 => len'[2] = 0
  <2> DEFINE Used(n) == IF n = 1 THEN 0 ELSE n
  <2>1. PICK a \in Lengths, b \in Lengths, e \in Elens :
          LET l1 == Max({Used(a), Used(b)})
              l2 == Min({Used(a), Used(b)})
              cut == Fit(e, BufLen)
              c1 == Fit(l1, BufLen - cut)
          IN  elen' = cut /\ len' = <<c1, Fit(l2, BufLen - cut - c1)>>
    BY DEF SetLengths
  <2> DEFINE l1 == Max({Used(a), Used(b)})
             l2 == Min({Used(a), Used(b)})
             cut == Fit(e, BufLen)
             c1 == Fit(l1, BufLen - cut)
             c2 == Fit(l2, BufLen - cut - c1)
  <2>2. a \in Nat /\ b \in Nat /\ e \in Nat
    BY LengthsAssumption
  <2>3. elen' = cut /\ len' = <<c1, c2>>
    BY <2>1
  <2>4. Used(a) \in Nat /\ Used(b) \in Nat
    BY <2>2
  <2> HIDE DEF Used
  <2>5. l1 \in Nat /\ l2 \in Nat /\ l2 <= l1
    BY <2>4, SmallOf, LargeOf
  <2> HIDE DEF l1, l2
  <2>6. cut \in Nat /\ cut <= BufLen
    BY <2>2, Numbers, SmallOf DEF Fit
  <2> HIDE DEF cut
  <2>7. BufLen - cut \in Int /\ BufLen - cut >= 0
    BY <2>6, Numbers
  <2>8. c1 = (IF l1 <= BufLen - cut THEN l1 ELSE BufLen - cut)
    BY <2>5, <2>7, SmallOf DEF Fit
  <2>9. c1 \in Nat /\ c1 <= BufLen - cut /\ (c1 = 0 => l1 = 0 \/ BufLen - cut = 0)
    BY <2>5, <2>7, <2>8
  <2> HIDE DEF c1
  <2>10. BufLen - cut - c1 \in Int /\ BufLen - cut - c1 >= 0
    BY <2>6, <2>9, Numbers
  <2>11. c2 = (IF l2 <= BufLen - cut - c1 THEN l2 ELSE BufLen - cut - c1)
    BY <2>5, <2>10, SmallOf DEF Fit
  <2>12. c2 \in Nat /\ c2 <= BufLen - cut - c1 /\ (c1 = 0 => c2 = 0)
    BY <2>5, <2>6, <2>9, <2>10, <2>11, Numbers
  <2> HIDE DEF c2
  <2> QED
    BY <2>3, <2>6, <2>9, <2>12, Numbers
<1>4. Types'
  BY <1>1, <1>2, <1>3 DEF IInv, Types
<1>5. Layout' /\ Indexes'
  BY <1>1, <1>3 DEF IndexFits, Layout, Indexes
<1>6. Control'
  <2>1. len'[1] \in Nat
    BY <1>3
  <2> QED
    BY <1>1, <1>2, <2>1 DEF IInv, Control
<1>7. Sums'
  BY <1>2 DEF Sums
<1>8. Input'
  BY <1>1 DEF IInv, Input, Regression
<1>9. OnRamp' /\ Still'
  BY <1>1, <1>2 DEF OnRamp, Still
<1> QED
  BY <1>4, <1>5, <1>6, <1>7, <1>8, <1>9 DEF IInv

LEMMA SumZeros ==
    ASSUME NEW f, NEW a \in Int, NEW n \in Nat, \A j \in 0 .. n - 1 : f[a + j] = 0
    PROVE  SumFunctionOnSet(f, Span(a, n)) = 0
<1> DEFINE F == [j \in 0 .. n |-> 0]
<1>1. \A j \in 0 .. n : F[j] = 0
  OBVIOUS
<1>2. \A j \in 0 .. n - 1 : j \in 0 .. n /\ j + 1 \in 0 .. n
  OBVIOUS
<1>3. F[0] = 0 /\ F[n] = 0
  BY <1>1
<1> HIDE DEF F
<1>4. Totals(F, f, a, n)
  BY <1>1, <1>2, <1>3 DEF Totals
<1> QED
  BY <1>3, <1>4, SumTelescopes

\* The same of both stages.
LEMMA RingsNone ==
    ASSUME len \in Nat \X Nat, NEW f, f[1] \in 0 .. len[1] - 1, len[2] > 0 => f[2] \in 0 .. len[2] - 1,
           NEW b, NEW k \in Int, k <= 0, NEW top, NEW e
    PROVE  Rings(b, f, k, top, e)
<1>1. len[1] \in Nat /\ len[2] \in Nat
  OBVIOUS
<1>2. Ring(b, 0, len[1], f[1], k, top, 2 * e)
  BY <1>1, RingNone
<1>3. k - len[1] \in Int /\ k - len[1] <= 0
  BY <1>1
<1>4. len[2] > 0 => Ring(b, len[1], len[2], f[2], k - len[1], top - e * (len[1] - 1), 2 * e)
  BY <1>1, <1>3, RingNone
<1> QED
  BY <1>2, <1>4 DEF Rings

LEMMA RingsWeaker ==
    ASSUME len \in Nat \X Nat, NEW f, f[1] \in 0 .. len[1] - 1, len[2] > 0 => f[2] \in 0 .. len[2] - 1,
           NEW b, NEW k \in Int, NEW m \in Int, m <= k, NEW top, NEW e, Rings(b, f, k, top, e)
    PROVE  Rings(b, f, m, top, e)
<1>1. len[1] \in Nat /\ len[2] \in Nat
  OBVIOUS
<1>2. Ring(b, 0, len[1], f[1], k, top, 2 * e)
  BY DEF Rings
<1>3. Ring(b, 0, len[1], f[1], m, top, 2 * e)
  BY <1>1, <1>2, RingWeaker
<1>4. k - len[1] \in Int /\ m - len[1] \in Int /\ m - len[1] <= k - len[1]
  BY <1>1
<1>5. len[2] > 0 => Ring(b, len[1], len[2], f[2], k - len[1], top - e * (len[1] - 1), 2 * e)
  BY DEF Rings
<1>6. len[2] > 0 => Ring(b, len[1], len[2], f[2], m - len[1], top - e * (len[1] - 1), 2 * e)
  BY <1>1, <1>4, <1>5, RingWeaker
<1> QED
  BY <1>3, <1>6 DEF Rings

LEMMA Slots ==
    ASSUME Types, Indexes
    PROVE  /\ len \in Nat \X Nat /\ (len[1] > 0 => fidx[1] \in 0 .. len[1] - 1)
           /\ len[2] > 0 => fidx[2] \in 0 .. len[2] - 1
<1>1. len[1] \in Nat /\ len[2] \in Nat /\ fidx[1] \in Nat /\ fidx[2] \in Nat /\ len \in Nat \X Nat
  BY DEF Types
<1> QED
  BY <1>1 DEF Indexes

LEMMA ClearKeeps == ASSUME IInv, Clear PROVE IInv'
<1>1. /\ bg.at = "clear" /\ bg' = [bg EXCEPT !.at = "fill", !.left = Both] /\ acc' = <<0, 0>>
      /\ buf' = [i \in DOMAIN buf |-> IF i < len[1] + len[2] THEN 0 ELSE buf[i]]
      /\ UNCHANGED <<x, slope, u, filtered, extrapolated, running, len, elen, fidx, eidx, rate,
                     changes, inits, steady>>
  BY DEF Clear, signals, Both, BothStages
<1>2. /\ len[1] \in Nat /\ len[2] \in Nat /\ elen \in Nat /\ len[1] > 0 /\ ~running
      /\ (len[1] + len[2]) + elen <= BufLen /\ BufLen \in Nat /\ Types /\ Layout /\ Indexes
  BY <1>1, Numbers DEF IInv, Types, Control, Layout
<1>3. Both \in Nat /\ Both > 0
  BY <1>2 DEF Both
<1>4. bg'.at = "fill" /\ bg'.left = Both /\ bg' \in [at : Steps, left : Nat, met : Nat]
  BY <1>1, <1>2, <1>3 DEF Types, Steps
<1>5. buf' \in [Places -> Int] /\ \A i \in 0 .. Both - 1 : buf'[i] = 0
  <2>1. buf \in [Places -> Int] /\ DOMAIN buf = Places
    BY <1>2 DEF Types
  <2>2. \A i \in 0 .. Both - 1 : i \in Places /\ i < len[1] + len[2]
    BY <1>2 DEF Both, Places
  <2> QED
    BY <1>1, <2>1, <2>2
<1>6. Types'
  <2>1. acc' \in Int \X Int
    <3>1. <<0, 0>> \in Int \X Int
      OBVIOUS
    <3> QED
      BY <1>1, <3>1
  <2> QED
    BY <1>1, <1>2, <1>4, <1>5, <2>1 DEF Types
<1>7. Layout' /\ Indexes'
  BY <1>1, <1>2 DEF Layout, Indexes
<1>8. Control'
  <2>1. ~running' /\ steady' = 0 /\ Both' = Both
    BY <1>1, <1>2 DEF IInv, Control, Both
  <2> QED
    BY <1>3, <1>4, <2>1 DEF Control
<1>9. Sums'
  <2>1. \A j \in 0 .. len[1] - 1 : buf'[0 + j] = 0
    BY <1>2, <1>5 DEF Both
  <2>2. \A j \in 0 .. len[2] - 1 : buf'[len[1] + j] = 0
    BY <1>2, <1>5 DEF Both
  <2>3. SumFunctionOnSet(buf', Span(0, len[1])) = 0
    BY <1>2, <2>1, SumZeros
  <2>4. SumFunctionOnSet(buf', Span(len[1], len[2])) = 0
    <3>1. len[1] \in Int /\ len[2] \in Nat
      BY <1>2
    <3> DEFINE a == len[1]
               n == len[2]
    <3>2. a \in Int /\ n \in Nat /\ \A j \in 0 .. n - 1 : buf'[a + j] = 0
      BY <2>2, <3>1
    <3> HIDE DEF a, n
    <3>3. SumFunctionOnSet(buf', Span(a, n)) = 0
      BY <3>2, SumZeros
    <3> QED
      BY <3>3 DEF a, n
  <2>5. Span(0, len[1]) = 0 .. len[1] - 1 /\ Span(len[1], len[2]) = len[1] .. len[1] + len[2] - 1
    BY <1>2 DEF Span
  <2>6. acc'[1] = 0 /\ acc'[2] = 0 /\ len' = len
    BY <1>1
  <2>7. Window1' = Span(0, len[1]) /\ Window2' = Span(len[1], len[2])
    BY <2>5, <2>6 DEF Window1, Window2
  <2> QED
    BY <2>3, <2>4, <2>6, <2>7 DEF Sums, SumsOf
<1>10. Input'
  BY <1>1 DEF IInv, Input, Regression
<1>11. OnRamp'
  BY <1>1, <1>2 DEF OnRamp
<1>12. Still'
  <2>1. ~running' /\ len' = len /\ fidx' = fidx /\ Both' = Both
    BY <1>1, <1>2 DEF Both
  <2>2. Both - Both = 0 /\ Both # 0
    BY <1>3
  <2>3. Rings(buf', fidx, 0, Scale, 0)
    BY <1>2, Slots, RingsNone
  <2>4. Rings(buf, fidx, Both - bg.left, Scale, 0)'
    BY <1>4, <2>1, <2>2, <2>3 DEF Rings
  <2> QED
    BY <1>4, <2>1, <2>2, <2>4 DEF Still
<1> QED
  BY <1>6, <1>7, <1>8, <1>9, <1>10, <1>11, <1>12 DEF IInv

LEMMA ClipInside == ASSUME NEW v \in 0 .. MaxMeas * Scale PROVE Clip(v) = v
  BY Numbers DEF Clip, Scale

LEMMA FillKeeps == ASSUME IInv, Fill PROVE IInv'
<1>1. /\ bg.at = "fill" /\ bg.left > 0 /\ bg' = [bg EXCEPT !.left = @ - 1]
      /\ acc' = Fir(u).acc /\ buf' = Fir(u).buf /\ fidx' = Fir(u).fidx /\ filtered' = Fir(u).out
      /\ UNCHANGED <<x, slope, u, extrapolated, running, len, elen, eidx, rate, changes, inits, steady>>
  BY DEF Fill
<1>2. /\ len[1] \in Nat /\ len[2] \in Nat /\ len[1] > 0 /\ ~running /\ bg.left \in Nat
      /\ Types /\ Layout /\ Indexes /\ u \in Int /\ bg.left <= Both
  BY <1>1 DEF IInv, Types, Control, Layout, Both
<1>3. Both \in Nat
  BY <1>2 DEF Both
<1>4. bg'.at = "fill" /\ bg'.left = bg.left - 1 /\ bg' \in [at : Steps, left : Nat, met : Nat]
  <2>1. bg \in [at : Steps, left : Nat, met : Nat] /\ bg.left - 1 \in Nat
    BY <1>1, <1>2 DEF Types
  <2> QED
    BY <1>1, <2>1
<1>5. Types'
  <2>1. Fir(u).acc \in Int \X Int /\ Fir(u).buf \in [Places -> Int] /\ Fir(u).out \in Int
        /\ Fir(u).fidx \in Nat \X Nat
    BY <1>2, FirType, FirIndex
  <2> QED
    BY <1>1, <1>2, <1>4, <2>1 DEF Types
<1>6. Layout' /\ Indexes'
  <2>1. Fir(u).fidx[1] < len[1] /\ (len[2] > 0 => Fir(u).fidx[2] < len[2])
    BY <1>2, FirIndex
  <2> QED
    BY <1>1, <1>2, <2>1 DEF Layout, Indexes
<1>7. Control'
  <2>1. ~running' /\ steady' = 0 /\ Both' = Both
    BY <1>1, <1>2 DEF IInv, Control, Both
  <2> QED
    BY <1>2, <1>3, <1>4, <2>1 DEF Control
<1>8. SumsOf(acc, buf)
  BY <1>1, <1>2 DEF IInv, Sums
<1>9. Sums'
  <2>1. SumsOf(Fir(u).acc, Fir(u).buf)
    BY <1>2, <1>8, FirSums
  <2> QED
    BY <1>1, <2>1 DEF Sums, SumsOf, Window1, Window2
<1>10. Input'
  BY <1>1 DEF IInv, Input, Regression
<1>11. OnRamp'
  BY <1>1, <1>2 DEF OnRamp
<1>12. ASSUME changes = 0
       PROVE  /\ Rings(Fir(u).buf, Fir(u).fidx, Both - bg.left + 1, Scale, 0)
              /\ bg.left = 1 => Fir(u).out = Scale
  <2>1. u = Scale /\ Scale \in Int /\ Scale \in 0 .. MaxMeas * Scale
    BY <1>12, Numbers DEF IInv, Input, Scale
  <2>2. Rings(buf, fidx, Both - bg.left, Scale, 0)
    BY <1>1, <1>2, <1>12 DEF IInv, Still
  <2>3. Clip(u) = u /\ u = Scale + 2 * 0 /\ Both - bg.left \in Int /\ 0 \in Int
    BY <1>2, <1>3, <2>1, ClipInside
  <2>4. /\ Rings(Fir(u).buf, Fir(u).fidx, (Both - bg.left) + 1, u, 0)
        /\ (Both - bg.left) + 1 >= Both => Fir(u).out = u - 0 * Lag
    BY <1>2, <1>8, <2>1, <2>2, <2>3, FirRamp
  <2>5. Lag \in Int
    BY <1>2 DEF Lag
  <2>6. bg.left = 1 => (Both - bg.left) + 1 >= Both
    BY <1>3
  <2> QED
    BY <2>1, <2>4, <2>5, <2>6
<1>13. Still'
  <2>1. ~running' /\ len' = len /\ Both' = Both /\ changes' = changes
    BY <1>1, <1>2 DEF Both
  <2>2. Both' - bg'.left = Both - bg.left + 1 /\ (bg'.left = 0 => bg.left = 1)
    BY <1>2, <1>3, <1>4, <2>1
  <2>3. ASSUME changes = 0 PROVE Rings(buf, fidx, Both - bg.left, Scale, 0)'
    BY <1>1, <1>12, <2>1, <2>2, <2>3 DEF Rings
  <2>4. changes = 0 /\ bg'.left = 0 => filtered' = Scale
    BY <1>1, <1>12, <2>2
  <2> QED
    BY <1>4, <2>1, <2>3, <2>4 DEF Still
<1> QED
  BY <1>5, <1>6, <1>7, <1>9, <1>10, <1>11, <1>13 DEF IInv

LEMMA BypassKeeps == ASSUME IInv, Bypass PROVE IInv'
<1>1. /\ bg.at = "bypass" /\ filtered' = u /\ bg' = [bg EXCEPT !.at = "fill"]
      /\ UNCHANGED <<x, slope, u, extrapolated, running, len, elen, fidx, eidx, acc, buf, rate,
                     changes, inits, steady>>
  BY DEF Bypass, filter
<1>2. /\ len[1] = 0 /\ ~running /\ bg.left = 0 /\ Types /\ u \in Int /\ len[2] \in Nat /\ len[1] \in Nat
      /\ bg \in [at : Steps, left : Nat, met : Nat]
  BY <1>1 DEF IInv, Types, Control
<1>3. bg'.at = "fill" /\ bg'.left = 0 /\ bg' \in [at : Steps, left : Nat, met : Nat]
  BY <1>1, <1>2 DEF Steps
<1>4. Types'
  BY <1>1, <1>2, <1>3 DEF Types
<1>5. Layout' /\ Indexes'
  BY <1>1 DEF IInv, Layout, Indexes
<1>6. Control'
  <2>1. ~running' /\ steady' = 0 /\ Both' >= 0
    BY <1>1, <1>2 DEF IInv, Control, Both
  <2> QED
    BY <1>3, <2>1 DEF Control
<1>7. Sums' /\ OnRamp'
  BY <1>1, <1>2 DEF Sums, OnRamp
<1>8. Input'
  BY <1>1 DEF IInv, Input, Regression
<1>9. Still'
  BY <1>1, <1>2, <1>3 DEF IInv, Input, Still
<1> QED
  BY <1>4, <1>5, <1>6, <1>7, <1>8, <1>9 DEF IInv

LEMMA RestartKeeps == ASSUME IInv, Restart PROVE IInv'
<1>1. /\ bg.at = "fill" /\ bg.left = 0 /\ running' = TRUE
      /\ bg' = [at |-> "idle", left |-> 0, met |-> 0] /\ extrapolated' = filtered
      /\ buf' = [i \in DOMAIN buf |-> IF i >= len[1] + len[2] /\ i < len[1] + len[2] + elen
                                      THEN filtered ELSE buf[i]]
      /\ UNCHANGED <<x, slope, u, filtered, len, elen, fidx, eidx, acc, rate, changes, inits, steady>>
  BY DEF Restart
<1>2. /\ len[1] \in Nat /\ len[2] \in Nat /\ elen \in Nat /\ ~running /\ steady = 0
      /\ (len[1] + len[2]) + elen <= BufLen /\ BufLen \in Nat /\ Types /\ Layout /\ Indexes
      /\ filtered \in Int /\ buf \in [Places -> Int] /\ eidx \in Nat /\ (elen > 0 => eidx < elen)
  BY <1>1, Numbers DEF IInv, Types, Control, Layout, Indexes
<1>3. bg'.at = "idle" /\ bg'.left = 0 /\ bg' \in [at : Steps, left : Nat, met : Nat]
  BY <1>1 DEF Steps
<1>4. Both \in Nat
  BY <1>2 DEF Both
<1>5. buf' \in [Places -> Int] /\ \A i \in 0 .. Both - 1 : buf'[i] = buf[i]
  <2>1. DOMAIN buf = Places
    BY <1>2
  <2>2. \A i \in 0 .. Both - 1 : i \in Places /\ ~(i >= len[1] + len[2])
    BY <1>2 DEF Both, Places
  <2> QED
    BY <1>1, <1>2, <2>1, <2>2
<1>6. Types'
  BY <1>1, <1>2, <1>3, <1>5 DEF Types
<1>7. Layout' /\ Indexes'
  BY <1>1, <1>2 DEF Layout, Indexes
<1>8. Control'
  BY <1>1, <1>3 DEF Control
<1>9. \A i \in Places : buf[i] \in Int
  BY <1>2
<1>10. Sums'
  <2>1. len[1] > 0 => SumsOf(acc, buf')
    <3>1. len[1] > 0 => SumsOf(acc, buf)
      BY <1>1 DEF IInv, Sums
    <3>2. 0 \in Int
      OBVIOUS
    <3> QED
      BY <1>2, <1>5, <1>9, <3>1, <3>2, AfterStages
  <2> QED
    BY <1>1, <2>1 DEF Sums, SumsOf, Window1, Window2
<1>11. Input'
  BY <1>1 DEF IInv, Input, Regression
<1>12. OnRamp'
  <2>1. len[1] > 0 => Rings(buf', fidx, 0, x, Half)
    BY <1>2, Slots, RingsNone
  <2>2. elen > 0 => Ring(buf', Both, elen, eidx, 0 - Both, filtered, 2 * Half)
    <3>1. 0 - Both \in Int /\ 0 - Both <= 0
      BY <1>4
    <3> QED
      BY <1>2, <3>1, RingNone
  <2>3. len' = len /\ elen' = elen /\ fidx' = fidx /\ eidx' = eidx /\ steady' = 0 /\ x' = x
        /\ filtered' = filtered /\ Half' = Half /\ Both' = Both /\ rate' = rate /\ slope' = slope
    BY <1>1, <1>2 DEF Half, Both
  <2>4. len'[1] > 0 => Rings(buf, fidx, steady, x, Half)'
    BY <2>1, <2>3 DEF Rings
  <2>5. elen' > 0 => Ring(buf, Both, elen, eidx, steady - Both, filtered, 2 * Half)'
    BY <2>2, <2>3
  <2>6. ~(steady' > Both') /\ ~(steady' > BufLen)
    BY <1>2, <1>4, <2>3
  <2>7. \A i \in 0 .. 3 : ~(steady' > Both' + (i * Period + rate'.counter))
    <3>1. rate.counter \in Nat /\ Period \in Nat
      BY <1>2, Numbers DEF Types
    <3>2. \A i \in 0 .. 3 : i * Period \in Nat
      BY <3>1
    <3> QED
      BY <1>4, <2>3, <3>1, <3>2
  <2> QED
    BY <2>4, <2>5, <2>6, <2>7 DEF OnRamp
<1>13. Still'
  <2>1. changes = 0 => filtered = Scale /\ (len[1] > 0 => Rings(buf, fidx, Both - 0, Scale, 0))
    BY <1>1 DEF IInv, Still
  <2>2. Both - 0 = Both /\ Both \in Int
    BY <1>4
  <2>3. len[1] > 0 /\ Rings(buf, fidx, Both, Scale, 0) => Rings(buf', fidx, Both, Scale, 0)
    BY <1>2, <1>5, <1>9, <2>2, AfterStages
  <2>4. len' = len /\ fidx' = fidx /\ Both' = Both /\ filtered' = filtered /\ changes' = changes
    BY <1>1 DEF Both
  <2>5. changes = 0 /\ len[1] > 0 => Rings(buf, fidx, Both, Scale, 0)'
    BY <2>1, <2>2, <2>3, <2>4 DEF Rings
  <2>6. bg'.at # "fill"
    BY <1>3
  <2> QED
    BY <2>1, <2>4, <2>5, <2>6 DEF Still
<1> QED
  BY <1>6, <1>7, <1>8, <1>10, <1>11, <1>12, <1>13 DEF IInv

----------------------------------------------------------------------------
(* regMgrMeasSetRT                                                         *)

\* An iteration in which the input changes by s; an invalid one is replaced
\* by what it would have been.
Sampled(s) ==
    /\ s \in Int /\ slope' = s /\ changes' = IF s = slope THEN changes ELSE changes + 1
    /\ x' = x + s * Scale /\ x' \in 0 .. MaxMeas * Scale /\ u' = x'
    /\ FilterRT(x') /\ RateRT(filtered')
    /\ steady' = IF s # slope \/ ~running THEN 0 ELSE Min({steady + 1, Enough})
    /\ bg' \in [at : Steps, left : Nat, met : Nat] /\ bg'.at = bg.at /\ bg'.left = bg.left
    /\ inits' = inits

\* On a ramp that is old enough the estimate is exact.
LEMMA Estimate ==
    ASSUME IInv, steady = Enough
    PROVE  u + rate.estimate \div (10 * Period) = x + slope * Scale
<1> DEFINE c == rate.counter
           h == rate.history
           d == 2 * Half
           p == Period
<1>1. /\ c \in Nat /\ c < p /\ p \in Nat /\ p > 0 /\ slope \in Int /\ filtered \in Int /\ x \in Int
      /\ len[1] \in Nat /\ len[2] \in Nat /\ elen \in Nat /\ BufLen \in Nat
      /\ (len[1] + len[2]) + elen <= BufLen /\ Enough = BufLen + 4 * p /\ Enough > 0
  BY Numbers DEF IInv, Types, Layout
<1>2. running
  BY <1>1 DEF IInv, Control
<1>3. Both <= BufLen /\ Both \in Nat /\ d \in Int
  BY <1>1 DEF Both, Half
<1> HIDE DEF c, h, d, p
<1>4. \A i \in 0 .. 3 : steady > Both + (i * p + c) => h[i] = filtered - (i * p + c) * d
  BY <1>2 DEF IInv, OnRamp, c, h, d, p
<1>5. /\ Enough > Both + (0 * p + c) /\ Enough > Both + (1 * p + c)
      /\ Enough > Both + (2 * p + c) /\ Enough > Both + (3 * p + c)
  BY <1>1, <1>3
<1>6. /\ h[0] = filtered - (0 * p + c) * d /\ h[1] = filtered - (1 * p + c) * d
      /\ h[2] = filtered - (2 * p + c) * d /\ h[3] = filtered - (3 * p + c) * d
  BY <1>4, <1>5
<1>7. Regression(h) = (10 * p) * d
  <2>1. h[0] - h[3] = 3 * (p * d)
    BY <1>1, <1>3, <1>6
  <2>2. h[1] - h[2] = p * d
    BY <1>1, <1>3, <1>6
  <2>3. (10 * p) * d = 10 * (p * d) /\ p * d \in Int
    BY <1>1, <1>3
  <2> QED
    BY <2>1, <2>2, <2>3 DEF Regression
<1>8. 10 * p \in Nat /\ 10 * p > 0
  BY <1>1
<1>9. Regression(h) \div (10 * p) = d
  BY <1>3, <1>7, <1>8, Quotient
<1>10. u = x /\ rate.estimate = Regression(h)
  BY DEF IInv, Input, h
<1>11. d = slope * Scale
  BY <1>1 DEF d, Half, Scale
<1> QED
  BY <1>9, <1>10, <1>11 DEF p

\* Every iteration is one of those: an invalid sample is accepted on an old ramp
\* only, where its replacement is the value that was not measured.
LEMMA Samples == ASSUME IInv, MeasSetRT PROVE \E s : Sampled(s)
<1>1. PICK s \in -Steepest .. Steepest, valid \in BOOLEAN :
        /\ slope' = s /\ changes' = IF s = slope THEN changes ELSE changes + 1
        /\ x + s * Scale \in 0 .. MaxMeas * Scale /\ x' = x + s * Scale
        /\ valid \/ (steady = Enough /\ s = slope)
        /\ u' = Unfiltered(valid, x')
        /\ FilterRT(u') /\ RateRT(filtered')
        /\ steady' = IF s # slope \/ ~running THEN 0 ELSE Min({steady + 1, Enough})
        /\ IF bg.at = "idle" THEN bg' = bg
           ELSE bg.met < MaxDuring /\ bg' = [bg EXCEPT !.met = @ + 1]
        /\ inits' = inits
  BY DEF MeasSetRT
<1>2. s \in Int
  BY <1>1, InputAssumption
<1>3. u' = x'
  <2>1. CASE valid
    BY <1>1, <2>1 DEF Unfiltered
  <2>2. CASE ~valid
    <3>1. steady = Enough /\ s = slope
      BY <1>1, <2>2
    <3>2. u' = u + rate.estimate \div (10 * Period)
      BY <1>1, <2>2 DEF Unfiltered
    <3> QED
      BY <1>1, <3>1, <3>2, Estimate
  <2> QED
    BY <2>1, <2>2
<1>4. FilterRT(x')
  BY <1>1, <1>3
<1>5. bg' \in [at : Steps, left : Nat, met : Nat] /\ bg'.at = bg.at /\ bg'.left = bg.left
  <2>1. bg \in [at : Steps, left : Nat, met : Nat]
    BY DEF IInv, Types
  <2>2. CASE bg.at = "idle"
    BY <1>1, <2>1, <2>2
  <2>3. CASE bg.at # "idle"
    BY <1>1, <2>1, <2>3
  <2> QED
    BY <2>2, <2>3
<1> QED
  BY <1>1, <1>2, <1>3, <1>4, <1>5 DEF Sampled

\* The rate takes a sample each period.
LEMMA RateStep ==
    ASSUME Types, NEW f \in Int, RateRT(f), rate.estimate = Regression(rate.history)
    PROVE  /\ rate' \in [counter : 0 .. Period - 1, history : [0 .. 3 -> Int], estimate : Int]
           /\ rate'.estimate = Regression(rate'.history)
           /\ rate.counter + 1 < Period => /\ rate'.counter = rate.counter + 1
                                           /\ rate'.history = rate.history
           /\ rate.counter + 1 >= Period =>
                /\ rate'.counter = 0 /\ rate'.history[0] = f /\ rate.counter + 1 = Period
                /\ \A i \in 1 .. 3 : rate'.history[i] = rate.history[i - 1]
<1>1. /\ rate \in [counter : 0 .. Period - 1, history : [0 .. 3 -> Int], estimate : Int]
      /\ Period \in Nat /\ Period > 0
  BY Numbers DEF Types
<1>2. CASE rate.counter + 1 < Period
  <2>1. rate' = [rate EXCEPT !.counter = @ + 1]
    BY <1>2 DEF RateRT
  <2>2. rate.counter + 1 \in 0 .. Period - 1
    BY <1>1, <1>2
  <2> QED
    BY <1>1, <1>2, <2>1, <2>2
<1>3. CASE rate.counter + 1 >= Period
  <2> DEFINE h == [i \in 0 .. 3 |-> IF i = 0 THEN f ELSE rate.history[i - 1]]
  <2>1. rate' = [counter |-> 0, history |-> h, estimate |-> Regression(h)]
    BY <1>1, <1>3 DEF RateRT
  <2>2. h \in [0 .. 3 -> Int]
    <3>1. \A i \in 0 .. 3 : i # 0 => i - 1 \in 0 .. 3
      OBVIOUS
    <3> QED
      BY <1>1, <3>1
  <2>3. h[0] = f /\ \A i \in 1 .. 3 : h[i] = rate.history[i - 1]
    OBVIOUS
  <2>4. h[0] \in Int /\ h[1] \in Int /\ h[2] \in Int /\ h[3] \in Int
    BY <2>2
  <2> HIDE DEF h
  <2>5. Regression(h) \in Int
    BY <2>4 DEF Regression
  <2>6. 0 \in 0 .. Period - 1 /\ rate.counter + 1 = Period
    BY <1>1, <1>3
  <2> QED
    BY <1>1, <1>3, <2>1, <2>2, <2>3, <2>5, <2>6
<1> QED
  BY <1>1, <1>2, <1>3

\* What does not depend on whether the filter runs.
LEMMA SampledTypes ==
    ASSUME IInv, NEW s, Sampled(s)
    PROVE  /\ steady' \in 0 .. Enough /\ (s # slope \/ ~running => steady' = 0)
           /\ s = slope /\ running => steady' <= steady + 1
           /\ changes' \in Nat /\ (changes' = 0 => changes = 0 /\ s = slope /\ slope' = 0 /\ x' = Scale)
           /\ x' \in Int /\ Clip(x') = x'
<1>1. /\ steady \in 0 .. Enough /\ Enough \in Nat /\ changes \in Nat /\ s \in Int /\ slope \in Int
      /\ x' \in 0 .. MaxMeas * Scale /\ MaxMeas * Scale \in Nat
  BY Numbers DEF IInv, Types, Sampled, Scale
<1>2. Min({steady + 1, Enough}) = IF steady + 1 <= Enough THEN steady + 1 ELSE Enough
  BY <1>1, SmallOf
<1>3. steady' = IF s # slope \/ ~running THEN 0 ELSE IF steady + 1 <= Enough THEN steady + 1 ELSE Enough
  BY <1>2 DEF Sampled
<1>4. steady' \in 0 .. Enough /\ (s = slope /\ running => steady' <= steady + 1)
  BY <1>1, <1>3
<1>5. changes' \in Nat /\ (changes' = 0 => changes = 0 /\ s = slope)
  BY <1>1 DEF Sampled
<1>6. ASSUME changes' = 0 PROVE slope' = 0 /\ x' = Scale
  BY <1>1, <1>5, <1>6 DEF Sampled, IInv, Input, Scale
<1>7. Clip(x') = x'
  BY <1>1, ClipInside
<1> QED
  BY <1>1, <1>3, <1>4, <1>5, <1>6, <1>7

\* While the filter does not run, its output is its input.
LEMMA PausedKeeps == ASSUME IInv, NEW s, Sampled(s), ~running PROVE IInv'
<1>1. /\ filtered' = x' /\ extrapolated' = x'
      /\ UNCHANGED <<running, len, elen, fidx, eidx, acc, buf>>
  BY DEF Sampled, FilterRT, filter
<1>2. /\ slope' = s /\ s \in Int /\ x' \in 0 .. MaxMeas * Scale /\ u' = x' /\ RateRT(filtered')
      /\ bg' \in [at : Steps, left : Nat, met : Nat] /\ bg'.at = bg.at /\ bg'.left = bg.left
      /\ inits' = inits
  BY DEF Sampled
<1>3. /\ steady' \in 0 .. Enough /\ steady' = 0 /\ changes' \in Nat /\ x' \in Int
      /\ changes' = 0 => changes = 0 /\ slope' = 0 /\ x' = Scale
  BY SampledTypes
<1>4. /\ rate' \in [counter : 0 .. Period - 1, history : [0 .. 3 -> Int], estimate : Int]
      /\ rate'.estimate = Regression(rate'.history)
  <2>1. filtered' \in Int /\ Types /\ rate.estimate = Regression(rate.history)
    BY <1>1, <1>3 DEF IInv, Input
  <2> QED
    BY <1>2, <2>1, RateStep
<1>5. Types'
  <2>1. {slope', u', filtered', extrapolated'} \subseteq Int
    BY <1>1, <1>2, <1>3
  <2> QED
    BY <1>1, <1>2, <1>3, <1>4, <2>1 DEF IInv, Types
<1>6. Layout' /\ Indexes'
  BY <1>1 DEF IInv, Layout, Indexes
<1>7. Control'
  <2>1. Both' = Both /\ ~running' /\ len' = len
    BY <1>1 DEF Both
  <2> QED
    BY <1>2, <1>3, <2>1 DEF IInv, Control
<1>8. Sums'
  BY <1>1, <1>2 DEF IInv, Sums, SumsOf, Window1, Window2
<1>9. Input'
  <2>1. Regression(rate.history)' = Regression(rate'.history)
    BY DEF Regression
  <2> QED
    BY <1>2, <1>3, <1>4, <2>1 DEF Input
<1>10. OnRamp'
  BY <1>1 DEF OnRamp
<1>11. Still'
  <2>1. ~running' /\ len' = len /\ fidx' = fidx /\ buf' = buf /\ Both' = Both
    BY <1>1 DEF Both
  <2>2. ASSUME changes' = 0, bg'.at = "fill", len'[1] > 0 PROVE Rings(buf, fidx, Both - bg.left, Scale, 0)'
    <3>1. Rings(buf, fidx, Both - bg.left, Scale, 0)
      BY <1>2, <1>3, <2>1, <2>2 DEF IInv, Still
    <3> QED
      BY <1>2, <2>1, <3>1 DEF Rings
  <2> QED
    BY <1>1, <1>3, <2>1, <2>2 DEF Still
<1> QED
  BY <1>5, <1>6, <1>7, <1>8, <1>9, <1>10, <1>11 DEF IInv

LEMMA WrapRange == ASSUME NEW n \in Nat, NEW i \in Nat, i < n PROVE Wrap(i + 1, n) \in 0 .. n - 1
  BY DEF Wrap

\* The state in which the filter runs, and what an iteration makes of it.
LEMMA RunningState ==
    ASSUME IInv, NEW s, Sampled(s), running
    PROVE  /\ Types /\ Layout /\ Indexes /\ bg.at = "idle" /\ (len[1] > 0 => SumsOf(acc, buf))
           /\ len[1] \in Nat /\ len[2] \in Nat /\ elen \in Nat /\ eidx \in Nat /\ x \in Int
           /\ slope \in Int /\ filtered \in Int /\ Half \in Int /\ Lag \in Int /\ steady \in Nat
           /\ Both \in Nat /\ Both + elen <= BufLen /\ (elen > 0 => eidx \in 0 .. elen - 1)
           /\ len' = len /\ elen' = elen /\ running' = TRUE /\ Both' = Both /\ Lag' = Lag
           /\ filtered' \in Int /\ extrapolated' \in Int /\ buf' \in [Places -> Int]
           /\ acc' \in Int \X Int /\ fidx' \in Nat \X Nat /\ eidx' \in Nat
           /\ len[1] > 0 => /\ filtered' = Fir(x').out /\ fidx' = Fir(x').fidx /\ acc' = Fir(x').acc
                            /\ \A i \in 0 .. Both - 1 : buf'[i] = Fir(x').buf[i]
                            /\ Fir(x').buf \in [Places -> Int]
                            /\ fidx'[1] \in 0 .. len[1] - 1
                            /\ len[2] > 0 => fidx'[2] \in 0 .. len[2] - 1
           /\ len[1] = 0 => filtered' = x'
           /\ elen > 0 =>
                /\ eidx' = Wrap(eidx + 1, elen) /\ eidx' \in 0 .. elen - 1
                /\ buf'[Both + eidx] = filtered'
                /\ \A i \in 0 .. elen - 1 : i # eidx => buf'[Both + i] = buf[Both + i]
                /\ extrapolated' = filtered' + (Delay2 * (filtered' - buf[Both + eidx])) \div (2 * elen)
<1>1. /\ Types /\ Layout /\ Indexes /\ bg.at = "idle" /\ (len[1] > 0 => SumsOf(acc, buf))
      /\ len[1] \in Nat /\ len[2] \in Nat /\ elen \in Nat /\ eidx \in Nat /\ x \in Int
      /\ slope \in Int /\ filtered \in Int /\ steady \in Nat /\ acc \in Int \X Int
      /\ fidx \in Nat \X Nat
  BY Numbers DEF IInv, Types, Control, Sums, Scale
<1>2. /\ Half \in Int /\ Lag \in Int /\ Both \in Nat
  BY <1>1 DEF Half, Lag, Both
<1>3. Both + elen <= BufLen /\ (elen > 0 => eidx \in 0 .. elen - 1)
  BY <1>1 DEF Both, Layout, Indexes
<1>4. x' \in Int /\ FilterRT(x')
  BY SampledTypes DEF Sampled
<1>5. /\ running' = TRUE /\ len' = len /\ elen' = elen
      /\ len[1] > 0 => /\ acc' = Fir(x').acc /\ fidx' = Fir(x').fidx /\ filtered' = Fir(x').out
                       /\ \A i \in 0 .. Both - 1 : buf'[i] = Fir(x').buf[i]
      /\ len[1] = 0 => acc' = acc /\ fidx' = fidx /\ filtered' = x'
      /\ filtered' \in Int /\ extrapolated' \in Int /\ buf' \in [Places -> Int]
      /\ elen = 0 => eidx' = eidx
      /\ elen > 0 =>
           /\ eidx' = Wrap(eidx + 1, elen) /\ buf'[Both + eidx] = filtered'
           /\ \A i \in 0 .. elen - 1 : i # eidx => buf'[Both + i] = buf[Both + i]
           /\ extrapolated' = filtered' + (Delay2 * (filtered' - buf[Both + eidx])) \div (2 * elen)
  BY <1>1, <1>4, FilterRuns
<1>6. Both' = Both /\ Lag' = Lag
  BY <1>5 DEF Both, Lag
<1>7. ASSUME len[1] > 0
      PROVE  /\ acc' \in Int \X Int /\ fidx' \in Nat \X Nat /\ Fir(x').buf \in [Places -> Int]
             /\ fidx'[1] \in 0 .. len[1] - 1 /\ (len[2] > 0 => fidx'[2] \in 0 .. len[2] - 1)
  <2>1. Fir(x').acc \in Int \X Int /\ Fir(x').buf \in [Places -> Int]
    BY <1>1, <1>4, <1>7, FirType
  <2>2. /\ Fir(x').fidx \in Nat \X Nat /\ Fir(x').fidx[1] < len[1]
        /\ len[2] > 0 => Fir(x').fidx[2] < len[2]
    BY <1>1, <1>7, FirIndex
  <2>3. fidx' \in Nat \X Nat /\ fidx'[1] < len[1] /\ (len[2] > 0 => fidx'[2] < len[2])
    BY <1>5, <1>7, <2>2
  <2>4. fidx'[1] \in Nat /\ fidx'[2] \in Nat
    BY <2>3
  <2> QED
    BY <1>1, <1>5, <1>7, <2>1, <2>3, <2>4
<1>8. acc' \in Int \X Int /\ fidx' \in Nat \X Nat
  BY <1>1, <1>5, <1>7
<1>9. elen > 0 => eidx' \in 0 .. elen - 1
  BY <1>1, <1>3, <1>5, WrapRange
<1>10. eidx' \in Nat
  BY <1>1, <1>5, <1>9
<1> QED
  BY <1>1, <1>2, <1>3, <1>5, <1>6, <1>7, <1>8, <1>9, <1>10

LEMMA RunningSums ==
    ASSUME IInv, NEW s, Sampled(s), running, len[1] > 0
    PROVE  SumsOf(acc', buf')
<1>1. /\ Types /\ Layout /\ Indexes /\ SumsOf(acc, buf) /\ acc' = Fir(x').acc
      /\ \A i \in 0 .. Both - 1 : buf'[i] = Fir(x').buf[i]
      /\ Fir(x').buf \in [Places -> Int]
  BY RunningState
<1>2. x' \in Int
  BY SampledTypes
<1>3. SumsOf(Fir(x').acc, Fir(x').buf)
  BY <1>1, <1>2, FirSums
<1>4. \A i \in Places : Fir(x').buf[i] \in Int
  BY <1>1
<1>5. 0 \in Int
  OBVIOUS
<1> QED
  BY <1>1, <1>3, <1>4, <1>5, AfterStages

\* The ramp goes on: the values of one iteration, from those of the last.
LEMMA RunningRamp ==
    ASSUME IInv, NEW s, Sampled(s), running, s = slope, len[1] > 0
    PROVE  /\ Rings(buf', fidx', steady + 1, x', Half)
           /\ steady + 1 >= Both => filtered' = x' - Half * Lag
<1>1. /\ Types /\ Layout /\ Indexes /\ SumsOf(acc, buf) /\ filtered' = Fir(x').out
      /\ \A i \in 0 .. Both - 1 : buf'[i] = Fir(x').buf[i]
      /\ Fir(x').buf \in [Places -> Int] /\ fidx' = Fir(x').fidx
      /\ slope \in Int /\ x \in Int /\ Half \in Int /\ steady \in Nat
  BY RunningState
<1>2. x' \in Int /\ Clip(x') = x'
  BY SampledTypes
<1>3. x' = x + 2 * Half
  BY <1>1 DEF Sampled, Half, Scale
<1>4. Rings(buf, fidx, steady, x, Half)
  BY DEF IInv, OnRamp
<1>5. steady \in Int /\ steady + 1 \in Int
  BY <1>1
<1>6. /\ Rings(Fir(x').buf, Fir(x').fidx, steady + 1, x', Half)
      /\ steady + 1 >= Both => Fir(x').out = x' - Half * Lag
  BY <1>1, <1>2, <1>3, <1>4, <1>5, FirRamp
<1>7. \A i \in Places : Fir(x').buf[i] \in Int
  BY <1>1
<1>8. Rings(Fir(x').buf, fidx', steady + 1, x', Half)
  BY <1>1, <1>6
<1>9. Rings(buf', fidx', steady + 1, x', Half)
  BY <1>1, <1>5, <1>7, <1>8, AfterStages
<1> QED
  BY <1>1, <1>6, <1>9

\* The filtered value goes on with the ramp.
LEMMA RunningFiltered ==
    ASSUME IInv, NEW s, Sampled(s), running, s = slope
    PROVE  /\ steady + 1 > Both => filtered' = x' - Half * Lag
           /\ steady > Both => filtered' = filtered + 2 * Half
<1>1. /\ len[1] \in Nat /\ (len[1] = 0 => filtered' = x') /\ slope \in Int /\ x \in Int
      /\ Half \in Int /\ Lag \in Int /\ steady \in Nat /\ Both \in Nat /\ filtered \in Int
  BY RunningState
<1>2. x' = x + 2 * Half /\ x' \in Int
  BY <1>1 DEF Sampled, Half, Scale
<1>3. ASSUME steady + 1 > Both PROVE filtered' = x' - Half * Lag
  <2>1. CASE len[1] > 0
    BY <1>1, <1>3, <2>1, RunningRamp
  <2>2. CASE len[1] = 0
    BY <1>1, <1>2, <2>2 DEF Lag
  <2> QED
    BY <1>1, <2>1, <2>2
<1>4. ASSUME steady > Both PROVE filtered' = filtered + 2 * Half
  <2>1. filtered = x - Half * Lag
    BY <1>4 DEF IInv, OnRamp
  <2>2. filtered' = x' - Half * Lag
    BY <1>1, <1>3, <1>4
  <2>3. Half * Lag \in Int
    BY <1>1
  <2> QED
    BY <1>1, <1>2, <2>1, <2>2, <2>3
<1> QED
  BY <1>3, <1>4

LEMMA Shift ==
    ASSUME NEW a \in Int, NEW b \in Int, NEW c \in Int, a <= b + 1
    PROVE  /\ a - c \in Int /\ b - c \in Int /\ (b - c) + 1 \in Int /\ a - c <= (b - c) + 1
           /\ b <= c => a - c <= 1
  OBVIOUS

LEMMA Back == ASSUME NEW a \in Int, NEW b \in Int PROVE a - b \in Int /\ (a - b) + b = a
  OBVIOUS

\* The difference to the oldest value extrapolates the delay away: the
\* factor times the length is the delay, so the division is exact.
LEMMA RunningExtrapolation ==
    ASSUME IInv, NEW s, Sampled(s), running, s = slope, elen > 0
    PROVE  /\ Ring(buf', Both, elen, eidx', steady' - Both, filtered', 2 * Half)
           /\ steady' > BufLen => extrapolated' = x' + MeasDelay * slope * Scale
<1>1. /\ elen \in Nat /\ eidx \in 0 .. elen - 1 /\ eidx' = Wrap(eidx + 1, elen)
      /\ eidx' \in 0 .. elen - 1 /\ buf'[Both + eidx] = filtered'
      /\ \A i \in 0 .. elen - 1 : i # eidx => buf'[Both + i] = buf[Both + i]
      /\ extrapolated' = filtered' + (Delay2 * (filtered' - buf[Both + eidx])) \div (2 * elen)
  BY RunningState
<1>2. /\ Both \in Nat /\ Both + elen <= BufLen /\ steady \in Nat /\ Half \in Int
      /\ slope \in Int /\ Lag \in Int /\ filtered' \in Int /\ filtered \in Int
  BY RunningState
<1>3. 2 * Half \in Int
  BY <1>2
<1> DEFINE d == 2 * Half
           n == elen
<1>4. /\ n \in Nat /\ eidx \in 0 .. n - 1 /\ eidx' = Wrap(eidx + 1, n) /\ eidx' \in 0 .. n - 1
      /\ buf'[Both + eidx] = filtered' /\ filtered' \in Int /\ filtered \in Int
      /\ \A i \in 0 .. n - 1 : i # eidx => buf'[Both + i] = buf[Both + i]
      /\ extrapolated' = filtered' + (Delay2 * (filtered' - buf[Both + eidx])) \div (2 * elen)
      /\ Both \in Nat /\ Both + n <= BufLen /\ steady \in Nat /\ d \in Int /\ Half \in Int
      /\ slope \in Int /\ Lag \in Int
  BY <1>1, <1>2, <1>3
<1>5. steady' \in Int /\ steady' <= steady + 1 /\ x' \in Int
  BY SampledTypes
<1>6. Ring(buf, Both, n, eidx, steady - Both, filtered, d)
  BY DEF IInv, OnRamp
<1>7. steady - Both \in Int /\ (steady - Both) + 1 \in Int /\ steady' - Both \in Int
      /\ steady' - Both <= (steady - Both) + 1
  <2>1. steady' \in Int /\ steady' <= steady + 1 /\ steady \in Int /\ Both \in Int
    BY <1>5, <1>2
  <2> QED
    BY <2>1, Shift
<1>8. Ring(buf', Both, n, eidx', steady' - Both, filtered', d)
  <2>1. CASE steady > Both
    <3>1. filtered' = filtered + d
      BY <2>1, RunningFiltered
    <3> HIDE DEF d, n
    <3>2. Ring(buf', Both, n, Wrap(eidx + 1, n), (steady - Both) + 1, filtered + d, d)
      BY <1>4, <1>6, <1>7, <3>1, RingStep
    <3>3. Ring(buf', Both, n, eidx', (steady - Both) + 1, filtered', d)
      BY <1>4, <3>1, <3>2
    <3> QED
      BY <1>4, <1>7, <3>3, RingWeaker
  <2>2. CASE steady <= Both
    <3> DEFINE top == filtered' - d
    <3>1. top \in Int /\ top + d = filtered' /\ 0 \in Int /\ 1 \in Int /\ 0 + 1 = 1 /\ steady' - Both <= 1
      <4>1. steady' \in Int /\ steady' <= steady + 1 /\ steady \in Int /\ Both \in Int
        BY <1>5, <1>2
      <4>2. steady' - Both <= 1
        BY <2>2, <4>1, Shift
      <4>3. filtered' \in Int /\ d \in Int
        BY <1>2, <1>3
      <4> HIDE DEF d
      <4>4. top \in Int /\ top + d = filtered'
        BY <4>3, Back
      <4> QED
        BY <4>2, <4>4
    <3> HIDE DEF d, n, top
    <3>2. Ring(buf, Both, n, eidx, 0, top, d)
      BY <1>4, <3>1, RingNone
    <3>3. Ring(buf', Both, n, Wrap(eidx + 1, n), 0 + 1, top + d, d)
      BY <1>4, <3>1, <3>2, RingStep
    <3>4. Ring(buf', Both, n, eidx', 1, filtered', d)
      BY <1>4, <3>1, <3>3
    <3> QED
      BY <1>4, <1>7, <3>1, <3>4, RingWeaker
  <2> QED
    BY <1>4, <2>1, <2>2
<1>9. ASSUME steady' > BufLen PROVE extrapolated' = x' + MeasDelay * slope * Scale
  <2>1. steady > Both /\ steady - Both >= n /\ steady + 1 > Both /\ n > 0
    BY <1>4, <1>5, <1>9, Numbers
  <2>2. filtered' = filtered + d /\ filtered' = x' - Half * Lag
    BY <2>1, RunningFiltered
  <2>3. buf[Both + eidx] = filtered - (n - 1) * d
    <3> HIDE DEF d, n
    <3> QED
      BY <1>4, <1>6, <1>7, <2>1, RingOldest
  <2>4. filtered' - buf[Both + eidx] = (2 * n) * Half
    BY <1>4, <2>2, <2>3
  <2>5. Delay2 = 2 * MeasDelay + Lag
    <3>1. len[1] \in Nat /\ len[2] \in Nat /\ Layout
      BY RunningState
    <3> QED
      BY <3>1, Numbers DEF Delay2, Lag
  <2>6. Delay2 \in Int
    BY <1>4, <2>5, Numbers
  <2>7. Delay2 * (filtered' - buf[Both + eidx]) = (2 * n) * (Delay2 * Half)
    BY <1>4, <2>4, <2>6
  <2>8. Delay2 * Half \in Int /\ 2 * n \in Nat /\ 2 * n > 0
    BY <1>4, <2>1, <2>6
  <2>9. ((2 * n) * (Delay2 * Half)) \div (2 * n) = Delay2 * Half
    BY <2>8, Quotient
  <2>10. extrapolated' = filtered' + Delay2 * Half
    BY <1>4, <2>7, <2>9
  <2>11. Delay2 * Half = 2 * (MeasDelay * Half) + Half * Lag
    BY <1>4, <2>5, Numbers
  <2>12. MeasDelay * Half \in Int /\ Half * Lag \in Int
    BY <1>4, Numbers
  <2>13. 2 * (MeasDelay * Half) = MeasDelay * slope * Scale
    BY <1>4, Numbers DEF Half, Scale
  <2> DEFINE y == MeasDelay * slope * Scale
             z == Half * Lag
             w == Delay2 * Half
  <2>14. extrapolated' = filtered' + w /\ w = y + z /\ filtered' = x' - z /\ z \in Int /\ w \in Int
         /\ 2 * (MeasDelay * Half) = y /\ y \in Int
    BY <2>2, <2>8, <2>10, <2>11, <2>12, <2>13
  <2> HIDE DEF y, z, w
  <2>15. extrapolated' = x' + y
    BY <1>5, <2>14
  <2> QED
    BY <2>15 DEF y
<1> QED
  BY <1>8, <1>9

\* The history of the rate is made of values of the ramp, one period apart.
LEMMA RunningRate ==
    ASSUME IInv, NEW s, Sampled(s), running, s = slope
    PROVE  \A i \in 0 .. 3 : steady' > Both + (i * Period + rate'.counter)
              => rate'.history[i] = filtered' - (i * Period + rate'.counter) * (2 * Half)
<1> DEFINE d == 2 * Half
           c == rate.counter
           p == Period
           h == rate.history
<1>1. /\ filtered' \in Int /\ filtered \in Int /\ Both \in Nat /\ steady \in Nat /\ d \in Int
      /\ Types /\ rate.estimate = Regression(rate.history)
  <2>1. /\ filtered' \in Int /\ filtered \in Int /\ Both \in Nat /\ steady \in Nat /\ Half \in Int
        /\ Types
    BY RunningState
  <2>2. rate.estimate = Regression(rate.history)
    BY DEF IInv, Input
  <2> QED
    BY <2>1, <2>2
<1>2. steady' \in Int /\ steady' <= steady + 1 /\ RateRT(filtered')
  BY SampledTypes DEF Sampled
<1>3. c \in Nat /\ p \in Nat /\ p > 0
  BY <1>1, Numbers DEF Types
<1>4. /\ c + 1 < p => rate'.counter = c + 1 /\ rate'.history = h
      /\ c + 1 >= p => /\ rate'.counter = 0 /\ rate'.history[0] = filtered' /\ c + 1 = p
                       /\ \A i \in 1 .. 3 : rate'.history[i] = h[i - 1]
  BY <1>1, <1>2, RateStep
<1>5. \A i \in 0 .. 3 : steady > Both + (i * p + c) => h[i] = filtered - (i * p + c) * d
  BY DEF IInv, OnRamp
<1>6. steady > Both => filtered' = filtered + d
  BY RunningFiltered
<1> HIDE DEF d, c, p, h
<1>7. SUFFICES ASSUME NEW i \in 0 .. 3, steady' > Both + (i * p + rate'.counter)
               PROVE  rate'.history[i] = filtered' - (i * p + rate'.counter) * d
  BY DEF d, p
<1>8. i * p \in Nat /\ i \in Nat
  BY <1>3
<1>9. CASE c + 1 < p
  <2>1. rate'.counter = c + 1 /\ rate'.history = h
    BY <1>4, <1>9
  <2>2. steady > Both + (i * p + c) /\ steady > Both
    BY <1>1, <1>2, <1>3, <1>7, <1>8, <2>1
  <2>3. h[i] = filtered - (i * p + c) * d /\ filtered' = filtered + d
    BY <1>5, <1>6, <2>2
  <2>4. (i * p + (c + 1)) * d = (i * p + c) * d + d /\ (i * p + c) * d \in Int
    BY <1>1, <1>3, <1>8
  <2> QED
    BY <1>1, <2>1, <2>3, <2>4
<1>10. CASE c + 1 >= p
  <2>1. rate'.counter = 0 /\ c + 1 = p
    BY <1>4, <1>10
  <2>2. CASE i = 0
    <3>1. rate'.history[0] = filtered'
      BY <1>4, <1>10
    <3>2. (0 * p + 0) * d = 0
      BY <1>1, <1>3
    <3> QED
      BY <1>1, <2>1, <2>2, <3>1, <3>2
  <2>3. CASE i # 0
    <3> DEFINE j == i - 1
    <3>1. j \in 0 .. 3 /\ i \in 1 .. 3 /\ rate'.history[i] = h[j]
      BY <1>4, <1>10, <2>3
    <3>2. i * p = (j * p + c) + 1 /\ j * p \in Nat
      <4>1. i * p = j * p + p
        BY <1>3, <3>1
      <4>2. j * p \in Nat
        BY <1>3, <3>1
      <4> QED
        BY <1>3, <2>1, <4>1, <4>2
    <3> HIDE DEF j
    <3>3. steady > Both + (j * p + c) /\ steady > Both
      BY <1>1, <1>2, <1>3, <1>7, <2>1, <3>2
    <3>4. h[j] = filtered - (j * p + c) * d /\ filtered' = filtered + d
      BY <1>5, <1>6, <3>1, <3>3
    <3>5. (i * p + 0) * d = (j * p + c) * d + d /\ (j * p + c) * d \in Int
      <4> DEFINE r == j * p + c
      <4>1. r \in Int /\ i * p = r + 1
        BY <1>3, <3>2
      <4> HIDE DEF r
      <4>2. (i * p + 0) * d = (r + 1) * d /\ (r + 1) * d = r * d + d /\ r * d \in Int
        BY <1>1, <4>1
      <4> QED
        BY <4>2 DEF r
    <3> QED
      BY <1>1, <2>1, <3>1, <3>4, <3>5
  <2> QED
    BY <2>2, <2>3
<1> QED
  BY <1>3, <1>9, <1>10

LEMMA RunningOnRamp == ASSUME IInv, NEW s, Sampled(s), running PROVE OnRamp'
<1>1. /\ len' = len /\ elen' = elen /\ Both' = Both /\ Lag' = Lag /\ len[1] \in Nat
      /\ len \in Nat \X Nat /\ elen \in Nat /\ Both \in Nat
      /\ len[1] > 0 => /\ fidx'[1] \in 0 .. len[1] - 1
                       /\ len[2] > 0 => fidx'[2] \in 0 .. len[2] - 1
      /\ elen > 0 => eidx' \in 0 .. elen - 1
  BY RunningState DEF Types
<1>2. /\ steady' \in Int /\ slope' = s /\ rate'.counter \in Nat /\ Period \in Nat
  <2>1. Types /\ rate.estimate = Regression(rate.history) /\ filtered' \in Int
    BY RunningState DEF IInv, Input
  <2>2. RateRT(filtered') /\ slope' = s
    BY DEF Sampled
  <2>3. rate' \in [counter : 0 .. Period - 1, history : [0 .. 3 -> Int], estimate : Int]
    BY <2>1, <2>2, RateStep
  <2> QED
    BY <2>2, <2>3, SampledTypes, Numbers
<1>3. \A i \in 0 .. 3 : i * Period + rate'.counter \in Nat
  BY <1>2
<1>4. CASE s # slope
  <2>1. steady' = 0
    BY <1>4, SampledTypes
  <2>2. len[1] > 0 => Rings(buf', fidx', 0, x', Half')
    BY <1>1, RingsNone
  <2>3. elen > 0 => Ring(buf', Both, elen, eidx', 0 - Both, filtered', 2 * Half')
    <3>1. 0 - Both \in Int /\ 0 - Both <= 0
      BY <1>1
    <3> QED
      BY <1>1, <3>1, RingNone
  <2>4. len'[1] > 0 => Rings(buf, fidx, steady, x, Half)'
    BY <1>1, <2>1, <2>2 DEF Rings
  <2>5. elen' > 0 => Ring(buf, Both, elen, eidx, steady - Both, filtered, 2 * Half)'
    BY <1>1, <2>1, <2>3
  <2>6. ~(steady' > Both') /\ ~(steady' > BufLen)
    BY <1>1, <2>1, Numbers
  <2>7. \A i \in 0 .. 3 : ~(steady' > Both' + (i * Period + rate'.counter))
    BY <1>1, <1>3, <2>1
  <2> QED
    BY <2>4, <2>5, <2>6, <2>7 DEF OnRamp
<1>5. CASE s = slope
  <2>1. slope' = slope /\ Half' = Half
    BY <1>2, <1>5 DEF Half
  <2>2. steady' <= steady + 1 /\ steady + 1 \in Int
    <3>1. steady \in Nat
      BY RunningState
    <3>2. steady' <= steady + 1
      BY <1>5, SampledTypes
    <3> QED
      BY <3>1, <3>2
  <2>3. len[1] > 0 => Rings(buf', fidx', steady', x', Half)
    <3>1. len[1] > 0 => Rings(buf', fidx', steady + 1, x', Half)
      BY <1>5, RunningRamp
    <3> QED
      BY <1>1, <1>2, <2>2, <3>1, RingsWeaker
  <2>4. len'[1] > 0 => Rings(buf, fidx, steady, x, Half)'
    BY <1>1, <2>1, <2>3 DEF Rings
  <2>5. steady' > Both => filtered' = x' - Half * Lag
    <3>1. steady' > Both => steady + 1 > Both
      BY <1>1, <1>2, <2>2
    <3> QED
      BY <1>5, <3>1, RunningFiltered
  <2>6. elen > 0 => /\ Ring(buf', Both, elen, eidx', steady' - Both, filtered', 2 * Half)
                    /\ steady' > BufLen => extrapolated' = x' + MeasDelay * slope * Scale
    BY <1>5, RunningExtrapolation
  <2>7. \A i \in 0 .. 3 : steady' > Both + (i * Period + rate'.counter)
              => rate'.history[i] = filtered' - (i * Period + rate'.counter) * (2 * Half)
    BY <1>5, RunningRate
  <2> QED
    BY <1>1, <2>1, <2>4, <2>5, <2>6, <2>7 DEF OnRamp
<1> QED
  BY <1>4, <1>5

\* An input that never changed leaves the filter as it is.
LEMMA RunningStill == ASSUME IInv, NEW s, Sampled(s), running, changes' = 0
                      PROVE  filtered' = Scale /\ (len[1] > 0 => Rings(buf', fidx', Both, Scale, 0))
<1>1. /\ Types /\ Layout /\ Indexes /\ len \in Nat \X Nat /\ len[1] \in Nat /\ Both \in Nat
      /\ len[1] > 0 => /\ SumsOf(acc, buf) /\ filtered' = Fir(x').out
                       /\ \A i \in 0 .. Both - 1 : buf'[i] = Fir(x').buf[i]
                       /\ Fir(x').buf \in [Places -> Int] /\ fidx' = Fir(x').fidx
                       /\ fidx'[1] \in 0 .. len[1] - 1
                       /\ len[2] > 0 => fidx'[2] \in 0 .. len[2] - 1
      /\ len[1] = 0 => filtered' = x'
      /\ Lag \in Int
  BY RunningState DEF Types
<1>2. x' = Scale /\ changes = 0 /\ Clip(x') = x' /\ Scale \in Int
  BY SampledTypes DEF Scale
<1>3. ASSUME len[1] > 0 PROVE filtered' = Scale /\ Rings(buf', fidx', Both, Scale, 0)
  <2>1. Rings(buf, fidx, Both, Scale, 0)
    BY <1>2, <1>3 DEF IInv, Still
  <2>2. x' = Scale + 2 * 0 /\ Both \in Int /\ Both + 1 \in Int /\ 0 \in Int /\ Both + 1 >= Both
        /\ Both <= Both + 1
    BY <1>1, <1>2
  <2>3. Rings(Fir(x').buf, Fir(x').fidx, Both + 1, x', 0) /\ Fir(x').out = x' - 0 * Lag
    BY <1>1, <1>2, <1>3, <2>1, <2>2, FirRamp
  <2>4. Rings(Fir(x').buf, fidx', Both + 1, Scale, 0) /\ filtered' = Scale
    BY <1>1, <1>2, <1>3, <2>3
  <2>5. \A i \in Places : Fir(x').buf[i] \in Int
    BY <1>1, <1>3
  <2>6. Rings(buf', fidx', Both + 1, Scale, 0)
    BY <1>1, <1>3, <2>2, <2>4, <2>5, AfterStages
  <2>7. Rings(buf', fidx', Both, Scale, 0)
    BY <1>1, <1>3, <2>2, <2>6, RingsWeaker
  <2> QED
    BY <2>4, <2>7
<1> QED
  BY <1>1, <1>2, <1>3

LEMMA RunningKeeps == ASSUME IInv, NEW s, Sampled(s), running PROVE IInv'
<1>1. /\ Types /\ Layout /\ Indexes /\ bg.at = "idle" /\ elen \in Nat /\ len[1] \in Nat
      /\ len' = len /\ elen' = elen /\ running' = TRUE /\ Both' = Both
      /\ filtered' \in Int /\ extrapolated' \in Int /\ buf' \in [Places -> Int]
      /\ acc' \in Int \X Int /\ fidx' \in Nat \X Nat /\ eidx' \in Nat
      /\ len[1] > 0 => /\ fidx'[1] \in 0 .. len[1] - 1
                       /\ len[2] > 0 => fidx'[2] \in 0 .. len[2] - 1
      /\ elen > 0 => eidx' \in 0 .. elen - 1
  BY RunningState
<1>2. /\ slope' = s /\ s \in Int /\ x' \in 0 .. MaxMeas * Scale /\ u' = x' /\ RateRT(filtered')
      /\ bg' \in [at : Steps, left : Nat, met : Nat] /\ bg'.at = bg.at /\ bg'.left = bg.left
      /\ inits' = inits
  BY DEF Sampled
<1>3. /\ steady' \in 0 .. Enough /\ changes' \in Nat /\ x' \in Int
      /\ changes' = 0 => changes = 0 /\ slope' = 0 /\ x' = Scale
  BY SampledTypes
<1>4. /\ rate' \in [counter : 0 .. Period - 1, history : [0 .. 3 -> Int], estimate : Int]
      /\ rate'.estimate = Regression(rate'.history)
  <2>1. rate.estimate = Regression(rate.history)
    BY DEF IInv, Input
  <2> QED
    BY <1>1, <1>2, <2>1, RateStep
<1>5. Types'
  <2>1. {slope', u', filtered', extrapolated'} \subseteq Int /\ running' \in BOOLEAN /\ elen' \in Nat
    BY <1>1, <1>2, <1>3
  <2> QED
    BY <1>1, <1>2, <1>3, <1>4, <2>1 DEF IInv, Types
<1>6. Layout' /\ Indexes'
  <2>1. len[2] > 0 => len[1] > 0
    BY <1>1 DEF Layout, Types
  <2> QED
    BY <1>1, <2>1 DEF Layout, Indexes, Types
<1>7. Control'
  <2>1. bg.left = 0
    BY <1>1 DEF IInv, Control
  <2> QED
    BY <1>1, <1>2, <2>1 DEF Control
<1>8. Sums'
  <2>1. len[1] > 0 => SumsOf(acc', buf')
    BY RunningSums
  <2> QED
    BY <1>1, <2>1 DEF Sums, SumsOf, Window1, Window2
<1>9. Input'
  <2>1. Regression(rate.history)' = Regression(rate'.history)
    BY DEF Regression
  <2> QED
    BY <1>2, <1>3, <1>4, <2>1 DEF Input
<1>10. OnRamp'
  BY RunningOnRamp
<1>11. Still'
  <2>1. changes' = 0 => filtered' = Scale /\ (len[1] > 0 => Rings(buf', fidx', Both, Scale, 0))
    BY RunningStill
  <2>2. ASSUME changes' = 0, len'[1] > 0 PROVE Rings(buf, fidx, Both, Scale, 0)'
    BY <1>1, <2>1, <2>2 DEF Rings
  <2> QED
    BY <1>1, <1>2, <2>1, <2>2 DEF Still
<1> QED
  BY <1>5, <1>6, <1>7, <1>8, <1>9, <1>10, <1>11 DEF IInv

LEMMA MeasSetRTKeeps == ASSUME IInv, MeasSetRT PROVE IInv'
<1>1. PICK s : Sampled(s)
  BY Samples
<1>2. CASE running
  BY <1>1, <1>2, RunningKeeps
<1>3. CASE ~running
  BY <1>1, <1>3, PausedKeeps
<1> QED
  BY <1>2, <1>3

LEMMA NothingKeeps == ASSUME IInv, UNCHANGED vars PROVE IInv'
<1>1. /\ UNCHANGED <<x, slope, u, filtered, extrapolated, running, len, elen, fidx, eidx, acc, buf>>
      /\ UNCHANGED <<rate, bg, changes, inits, steady>>
  BY DEF vars, signals, filter
<1>2. Types' /\ Layout' /\ Indexes'
  BY <1>1 DEF IInv, Types, Layout, Indexes
<1>3. Both' = Both /\ Half' = Half /\ Lag' = Lag
  BY <1>1 DEF Both, Half, Lag
<1>4. Control' /\ Sums' /\ Input'
  BY <1>1, <1>3 DEF IInv, Control, Sums, SumsOf, Window1, Window2, Input, Regression
<1>5. OnRamp'
  <2>1. len[1] > 0 /\ Rings(buf, fidx, steady, x, Half) => Rings(buf, fidx, steady, x, Half)'
    BY <1>1, <1>3 DEF Rings
  <2> QED
    BY <1>1, <1>3, <2>1 DEF IInv, OnRamp
<1>6. Still'
  <2>1. Rings(buf, fidx, Both, Scale, 0) => Rings(buf, fidx, Both, Scale, 0)'
    BY <1>1, <1>3 DEF Rings
  <2>2. Rings(buf, fidx, Both - bg.left, Scale, 0) => Rings(buf, fidx, Both - bg.left, Scale, 0)'
    BY <1>1, <1>3 DEF Rings
  <2> QED
    BY <1>1, <2>1, <2>2 DEF IInv, Still
<1> QED
  BY <1>2, <1>4, <1>5, <1>6 DEF IInv

LEMMA NextKeeps == IInv /\ [Next]_vars /\ [IndexFits]_vars => IInv'
<1> SUFFICES ASSUME IInv, [Next]_vars, [IndexFits]_vars PROVE IInv'
  OBVIOUS
<1>1. CASE UNCHANGED vars
  BY <1>1, NothingKeeps
<1>2. CASE Stop
  BY <1>2, StopKeeps
<1>3. CASE SetLengths
  <2>1. CASE IndexFits
    BY <1>3, <2>1, SetLengthsKeeps
  <2> QED
    BY <1>1, <2>1
<1>4. CASE Clear
  BY <1>4, ClearKeeps
<1>5. CASE Fill
  BY <1>5, FillKeeps
<1>6. CASE Bypass
  BY <1>6, BypassKeeps
<1>7. CASE Restart
  BY <1>7, RestartKeeps
<1>8. CASE MeasSetRT
  BY <1>8, MeasSetRTKeeps
<1> QED
  BY <1>1, <1>2, <1>3, <1>4, <1>5, <1>6, <1>7, <1>8 DEF Next

LEMMA Invariant == Spec /\ IndexesFit => []IInv
  BY InitHolds, NextKeeps, PTL DEF Spec, IndexesFit

\* The properties follow.
LEMMA Within ==
    IInv => WindowSum /\ StartsAtInput /\ RampExtrapolated
<1> SUFFICES ASSUME IInv PROVE WindowSum /\ StartsAtInput /\ RampExtrapolated
  OBVIOUS
<1>1. /\ len[1] \in Nat /\ len[2] \in Nat /\ fidx[1] \in Nat /\ fidx[2] \in Nat /\ eidx \in Nat
      /\ elen \in Nat /\ rate.counter \in 0 .. Period - 1
      /\ {u, filtered, extrapolated, x} \subseteq Int /\ running \in BOOLEAN
  BY Numbers DEF IInv, Types, Scale
<1>2. TypeOK
  <2>1. \A k \in {1, 2} : len[k] > 0 => fidx[k] \in 0 .. len[k] - 1
    BY <1>1 DEF IInv, Indexes
  <2>2. elen > 0 => eidx \in 0 .. elen - 1
    BY <1>1 DEF IInv, Indexes
  <2>3. len[1] + len[2] + elen <= BufLen
    BY <1>1, Numbers DEF IInv, Layout
  <2> QED
    BY <1>1, <2>1, <2>2, <2>3 DEF TypeOK
<1>3. running /\ len[1] > 0 => SumsOf(acc, buf)
  BY DEF IInv, Control, Sums
<1>4. WindowSum
  BY <1>2, <1>3 DEF WindowSum, SumsOf, Window1, Window2
<1>5. StartsAtInput
  BY DEF IInv, Still, Input, StartsAtInput
<1>6. RampExtrapolated
  BY Numbers DEF IInv, Control, OnRamp, RampExtrapolated
<1> QED
  BY <1>4, <1>5, <1>6

\* Each accumulator is the sum of its window after any number of calls of
\* regMeasFilterInit, with iterations anywhere in between; and TypeOK.
THEOREM WindowSumHolds == Spec /\ IndexesFit => []WindowSum
  BY Invariant, Within, PTL

\* While the input has never changed, the filter's output is the input,
\* however often the filter was set up, and whatever lengths were cut to fit.
THEOREM StartsAtInputHolds == Spec /\ IndexesFit => []StartsAtInput
  BY Invariant, Within, PTL

\* On a ramp the extrapolated measurement is the input as it will be
\* when the measurement's own delay is over: the filter's delay is cancelled
\* exactly, for all lengths of its stages.
THEOREM RampExtrapolatedHolds == Spec /\ IndexesFit => []RampExtrapolated
  BY Invariant, Within, PTL

----------------------------------------------------------------------------

\* Every stage and the extrapolation are either off or of one length.
OneLength(n, e) ==
    /\ len[1] \in {0, n} /\ len[2] \in {0, n} /\ elen \in {0, e}
    /\ fidx[1] \in Nat /\ fidx[2] \in Nat /\ eidx \in Nat
    /\ n > 0 => fidx[1] < n /\ fidx[2] < n
    /\ e > 0 => eidx < e

LEMMA OneLengthSet ==
    ASSUME NEW n \in Nat, NEW e \in Nat, Lengths \subseteq {1, n}, Elens \subseteq {0, e},
           (n + n) + e <= BufLen, SetLengths
    PROVE  len'[1] \in {0, n} /\ len'[2] \in {0, n} /\ elen' \in {0, e}
<1> DEFINE Used(m) == IF m = 1 THEN 0 ELSE m
<1>1. PICK a \in Lengths, b \in Lengths, c \in Elens :
        LET l1 == Max({Used(a), Used(b)})
            l2 == Min({Used(a), Used(b)})
            cut == Fit(c, BufLen)
            c1 == Fit(l1, BufLen - cut)
        IN  elen' = cut /\ len' = <<c1, Fit(l2, BufLen - cut - c1)>>
  BY DEF SetLengths
<1> DEFINE l1 == Max({Used(a), Used(b)})
           l2 == Min({Used(a), Used(b)})
           cut == Fit(c, BufLen)
           c1 == Fit(l1, BufLen - cut)
           c2 == Fit(l2, BufLen - cut - c1)
<1>2. elen' = cut /\ len' = <<c1, c2>>
  BY <1>1
<1>3. c \in {0, e} /\ Used(a) \in {0, n} /\ Used(b) \in {0, n} /\ BufLen \in Int
  BY Numbers
<1> HIDE DEF Used
<1>4. l1 \in {0, n} /\ l2 \in {0, n}
  BY <1>3, SmallOf, LargeOf
<1> HIDE DEF l1, l2
<1>5. cut \in {0, e} /\ cut \in Nat
  BY <1>3, SmallOf DEF Fit
<1> HIDE DEF cut
<1>6. BufLen - cut \in Int /\ BufLen - cut >= n + n
  BY <1>3, <1>5
<1>7. c1 = l1 /\ c1 \in {0, n}
  BY <1>4, <1>6, SmallOf DEF Fit
<1> HIDE DEF c1
<1>8. BufLen - cut - c1 \in Int /\ BufLen - cut - c1 >= n
  BY <1>3, <1>5, <1>6, <1>7
<1>9. c2 \in {0, n}
  BY <1>4, <1>8, SmallOf DEF Fit
<1> QED
  BY <1>2, <1>5, <1>7, <1>9

LEMMA OneLengthFir ==
    ASSUME NEW n \in Nat, NEW e \in Nat, OneLength(n, e), NEW v
    PROVE  LET f == Fir(v).fidx
           IN  f[1] \in Nat /\ f[2] \in Nat /\ (n > 0 => f[1] < n /\ f[2] < n)
<1>1. /\ len[1] \in {0, n} /\ len[2] \in {0, n} /\ fidx[1] \in Nat /\ fidx[2] \in Nat
      /\ n > 0 => fidx[1] < n /\ fidx[2] < n
  BY DEF OneLength
<1> DEFINE w1 == Wrap(fidx[1] + 1, len[1])
           w2 == Wrap(fidx[2] + 1, len[2])
<1>2. w1 \in Nat /\ w2 \in Nat /\ (n > 0 => w1 < n /\ w2 < n)
  BY <1>1 DEF Wrap
<1>3. Fir(v).fidx = <<w1, IF len[2] = 0 THEN fidx[2] ELSE w2>>
  BY DEF Fir, Stage1, Stage2
<1> HIDE DEF w1, w2
<1> QED
  BY <1>1, <1>2, <1>3

LEMMA OneLengthNext ==
    ASSUME NEW n \in Nat, NEW e \in Nat, Lengths \subseteq {1, n}, Elens \subseteq {0, e},
           (n + n) + e <= BufLen, OneLength(n, e), [Next]_vars
    PROVE  OneLength(n, e)' /\ [IndexFits]_vars
<1> DEFINE Kept == len' = len /\ elen' = elen /\ fidx' = fidx /\ eidx' = eidx
<1>1. ASSUME Kept PROVE OneLength(n, e)'
  BY <1>1 DEF OneLength
<1>2. ASSUME len' = len, elen' = elen PROVE IndexFits
  BY <1>2 DEF OneLength, IndexFits
<1>3. CASE UNCHANGED vars \/ Stop \/ Clear \/ Bypass \/ Restart
  <2>1. Kept
    BY <1>3 DEF vars, filter, Stop, Clear, Bypass, Restart
  <2> QED
    BY <1>1, <1>2, <2>1
<1>4. CASE SetLengths
  <2>1. len'[1] \in {0, n} /\ len'[2] \in {0, n} /\ elen' \in {0, e}
    BY <1>4, OneLengthSet
  <2>2. fidx' = fidx /\ eidx' = eidx
    BY <1>4 DEF SetLengths
  <2> QED
    BY <2>1, <2>2 DEF OneLength, IndexFits
<1>5. CASE Fill
  <2>1. fidx' = Fir(u).fidx /\ len' = len /\ elen' = elen /\ eidx' = eidx
    BY <1>5 DEF Fill
  <2>2. fidx'[1] \in Nat /\ fidx'[2] \in Nat /\ (n > 0 => fidx'[1] < n /\ fidx'[2] < n)
    BY <1>5, <2>1, OneLengthFir
  <2> QED
    BY <1>2, <2>1, <2>2 DEF OneLength
<1>6. CASE MeasSetRT
  <2>1. PICK v : FilterRT(v)
    BY <1>6 DEF MeasSetRT
  <2>2. CASE ~running
    <3>1. Kept
      BY <2>1, <2>2 DEF FilterRT, filter
    <3> QED
      BY <1>1, <1>2, <3>1
  <2>3. CASE running
    <3> DEFINE r == IF len[1] > 0 THEN Fir(v) ELSE [acc |-> acc, buf |-> buf, fidx |-> fidx, out |-> v]
    <3>1. /\ fidx' = r.fidx /\ len' = len /\ elen' = elen
          /\ eidx' = IF elen = 0 THEN eidx ELSE Wrap(eidx + 1, elen)
      BY <2>1, <2>3 DEF FilterRT
    <3>2. r.fidx[1] \in Nat /\ r.fidx[2] \in Nat /\ (n > 0 => r.fidx[1] < n /\ r.fidx[2] < n)
      BY OneLengthFir DEF OneLength
    <3> HIDE DEF r
    <3>3. eidx' \in Nat /\ (e > 0 => eidx' < e)
      BY <3>1 DEF OneLength, Wrap
    <3> QED
      BY <1>2, <3>1, <3>2, <3>3 DEF OneLength
  <2> QED
    BY <2>2, <2>3
<1> QED
  BY <1>3, <1>4, <1>5, <1>6 DEF Next

\* An index never stands beyond its stage if the stages, when used, are of one
\* length, the extrapolation too, and all fit in the buffer: with constants as
\* in MeasFilter.cfg the three theorems hold without a hypothesis.
THEOREM OneLengthFits ==
    ASSUME NEW n \in Nat, NEW e \in Nat, Lengths \subseteq {1, n}, Elens \subseteq {0, e},
           (n + n) + e <= BufLen
    PROVE  Spec => IndexesFit
<1>1. Init => OneLength(n, e)
  BY DEF Init, OneLength
<1>2. OneLength(n, e) /\ [Next]_vars => OneLength(n, e)' /\ [IndexFits]_vars
  BY OneLengthNext
<1> QED
  BY <1>1, <1>2, PTL DEF Spec, IndexesFit

====
