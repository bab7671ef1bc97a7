--------------------------- MODULE FuncRunProofs ---------------------------
(***************************************************************************)
(* Proofs about FuncRun, for any functions, play lists, windows and delays.  *)
(***************************************************************************)
EXTENDS FuncRun, TLAPS

\* What of struct ccrun decides which function comes next.
Kept == {"num", "idx", "pref", "ramps", "cycles"}
Fields == Kept \cup {"func", "sel", "armed", "origin", "end", "eco"}
Same(a, b) == Fields \subseteq DOMAIN a /\ \A k \in Kept : a[k] = b[k]
SameAll(a, b) == Fields \subseteq DOMAIN a /\ \A k \in Fields : a[k] = b[k]

ParsType == [ref : [Selectors -> Functions], list : Playlists, test : TestSels,
             window : Windows, sim : Sims]

\* Before an abort all the cycles are to be played; after one those left are
\* none: if ramps are due there is at most the one to the end, which begins by
\* leaving the present cycle.
Counts(c, cut) ==
  /\ Fields \subseteq DOMAIN c
  /\ c.idx \in Nat /\ c.num \in Nat /\ c.pref \in Nat /\ c.ramps \in {1, 2, 3}
  /\ ~cut => c.num = Len(pars.list) /\ c.cycles = Cycles(pars)
  /\ cut => c.num <= c.idx + 1 /\ (c.pref >= 1 => c.num <= c.idx)

IInv ==
  /\ now \in Nat /\ pars \in ParsType
  /\ at = "load" /\ tripped = Never => Counts(cc, aborted)

-----------------------------------------------------------------------------
(***************************************************************************)
(* The functions and dynamic economy leave the counts alone.                *)
(***************************************************************************)
LEMMA SameCounts ==
  ASSUME NEW c, NEW x, NEW cut, Counts(c, cut), Same(x, c) PROVE Counts(x, cut)
  BY DEF Counts, Same, Kept, Fields

LEMMA SameTransitive == ASSUME NEW a, NEW b, NEW c, Same(a, b), Same(b, c) PROVE Same(a, c)
  BY DEF Same

LEMMA DirectKeeps ==
  ASSUME NEW c, NEW d, NEW sel, NEW t, Fields \subseteq DOMAIN c PROVE SameAll(DirectRT(c, d, sel, t).cc, c)
<1> DEFINE f == pars.ref[sel]
           n == Len(f.time)
           d0 == IF c.seg[sel] = 0 THEN [d EXCEPT !.status = "POST"] ELSE d
           s == CHOOSE i \in c.seg[sel] .. n : (i = n \/ t < f.time[i + 1])
                                               /\ \A j \in c.seg[sel] .. (i - 1) : t >= f.time[j + 1]
           c1 == [c EXCEPT !.seg[sel] = s]
           from == t - RegPeriod(f.mode)
           c2 == IF f.ref[s + 1] = d0.next THEN c1
                 ELSE [c1 EXCEPT !.ramp = [start |-> from, end |-> from + f.ramp]]
<1> HIDE DEF s, f, d0, from, n
<1>1. SameAll(c, c) /\ SameAll(c1, c)
  BY DEF SameAll, Kept, Fields
<1>2. SameAll(c2, c)
  <2> DEFINE r == [start |-> from, end |-> from + f.ramp]
  <2> HIDE DEF r
  <2>1. SameAll([c1 EXCEPT !.ramp = r], c)
    BY DEF SameAll, Kept, Fields
  <2> QED
    BY <1>1, <2>1 DEF r
<1>3. DirectRT(c, d, sel, t).cc \in {c, c1, c2}
  BY DEF DirectRT, f, n, d0, s, from
<1> HIDE DEF c1, c2
<1> QED
  BY <1>1, <1>2, <1>3

LEMMA GenerateKeepsAll ==
  ASSUME NEW c, NEW d, NEW t, Fields \subseteq DOMAIN c PROVE SameAll(Generate(c, d, t).cc, c)
<1>1. CASE c.func.fn = "DIRECT"
  BY <1>1, DirectKeeps DEF Generate
<1>2. CASE c.func.fn # "DIRECT"
  <2>1. Generate(c, d, t).cc = c
    BY <1>2 DEF Generate
  <2> QED
    BY <2>1 DEF SameAll
<1> QED
  BY <1>1, <1>2

LEMMA GenerateKeeps ==
  ASSUME NEW c, NEW d, NEW t, Fields \subseteq DOMAIN c PROVE Same(Generate(c, d, t).cc, c)
  BY GenerateKeepsAll DEF Same, SameAll, Fields

LEMMA EcoStartKeeps ==
  ASSUME NEW c, NEW d, Fields \subseteq DOMAIN c, NEW x \in EcoStart(c, d)
  PROVE  Same(x.cc, c) /\ DOMAIN x = {"cc", "direct"}
<1> DEFINE end == pars.window[2] - c.origin + Adv(mode)
           a == Generate(c, d, end)
           y == Generate(a.cc, a.direct, end + RegPeriod(mode))
           skipped == [y.cc EXCEPT !.eco.func = c.func, !.eco.saved = None, !.eco.offset = 0]
           Taken(n) == [y.cc EXCEPT !.func = Plep,
                          !.eco = [func |-> c.func, saved |-> c.func, offset |-> end - n,
                                   log |-> @.log + 1, end |-> n]]
<1>1. Same(a.cc, c)
  BY GenerateKeeps
<1>2. Same(y.cc, a.cc)
  BY <1>1, GenerateKeeps DEF Same
<1>3. Same(y.cc, c)
  BY <1>1, <1>2, SameTransitive
<1>4. DOMAIN x = {"cc", "direct"} /\ (x.cc = skipped \/ \E n : x.cc = Taken(n))
  <2> HIDE DEF skipped, Taken
  <2>1. EcoStart(c, d) =
          { [cc |-> skipped, direct |-> y.direct] }
          \cup { [cc |-> Taken(n), direct |-> y.direct] :
                   n \in { k \in PlepTimes : end - k >= now - c.origin + Adv(mode) } }
    BY DEF EcoStart, end, a, y, skipped, Taken
  <2> HIDE DEF end, y
  <2> QED
    BY <2>1
<1> HIDE DEF y, end
<1>5. Same(skipped, y.cc)
  BY <1>3 DEF Same, Kept, Fields
<1>6. ASSUME NEW n PROVE Same(Taken(n), y.cc)
  BY <1>3 DEF Same, Kept, Fields
<1> HIDE DEF skipped, Taken
<1> QED
  BY <1>3, <1>4, <1>5, <1>6, SameTransitive

LEMMA EcoResumeKeeps ==
  ASSUME NEW x, DOMAIN x = {"cc", "direct"}, Fields \subseteq DOMAIN x.cc PROVE Same(EcoResume(x).cc, x.cc)
  BY DEF EcoResume, Same, Kept

LEMMA EconomyKeeps ==
  ASSUME NEW c, NEW d, Fields \subseteq DOMAIN c, NEW x \in DynamicEconomy(c, d) PROVE Same(x.cc, c)
<1> DEFINE here == [cc |-> c, direct |-> d]
<1>1. Same(c, c)
  BY DEF Same
<1>2. CASE x = here
  BY <1>1, <1>2
<1>3. CASE x = EcoResume(here)
  BY <1>3, EcoResumeKeeps
<1>4. ASSUME NEW y \in EcoStart(c, d), x = EcoResume(y) PROVE Same(x.cc, c)
  <2>1. Same(y.cc, c) /\ DOMAIN y = {"cc", "direct"}
    BY EcoStartKeeps
  <2>2. Same(x.cc, y.cc)
    BY <1>4, <2>1, EcoResumeKeeps DEF Same
  <2> QED
    BY <2>1, <2>2, SameTransitive
<1> QED
  BY <1>2, <1>3, <1>4 DEF DynamicEconomy

\* What an iteration finds when it has called the function, as in the actions.
LEMMA ReferenceCounts ==
  ASSUME Counts(cc, aborted), NEW x \in DynamicEconomy(cc, direct) PROVE Counts(Reference(x).cc, aborted)
<1>1. Same(x.cc, cc)
  BY EconomyKeeps DEF Counts
<1>2. Same(Reference(x).cc, x.cc)
  BY <1>1, GenerateKeeps DEF Reference, Same
<1> QED
  BY <1>1, <1>2, SameTransitive, SameCounts

-----------------------------------------------------------------------------
(***************************************************************************)
(* What is started next, and what cuts the rest.                            *)
(***************************************************************************)
LEMMA CycleSelectors ==
  ASSUME pars \in ParsType, NEW i \in 1 .. Len(pars.list) PROVE Cycles(pars)[i].sel \in Selectors
<1>1. pars.list \in Seq(Selectors) /\ pars.test \in (0 .. 2) \X (0 .. 2)
  BY ParsAssumption DEF ParsType
<1>2. pars.list[i] \in Selectors /\ pars.test[2] \in 0 .. 2 /\ DOMAIN pars.list = 1 .. Len(pars.list)
  BY <1>1
<1>3. pars.test[2] > 0 => pars.test[2] \in Selectors
  BY <1>2 DEF Selectors
<1> QED
  BY <1>2, <1>3 DEF Cycles

LEMMA RampsOfAFunction ==
  ASSUME pars \in ParsType, NEW sel \in Selectors PROVE Ramps[pars.ref[sel].prefunc] \in {1, 2, 3}
<1>1. pars.ref[sel].prefunc \in {"RAMP", "MIN", "MINMAX"}
  BY ParsAssumption DEF ParsType
<1> QED
  BY <1>1 DEF Ramps

LEMMA RampCounts ==
  ASSUME NEW c, NEW m, NEW delay, NEW n, NEW cut,
         Fields \subseteq DOMAIN c, c.idx \in Nat, c.num \in Nat, c.pref \in Nat, c.ramps \in {1, 2, 3},
         ~cut => c.num = Len(pars.list) /\ c.cycles = Cycles(pars), cut => c.num <= c.idx
  PROVE  Counts(StartRamp(c, m, delay, n).cc, cut) /\ StartRamp(c, m, delay, n).cc.func = Ramp
<1> DEFINE ramp == [start |-> delay, end |-> delay + n]
           origin == now + Adv(m) - Counter(m, now)
<1> HIDE DEF ramp, origin
<1>1. StartRamp(c, m, delay, n).cc = [c EXCEPT !.func = Ramp, !.ramp = ramp, !.origin = origin, !.pref = @ + 1]
  BY DEF StartRamp, Now, ramp, origin
<1> QED
  BY <1>1 DEF Counts, Kept, Fields

LEMMA FirstRampCounts ==
  ASSUME pars \in ParsType, NEW c, NEW m, NEW cut, Counts(c, cut), NEW s \in FirstRamp(c, m)
  PROVE  Counts(s.cc, cut) /\ s.cc.func = Ramp
<1> DEFINE i == c.idx + 1
           last == [c EXCEPT !.idx = i, !.ramps = 1]
           sel == c.cycles[i + 1].sel
           ramps == Ramps[pars.ref[sel].prefunc]
           next == [c EXCEPT !.idx = i, !.sel = sel, !.ramps = ramps]
<1>1. c.idx \in Nat /\ c.num \in Nat /\ i \in Nat
  BY DEF Counts
<1>2. CASE i >= c.num
  <2>1. s = StartRamp(last, m, StopDelay, 0)
    BY <1>2 DEF FirstRamp
  <2>2. last.idx = i /\ last.ramps = 1 /\ last.num = c.num /\ last.pref = c.pref /\ last.cycles = c.cycles
        /\ Fields \subseteq DOMAIN last
    BY DEF Counts, Kept, Fields
  <2> HIDE DEF last, i
  <2>3. Fields \subseteq DOMAIN last /\ last.idx \in Nat /\ last.num \in Nat /\ last.pref \in Nat
        /\ last.ramps \in {1, 2, 3} /\ (~cut => last.num = Len(pars.list) /\ last.cycles = Cycles(pars))
        /\ (cut => last.num <= last.idx)
    BY <1>1, <1>2, <2>2 DEF Counts
  <2> QED
    BY <2>1, <2>3, RampCounts
<1>3. CASE ~(i >= c.num)
  <2>1. PICK delay, n : s = StartRamp(next, pars.ref[sel].mode, delay, n)
    <3> HIDE DEF next, sel, i
    <3>1. FirstRamp(c, m) = { StartRamp(next, pars.ref[sel].mode, 0, d) : d \in RampTimes }
                            \cup { StartRamp(next, pars.ref[sel].mode, Plateau, 0) }
      BY <1>3 DEF FirstRamp, next, sel, i
    <3> QED
      BY <3>1
  <2>2. ~cut
    BY <1>1, <1>3 DEF Counts
  <2>3. i + 1 \in 1 .. Len(pars.list)
    BY <1>1, <1>3, <2>2 DEF Counts
  <2>4. ramps \in {1, 2, 3}
    BY <2>2, <2>3, CycleSelectors, RampsOfAFunction DEF Counts
  <2>5. next.idx = i /\ next.ramps = ramps /\ next.num = c.num /\ next.pref = c.pref /\ next.cycles = c.cycles
        /\ Fields \subseteq DOMAIN next
    <3> HIDE DEF ramps, sel
    <3> QED
      BY DEF Counts, Kept, Fields
  <2> HIDE DEF next, ramps, i, sel
  <2>6. Fields \subseteq DOMAIN next /\ next.idx \in Nat /\ next.num \in Nat /\ next.pref \in Nat
        /\ next.ramps \in {1, 2, 3} /\ next.num = Len(pars.list) /\ next.cycles = Cycles(pars)
    BY <1>1, <2>2, <2>4, <2>5 DEF Counts
  <2> QED
    BY <2>1, <2>2, <2>6, RampCounts
<1> QED
  BY <1>2, <1>3

LEMMA StartNextCounts ==
  ASSUME NEW c, NEW cut, Fields \subseteq DOMAIN c, c.idx \in Nat, c.num \in Nat,
         ~cut, c.num = Len(pars.list), c.cycles = Cycles(pars)
  PROVE  Counts(StartNext(c).cc, cut)
<1> DEFINE f == pars.ref[c.sel]
           func == FunctionOf(c.sel)
           seg(e) == IF f.fn = "DIRECT" THEN 0 ELSE e
           origin == now + RunDelay
           end == now + RunDelay + f.end
<1>1. StartNext(c).cc =
        [c EXCEPT !.func = func, !.origin = origin, !.end = end, !.pref = 0, !.ramps = 1,
                  !.eco.func = None, !.eco.offset = 0, !.seg[c.sel] = seg(@)]
  BY DEF StartNext, Now
<1> HIDE DEF func, seg, origin, end
<1> QED
  BY <1>1 DEF Counts, Kept, Fields

\* Any function or ramp that is started keeps the counts, and after an abort what is
\* started is a ramp.
LEMMA StartCounts ==
  ASSUME pars \in ParsType, NEW c, NEW m, NEW cut, Counts(c, cut), NEW s \in StartFunction(c, m)
  PROVE  Counts(s.cc, cut) /\ (cut => s.cc.func = Ramp)
<1>1. CASE c.pref < c.ramps /\ c.pref = 0
  <2>1. s \in FirstRamp(c, m)
    BY <1>1 DEF StartFunction
  <2> QED
    BY <2>1, FirstRampCounts
<1>2. CASE c.pref < c.ramps /\ c.pref # 0
  <2>1. PICK n : s = StartRamp(c, m, Plateau, n)
    BY <1>2 DEF StartFunction, NextRamp
  <2>2. cut => c.num <= c.idx
    BY <1>2 DEF Counts
  <2> QED
    BY <2>1, <2>2, RampCounts DEF Counts
<1>3. CASE ~(c.pref < c.ramps)
  <2>1. s = StartNext(c) /\ c.idx < c.num
    BY <1>3 DEF StartFunction, Counts
  <2>2. ~cut
    BY <1>3, <2>1 DEF Counts
  <2>3. Counts(StartNext(c).cc, cut)
    BY <2>2, StartNextCounts DEF Counts
  <2> QED
    BY <2>1, <2>2, <2>3
<1> QED
  BY <1>1, <1>2, <1>3

\* An abort cuts the count at the present cycle, which the ramps have left.
LEMMA AbortCounts ==
  ASSUME NEW c, NEW n, Counts(c, FALSE) PROVE Counts(Abort(c, n), TRUE)
<1> DEFINE num == IF c.pref = 0 THEN c.idx + 1 ELSE c.idx
           ramp == [start |-> 0, end |-> n]
           origin == now + Adv(mode)
<1>1. num \in Nat /\ num <= c.idx + 1
  BY DEF Counts
<1>2. Abort(c, n) = [c EXCEPT !.ramp = ramp, !.origin = origin, !.func = Ramp, !.num = num, !.pref = 0]
  BY DEF Abort
<1> HIDE DEF num, ramp, origin
<1> QED
  BY <1>1, <1>2 DEF Counts, Kept, Fields

-----------------------------------------------------------------------------
(***************************************************************************)
(* The invariant.                                                           *)
(***************************************************************************)
LEMMA InitInvariant == Init => IInv
  BY DEF Init, IInv, ParsType

\* An iteration without a trip leaves what its action computed.
LEMMA TripCounts ==
  ASSUME now \in Nat, NEW c, NEW m, TripOrNot(c, m), tripped = Never
  PROVE  now' \in Nat /\ (tripped' = Never => cc' = c)
  BY DEF TripOrNot, Never

LEMMA StepInvariant == IInv /\ [Next]_vars => IInv'
<1> SUFFICES ASSUME IInv, [Next]_vars PROVE IInv'
  OBVIOUS
<1>1. pars' = pars
  BY DEF Next, Iteration, vars, Run, Hold, Continue, AbortFunction, FinishFunction, AfterTrip, Forward, Reverse
<1> SUFFICES now' \in Nat /\ (at' = "load" /\ tripped' = Never => Counts(cc', aborted'))
  BY <1>1 DEF IInv, ParsType, Counts, Cycles
<1>2. CASE Run
  <2> DEFINE c == [InitFunctions(pars) EXCEPT !.sel = Cycles(pars)[1].sel]
             start == StartNext(c)
             end == RunDelay + pars.ref[c.sel].end
  <2>1. now' = 0
    BY <1>2 DEF Run
  <2>2. SUFFICES ASSUME at' = "load" PROVE Counts(cc', aborted')
    BY <2>1
  <2>3. aborted' = FALSE /\ cc' = [start.cc EXCEPT !.origin = RunDelay, !.end = end]
    <3> HIDE DEF start, end
    <3>1. ~Refused(pars) /\ pars.sim = "load"
      BY <1>2, <2>2 DEF Run
    <3> QED
      BY <1>2, <3>1 DEF Run, c, start, end
  <2>4. Len(pars.list) \in Nat
    BY ParsAssumption DEF IInv, ParsType
  <2>5. Fields \subseteq DOMAIN c /\ c.idx = 0 /\ c.num = Len(pars.list) /\ c.cycles = Cycles(pars)
    BY DEF InitFunctions, Zeroed, Fields, Kept
  <2> HIDE DEF c
  <2>6. Counts(StartNext(c).cc, FALSE)
    <3>1. c.idx \in Nat /\ c.num \in Nat
      BY <2>4, <2>5
    <3> QED
      BY <2>5, <3>1, StartNextCounts
  <2> HIDE DEF end
  <2>7. Same(cc', start.cc)
    BY <2>3, <2>6 DEF Same, Counts, Kept, Fields
  <2> QED
    BY <2>3, <2>6, <2>7, SameCounts
<1>3. CASE Hold
  <2>1. now' \in Nat /\ (tripped' = Never => cc' = cc)
    BY <1>3, TripCounts DEF Hold, IInv
  <2> QED
    BY <1>3, <2>1 DEF Hold, IInv
<1>4. CASE Continue
  <2>1. PICK x \in DynamicEconomy(cc, direct) : TripOrNot(Reference(x).cc, mode)
    BY <1>4 DEF Continue
  <2>2. Counts(Reference(x).cc, aborted)
    BY <1>4, ReferenceCounts DEF Continue, IInv
  <2>3. now' \in Nat /\ (tripped' = Never => cc' = Reference(x).cc)
    BY <1>4, <2>1, TripCounts DEF Continue, IInv
  <2> QED
    BY <1>4, <2>2, <2>3 DEF Continue
<1>5. CASE AbortFunction
  <2>1. PICK x \in DynamicEconomy(cc, direct) :
          \/ \E n \in RampTimes : TripOrNot(Abort(Reference(x).cc, n), mode)
          \/ at' = "end" /\ now' = now
    BY <1>5 DEF AbortFunction
  <2>2. Counts(Reference(x).cc, FALSE)
    <3>1. Counts(Reference(x).cc, aborted)
      BY <1>5, ReferenceCounts DEF AbortFunction, IInv
    <3> QED
      BY <1>5, <3>1 DEF AbortFunction, Counts
  <2>3. ASSUME NEW n \in RampTimes, TripOrNot(Abort(Reference(x).cc, n), mode)
        PROVE  now' \in Nat /\ (tripped' = Never => Counts(cc', aborted'))
    <3>1. now' \in Nat /\ (tripped' = Never => cc' = Abort(Reference(x).cc, n))
      BY <1>5, <2>3, TripCounts DEF AbortFunction, IInv
    <3>2. aborted' = TRUE
      BY <1>5 DEF AbortFunction
    <3> QED
      BY <2>2, <3>1, <3>2, AbortCounts
  <2> QED
    BY <2>1, <2>3 DEF IInv
<1>6. CASE FinishFunction
  <2>1. PICK x \in DynamicEconomy(cc, direct) :
          \/ at' = "end" /\ now' = now
          \/ \E s \in StartFunction(Reference(x).cc, mode) : TripOrNot(s.cc, s.mode)
    BY <1>6 DEF FinishFunction
  <2>2. Counts(Reference(x).cc, aborted)
    BY <1>6, ReferenceCounts DEF FinishFunction, IInv
  <2>3. ASSUME NEW s \in StartFunction(Reference(x).cc, mode), TripOrNot(s.cc, s.mode)
        PROVE  now' \in Nat /\ (tripped' = Never => Counts(cc', aborted'))
    <3>1. now' \in Nat /\ (tripped' = Never => cc' = s.cc)
      BY <1>6, <2>3, TripCounts DEF FinishFunction, IInv
    <3>2. aborted' = aborted
      BY <1>6 DEF FinishFunction
    <3> QED
      BY <2>2, <2>3, <3>1, <3>2, StartCounts DEF IInv
  <2> QED
    BY <2>1, <2>3 DEF IInv
<1>7. CASE AfterTrip
  BY <1>7 DEF AfterTrip, IInv
<1>8. CASE Forward
  <2>1. now' \in {now, now + 1}
    BY <1>8 DEF Forward
  <2>2. at' \in {"forward", "end"}
    BY <1>8 DEF Forward
  <2> QED
    BY <2>1, <2>2 DEF IInv
<1>9. CASE Reverse
  <2>1. now' \in {now, now + 1} /\ at' \in {"reverse", "end"}
    BY <1>9 DEF Reverse
  <2> QED
    BY <2>1 DEF IInv
<1>10. CASE UNCHANGED vars
  BY <1>10 DEF vars, IInv
<1> QED
  BY <1>2, <1>3, <1>4, <1>5, <1>6, <1>7, <1>8, <1>9, <1>10 DEF Next, Iteration

-----------------------------------------------------------------------------
(***************************************************************************)
(* No function after an abort or a trip.                                    *)
(***************************************************************************)
LEMMA NoFunctionAfter ==
  ASSUME IInv, [Next]_vars, at = "load", at' = "load", aborted \/ tripped # Never PROVE played' = played
<1>1. CASE tripped # Never
  BY <1>1 DEF Next, Iteration, vars, Run, Hold, Continue, AbortFunction, FinishFunction, AfterTrip, Forward, Reverse
<1>2. CASE tripped = Never /\ FinishFunction
  <2>1. PICK x \in DynamicEconomy(cc, direct) :
          \E s \in StartFunction(Reference(x).cc, mode) :
             played' = IF s.cc.func = Ramp THEN played ELSE Append(played, s.cc.idx)
    BY <1>2 DEF FinishFunction
  <2>2. Counts(Reference(x).cc, aborted)
    BY <1>2, ReferenceCounts DEF IInv
  <2> QED
    BY <1>2, <2>1, <2>2, StartCounts DEF IInv
<1>3. CASE ~FinishFunction
  BY <1>3 DEF Next, Iteration, vars, Run, Hold, Continue, AbortFunction, AfterTrip, Forward, Reverse
<1> QED
  BY <1>1, <1>2, <1>3

\* CancelsRest, for any functions, play lists, windows of dynamic economy and delays: after
\* an abort or a trip, whenever they come, ccrun starts no other function.
THEOREM CancelsRestHolds == Spec => CancelsRest
<1>1. IInv /\ [Next]_vars
      => [ at = "load" /\ at' = "load" /\ (aborted \/ tripped # Never) => played' = played ]_vars
  BY NoFunctionAfter
<1> QED
  BY <1>1, InitInvariant, StepInvariant, PTL DEF Spec, CancelsRest

-----------------------------------------------------------------------------
(***************************************************************************)
(* Regulation periods.                                                      *)
(***************************************************************************)
LEMMA Division ==
    ASSUME NEW n \in Nat, NEW p \in Nat \ {0}
    PROVE  (n % p) \in 0 .. p - 1 /\ n = p * (n \div p) + (n % p) /\ n \div p \in Nat
  OBVIOUS

LEMMA AtLeastOne == ASSUME NEW p \in Nat \ {0}, NEW k \in Int, k >= 1 PROVE p * k >= p
  OBVIOUS

\* A quotient and a remainder below p are those of the division by p.
LEMMA Remainder ==
    ASSUME NEW p \in Nat \ {0}, NEW q \in Nat, NEW r \in 0 .. p - 1
    PROVE  (p * q + r) % p = r
<1> DEFINE n == p * q + r
           Q == n \div p
           R == n % p
<1>1. n \in Nat
  OBVIOUS
<1>2. R \in 0 .. p - 1 /\ n = p * Q + R /\ Q \in Nat
  BY <1>1, Division
<1>3. CASE Q = q
  BY <1>2, <1>3
<1>4. CASE Q > q
  <2>1. p * (Q - q) >= p
    BY <1>2, <1>4, AtLeastOne
  <2>2. p * (Q - q) = p * Q - p * q
    BY <1>2
  <2> HIDE DEF Q, R
  <2> QED
    BY <1>2, <2>1, <2>2
<1>5. CASE Q < q
  <2>1. p * (q - Q) >= p
    BY <1>2, <1>5, AtLeastOne
  <2>2. p * (q - Q) = p * q - p * Q
    BY <1>2
  <2> HIDE DEF Q, R
  <2> QED
    BY <1>2, <2>1, <2>2
<1> QED
  BY <1>2, <1>3, <1>4, <1>5

LEMMA Small == ASSUME NEW p \in Nat \ {0}, NEW r \in 0 .. p - 1 PROVE r % p = r
<1>1. p * 0 + r = r
  OBVIOUS
<1> QED
  BY <1>1, Remainder

LEMMA Periods ==
  ASSUME NEW m PROVE RegPeriod(m) \in 1 .. Period /\ Adv(m) \in Nat
BY RunAssumption DEF RegPeriod, Adv

\* The last iteration before t that began a regulation period.
LastCall(t, m) == IF Counter(m, t) = 0 THEN t - RegPeriod(m) ELSE t - Counter(m, t)

LEMMA LastCallNext ==
  ASSUME NEW t \in Nat, NEW m
  PROVE  LastCall(t + 1, m) = IF Counter(m, t) = 0 THEN t ELSE LastCall(t, m)
<1> DEFINE p == RegPeriod(m)
           q == t \div p
           c == t % p
<1>1. p \in Nat \ {0} BY RunAssumption, Periods
<1> HIDE DEF p
<1>2. c \in 0 .. p - 1 /\ t = p * q + c /\ q \in Nat BY <1>1, Division
<1> HIDE DEF q, c
<1>3. (t + 1) % p = IF c + 1 = p THEN 0 ELSE c + 1
  <2>1. CASE c + 1 = p
    <3>1. t + 1 = p * (q + 1) + 0 BY <1>1, <1>2, <2>1
    <3>2. (p * (q + 1) + 0) % p = 0 BY <1>1, <1>2, Remainder
    <3> QED BY <2>1, <3>1, <3>2
  <2>2. CASE c + 1 # p
    <3>1. t + 1 = p * q + (c + 1) BY <1>1, <1>2
    <3>2. c + 1 \in 0 .. p - 1 BY <1>1, <1>2, <2>2
    <3>3. (p * q + (c + 1)) % p = c + 1 BY <1>1, <1>2, <3>2, Remainder
    <3> QED BY <2>2, <3>1, <3>3
  <2> QED BY <2>1, <2>2
<1>4. Counter(m, t) = c /\ Counter(m, t + 1) = (t + 1) % p BY DEF Counter, p, c
<1> QED BY <1>1, <1>2, <1>3, <1>4 DEF LastCall, p

LEMMA LastCallBound ==
  ASSUME NEW t \in Nat, NEW m
  PROVE  LastCall(t, m) \in Int /\ t <= LastCall(t, m) + Period
<1>1. RegPeriod(m) \in Nat \ {0} /\ RegPeriod(m) <= Period /\ Period \in Nat
  BY RunAssumption, Periods
<1>2. Counter(m, t) \in 0 .. RegPeriod(m) - 1
  <2> DEFINE p == RegPeriod(m)
  <2>1. t % p \in 0 .. p - 1
    <3> HIDE DEF p
    <3>1. p \in Nat \ {0} BY <1>1 DEF p
    <3> QED BY <3>1, Division
  <2> QED BY <2>1 DEF Counter
<1> QED BY <1>1, <1>2 DEF LastCall

-----------------------------------------------------------------------------
(***************************************************************************)
(* Dynamic economy: what an iteration leaves of the function and the plep.  *)
(***************************************************************************)
EcoFields == {"func", "saved", "offset", "log", "end"}
Shape(c) == Fields \subseteq DOMAIN c /\ EcoFields \subseteq DOMAIN c.eco

\* All but the function and dynamic economy is as before.
Other == Fields \ {"func", "eco"}
SameOther(a, b) == Shape(a) /\ \A k \in Other : a[k] = b[k]

\* The PLEP is not entered here, and not left.
NotMoved(a, c) ==
  /\ a.func = c.func /\ a.eco.func = c.eco.func /\ a.eco.saved = c.eco.saved
  /\ a.eco.log = c.eco.log
  /\ \/ pars.window[1] = 0
     \/ EcoOff(c)
     \/ c.eco.func # None /\ (c.eco.saved = None \/ now < pars.window[2])

\* The window begins: the PLEP is skipped, or entered, or entered and left at once.
Moved(a, c) ==
  /\ pars.window[1] # 0 /\ ~EcoOff(c) /\ c.eco.func = None
  /\ a.eco.func = c.func
  /\ \/ a.func = c.func /\ a.eco.saved = None /\ a.eco.log = c.eco.log
     \/ a.func = Plep /\ a.eco.saved = c.func /\ a.eco.log = c.eco.log + 1
        /\ (c.func = None \/ now < pars.window[2])
     \/ a.func = c.func /\ a.eco.saved = None /\ a.eco.log = c.eco.log + 2

\* The window is over and the PLEP is left.
Resumed(a, c) ==
  /\ c.eco.saved # None
  /\ a.func = c.eco.func /\ a.eco.func = c.eco.func /\ a.eco.saved = None
  /\ a.eco.log = c.eco.log + 1
Left(a, c) == ~EcoOff(c) /\ Resumed(a, c)

LEMMA ResumeIs ==
  ASSUME NEW x, DOMAIN x = {"cc", "direct"}, Shape(x.cc), x.cc.eco.log \in Nat
  PROVE  /\ SameOther(EcoResume(x).cc, x.cc)
         /\ \/ /\ EcoResume(x) = x
               /\ x.cc.eco.saved = None \/ now < pars.window[2]
            \/ Resumed(EcoResume(x).cc, x.cc)
<1>1. CASE x.cc.eco.saved = None \/ now < pars.window[2]
  <2>1. EcoResume(x) = x BY <1>1 DEF EcoResume
  <2> QED BY <1>1, <2>1 DEF SameOther
<1>2. CASE ~(x.cc.eco.saved = None \/ now < pars.window[2])
  <2> DEFINE y == EcoResume(x)
  <2>1. y = [x EXCEPT !.cc.func = x.cc.eco.func,
                      !.cc.eco.saved = None, !.cc.eco.offset = 0, !.cc.eco.log = @ + 1]
    BY <1>2 DEF EcoResume
  <2> HIDE DEF y
  <2> DEFINE c == x.cc
             d == [c EXCEPT !.func = c.eco.func,
                            !.eco.saved = None, !.eco.offset = 0, !.eco.log = @ + 1]
  <2>2. y.cc = d BY <2>1
  <2>3. SameOther(d, c) /\ Resumed(d, c)
    <3> HIDE DEF c
    <3>1. Shape(c) BY DEF c
    <3>2. c.eco.saved # None BY <1>2 DEF c
    <3>3. d.func = c.eco.func /\ d.eco.func = c.eco.func /\ d.eco.saved = None
          /\ d.eco.log = c.eco.log + 1
      BY <3>1 DEF Shape, Fields, EcoFields
    <3>4. Shape(d) BY <3>1 DEF Shape, Fields, EcoFields, Kept
    <3>5. \A k \in Other : d[k] = c[k] BY <3>1 DEF Shape, Other, Fields, Kept
    <3> QED BY <3>2, <3>3, <3>4, <3>5 DEF SameOther, Resumed
  <2> QED BY <2>2, <2>3 DEF y
<1> QED BY <1>1, <1>2

LEMMA EcoStartIs ==
  ASSUME NEW c, NEW d, Shape(c), c.eco.log \in Nat, NEW x \in EcoStart(c, d)
  PROVE  /\ DOMAIN x = {"cc", "direct"} /\ SameOther(x.cc, c) /\ x.cc.eco.func = c.func
         /\ \/ x.cc.func = c.func /\ x.cc.eco.saved = None /\ x.cc.eco.log = c.eco.log
            \/ x.cc.func = Plep /\ x.cc.eco.saved = c.func /\ x.cc.eco.log = c.eco.log + 1
<1> DEFINE end == pars.window[2] - c.origin + Adv(mode)
           a == Generate(c, d, end)
           y == Generate(a.cc, a.direct, end + RegPeriod(mode))
           z == y.cc
           skipped == [z EXCEPT !.eco.func = c.func, !.eco.saved = None, !.eco.offset = 0]
           Taken(n) == [z EXCEPT !.func = Plep,
                          !.eco = [func |-> c.func, saved |-> c.func, offset |-> end - n,
                                   log |-> @.log + 1, end |-> n]]
<1>1. Fields \subseteq DOMAIN c BY DEF Shape
<1>2. SameAll(a.cc, c) BY <1>1, GenerateKeepsAll
<1>3. SameAll(y.cc, a.cc) BY <1>2, GenerateKeepsAll DEF SameAll
<1>4. SameAll(z, c) BY <1>2, <1>3 DEF SameAll
<1>5. DOMAIN x = {"cc", "direct"} /\ (x.cc = skipped \/ \E n : x.cc = Taken(n))
  <2> HIDE DEF skipped, Taken
  <2>1. EcoStart(c, d) =
          { [cc |-> skipped, direct |-> y.direct] }
          \cup { [cc |-> Taken(n), direct |-> y.direct] :
                   n \in { k \in PlepTimes : end - k >= now - c.origin + Adv(mode) } }
    BY DEF EcoStart, end, a, y, z, skipped, Taken
  <2> HIDE DEF end, y
  <2> QED BY <2>1
<1> HIDE DEF z, end
<1>6. Shape(z) /\ z.eco = c.eco /\ z.func = c.func /\ \A k \in Other : z[k] = c[k]
  BY <1>4 DEF SameAll, Shape, Fields, Other
<1>7. /\ SameOther(skipped, c) /\ skipped.eco.func = c.func /\ skipped.func = c.func
      /\ skipped.eco.saved = None /\ skipped.eco.log = c.eco.log
  <2>1. /\ skipped.eco.func = c.func /\ skipped.func = c.func
        /\ skipped.eco.saved = None /\ skipped.eco.log = c.eco.log
    BY <1>6 DEF Shape, Fields, EcoFields, Kept
  <2>2. Shape(skipped) BY <1>6 DEF Shape, Fields, EcoFields, Kept
  <2>3. \A k \in Other : skipped[k] = z[k] BY <1>6 DEF Shape, Other, Fields, Kept
  <2> QED BY <1>6, <2>1, <2>2, <2>3 DEF SameOther
<1>8. ASSUME NEW n
      PROVE  /\ SameOther(Taken(n), c) /\ Taken(n).eco.func = c.func /\ Taken(n).func = Plep
             /\ Taken(n).eco.saved = c.func /\ Taken(n).eco.log = c.eco.log + 1
  <2> DEFINE e == [func |-> c.func, saved |-> c.func, offset |-> end - n,
                   log |-> z.eco.log + 1, end |-> n]
             w == [z EXCEPT !.func = Plep, !.eco = e]
  <2>1. Taken(n) = w OBVIOUS
  <2>2. e.func = c.func /\ e.saved = c.func /\ e.log = c.eco.log + 1 /\ EcoFields \subseteq DOMAIN e
    BY <1>6 DEF EcoFields
  <2> HIDE DEF e, Taken
  <2>3. w.func = Plep /\ w.eco = e /\ Fields \subseteq DOMAIN w
    BY <1>6 DEF Shape, Fields, Kept
  <2>4. \A k \in Other : w[k] = z[k] BY <1>6 DEF Shape, Other, Fields, Kept
  <2> HIDE DEF w
  <2>5. Shape(w) BY <2>2, <2>3 DEF Shape
  <2> QED BY <1>6, <2>1, <2>2, <2>3, <2>4, <2>5 DEF SameOther
<1> HIDE DEF skipped, Taken
<1> QED BY <1>5, <1>7, <1>8

LEMMA EconomyIs ==
  ASSUME NEW c, NEW d, Shape(c), c.eco.log \in Nat, NEW x \in DynamicEconomy(c, d)
  PROVE  SameOther(x.cc, c) /\ (NotMoved(x.cc, c) \/ Moved(x.cc, c) \/ Left(x.cc, c))
<1> DEFINE here == [cc |-> c, direct |-> d]
<1>1. SameOther(c, c) BY DEF SameOther
<1>2. CASE pars.window[1] = 0 \/ EcoOff(c)
  <2>1. x = here BY <1>2 DEF DynamicEconomy
  <2>2. x.cc = c BY <2>1
  <2>3. NotMoved(c, c) BY <1>2 DEF NotMoved
  <2> QED BY <1>1, <2>2, <2>3
<1>3. CASE ~(pars.window[1] = 0 \/ EcoOff(c)) /\ c.eco.func # None
  <2>1. x = EcoResume(here) BY <1>3 DEF DynamicEconomy
  <2>2. here.cc = c /\ DOMAIN here = {"cc", "direct"} OBVIOUS
  <2> HIDE DEF here
  <2>3. SameOther(x.cc, c) /\ (\/ x = here /\ (c.eco.saved = None \/ now < pars.window[2])
                               \/ Resumed(x.cc, c))
    BY <2>1, <2>2, ResumeIs
  <2> QED BY <1>3, <2>2, <2>3 DEF NotMoved, Left
<1>4. CASE ~(pars.window[1] = 0 \/ EcoOff(c)) /\ c.eco.func = None
  <2>1. PICK y \in EcoStart(c, d) : x = EcoResume(y) BY <1>4 DEF DynamicEconomy
  <2>2. /\ DOMAIN y = {"cc", "direct"} /\ SameOther(y.cc, c) /\ y.cc.eco.func = c.func
        /\ \/ y.cc.func = c.func /\ y.cc.eco.saved = None /\ y.cc.eco.log = c.eco.log
           \/ y.cc.func = Plep /\ y.cc.eco.saved = c.func /\ y.cc.eco.log = c.eco.log + 1
    BY EcoStartIs
  <2>3. y.cc.eco.log \in Nat /\ Shape(y.cc) BY <2>2 DEF SameOther
  <2>4. /\ SameOther(x.cc, y.cc)
        /\ \/ x = y /\ (y.cc.eco.saved = None \/ now < pars.window[2])
           \/ Resumed(x.cc, y.cc)
    BY <2>1, <2>2, <2>3, ResumeIs
  <2>5. SameOther(x.cc, c) BY <2>2, <2>4 DEF SameOther
  <2>6. Moved(x.cc, c)
    <3>1. CASE x = y /\ (y.cc.eco.saved = None \/ now < pars.window[2])
      BY <1>4, <2>2, <3>1 DEF Moved
    <3>2. CASE Resumed(x.cc, y.cc)
      BY <1>4, <2>2, <3>2 DEF Moved, Resumed
    <3> QED BY <2>4, <3>1, <3>2
  <2> QED BY <2>5, <2>6
<1> QED BY <1>2, <1>3, <1>4

-----------------------------------------------------------------------------
(***************************************************************************)
(* The state of a run between two iterations.  t is the time of the next,   *)
(* m the mode it finds, cut tells an abort, n counts the functions started.  *)
(***************************************************************************)
CcTyped(c) ==
  /\ Shape(c) /\ c.idx \in Nat /\ c.pref \in Nat /\ c.ramps \in Nat /\ c.pref <= c.ramps
  /\ c.armed \subseteq Selectors /\ c.eco.log \in Nat

DirectTyped(d) == "status" \in DOMAIN d /\ d.status \in {"PRE", "DURING", "POST"}

PlayingOf(c) == IF c.func = Plep THEN c.eco.func.of ELSE c.func.of
ArmedBy(p) == { Cycles(p)[i].sel : i \in DOMAIN p.list }

\* What plays is the function of the present cycle, in its own mode.
Plays(c, m) ==
  /\ c.cycles = Cycles(pars) /\ c.armed = ArmedBy(pars)
  /\ c.idx < c.num => c.sel = c.cycles[c.idx + 1].sel
  /\ PlayingOf(c) # 0 => /\ PlayingOf(c) = c.cycles[c.idx + 1].sel
                         /\ PlayingOf(c) \in c.armed
                         /\ m = pars.ref[PlayingOf(c)].mode

\* The times the economy of this function may still be logged.
LogLeft(c) == IF c.eco.func = None THEN 2 ELSE IF c.eco.saved # None THEN 1 ELSE 0

\* While the PLEP runs its window is not over, nor was it when last asked, and
\* nothing else prevents dynamic economy from leaving it.
Economy(c, m, t, n) ==
  /\ c.origin \in Int /\ c.end \in Int
  /\ c.eco.saved # None <=> c.func = Plep
  /\ c.func = Plep => /\ c.eco.func.of \in Selectors /\ c.eco.saved = c.eco.func
                      /\ c.pref = 0 /\ pars.window[1] # 0 /\ pars.window[2] <= c.end
                      /\ t - c.origin + Adv(m) >= pars.window[1]
                      /\ LastCall(t, m) < pars.window[2]
  /\ c.func # Ramp /\ c.func # Plep => c.func.of \in Selectors
  /\ c.eco.log + LogLeft(c) <= 2 * n

State(c, m, t, cut, n) ==
  /\ CcTyped(c) /\ c.eco.log <= 2 * n
  /\ cut => c.func = Ramp
  /\ ~cut => Plays(c, m) /\ Economy(c, m, t, n)

\* A PLEP whose window ends neither before the next iteration nor after the function.
InWindow(c) == c.func = Plep => now < pars.window[2] /\ pars.window[2] <= c.end

LEMMA Distinct ==
  /\ Plep # Ramp /\ None # Plep /\ None # Ramp
  /\ \A f : f.of \in Selectors => f # None /\ f # Ramp /\ f # Plep
  /\ \A s : FunctionOf(s).of = s
  /\ Plep.of = 0 /\ Ramp.of = 0 /\ None.of = 0 /\ Ramp.fn = "RAMP" /\ Plep.fn = "PLEP"
<1>1. Plep # Ramp /\ None # Plep /\ None # Ramp BY DEF Plep, Ramp, None
<1>2. Plep.of = 0 /\ Ramp.of = 0 /\ None.of = 0 /\ Ramp.fn = "RAMP" /\ Plep.fn = "PLEP" BY DEF Plep, Ramp, None
<1>3. \A f : f.of \in Selectors => f.of # 0 BY DEF Selectors
<1>4. \A s : FunctionOf(s).of = s BY DEF FunctionOf
<1> QED BY <1>1, <1>2, <1>3, <1>4

LEMMA WindowType == ASSUME pars \in ParsType PROVE pars.window[1] \in Nat /\ pars.window[2] \in Nat
<1>1. pars.window \in Nat \X Nat BY ParsAssumption DEF ParsType
<1> QED BY <1>1

\* A step that leaves the fields alone leaves the state alone.
LEMMA SameState ==
  ASSUME NEW a, NEW c, NEW m, NEW t, NEW cut, NEW n, State(c, m, t, cut, n), SameAll(a, c)
  PROVE  State(a, m, t, cut, n) /\ a.func = c.func /\ a.end = c.end
<1>1. /\ a.func = c.func /\ a.sel = c.sel /\ a.armed = c.armed /\ a.origin = c.origin /\ a.end = c.end
      /\ a.eco = c.eco /\ a.num = c.num /\ a.idx = c.idx /\ a.pref = c.pref /\ a.ramps = c.ramps
      /\ a.cycles = c.cycles /\ Fields \subseteq DOMAIN a
  BY DEF SameAll, Fields, Kept
<1>2. CcTyped(a) /\ a.eco.log <= 2 * n BY <1>1 DEF State, CcTyped, Shape
<1>3. PlayingOf(a) = PlayingOf(c) BY <1>1 DEF PlayingOf
<1>4. Plays(c, m) => Plays(a, m) BY <1>1, <1>3 DEF Plays
<1>5. LogLeft(a) = LogLeft(c) BY <1>1 DEF LogLeft
<1>6. Economy(c, m, t, n) => Economy(a, m, t, n) BY <1>1, <1>5 DEF Economy
<1> QED BY <1>1, <1>2, <1>4, <1>6 DEF State

LEMMA StatusIs == ASSUME NEW a, NEW b, NEW t PROVE Status(a, b, t) \in {"PRE", "DURING", "POST"}
BY DEF Status

LEMMA GenerateDirect ==
  ASSUME NEW c, NEW d, NEW t, DirectTyped(d) PROVE DirectTyped(Generate(c, d, t).direct)
<1>1. ASSUME NEW sel PROVE DirectTyped(DirectRT(c, d, sel, t).direct)
  <2> DEFINE f == pars.ref[sel]
             len == Len(f.time)
             d0 == IF c.seg[sel] = 0 THEN [d EXCEPT !.status = "POST"] ELSE d
             s == CHOOSE i \in c.seg[sel] .. len : (i = len \/ t < f.time[i + 1])
                                                 /\ \A j \in c.seg[sel] .. (i - 1) : t >= f.time[j + 1]
             c1 == [c EXCEPT !.seg[sel] = s]
             from == t - RegPeriod(f.mode)
             c2 == IF f.ref[s + 1] = d0.next THEN c1
                   ELSE [c1 EXCEPT !.ramp = [start |-> from, end |-> from + f.ramp]]
             st == Status(c2.ramp.start, c2.ramp.end, t)
             d1 == [next |-> f.ref[s + 1], status |-> st]
  <2>1. DirectRT(c, d, sel, t).direct \in {d, d0, d1}
    <3> HIDE DEF s, f, from, len, d0, c2, st
    <3>1. DirectRT(c, d, sel, t) =
            IF t < 0 THEN [cc |-> c, direct |-> d, status |-> "PRE"]
            ELSE IF s = len THEN [cc |-> c1, direct |-> d0, status |-> d0.status]
            ELSE [cc |-> c2, status |-> "DURING", direct |-> d1]
      BY DEF DirectRT, f, len, d0, s, from, c2, st
    <3> HIDE DEF c1, d1
    <3> QED BY <3>1
  <2>2. DirectTyped(d0) BY DEF DirectTyped
  <2>3. DirectTyped(d1)
    <3>1. st \in {"PRE", "DURING", "POST"} BY StatusIs
    <3> HIDE DEF st, s, f
    <3> QED BY <3>1 DEF DirectTyped
  <2> HIDE DEF d0, d1
  <2> QED BY <2>1, <2>2, <2>3
<1>2. CASE c.func.fn = "DIRECT"
  BY <1>1, <1>2 DEF Generate
<1>3. CASE c.func.fn # "DIRECT"
  <2>1. Generate(c, d, t).direct = d BY <1>3 DEF Generate
  <2> QED BY <2>1
<1> QED BY <1>2, <1>3

LEMMA EconomyDirect ==
  ASSUME NEW c, NEW d, DirectTyped(d), NEW x \in DynamicEconomy(c, d) PROVE DirectTyped(x.direct)
<1> DEFINE here == [cc |-> c, direct |-> d]
<1>1. ASSUME NEW y PROVE EcoResume(y).direct = y.direct
  BY DEF EcoResume
<1>2. ASSUME NEW y \in EcoStart(c, d) PROVE DirectTyped(y.direct)
  <2> DEFINE end == pars.window[2] - c.origin + Adv(mode)
             a == Generate(c, d, end)
             z == Generate(a.cc, a.direct, end + RegPeriod(mode))
  <2>1. DirectTyped(a.direct) BY GenerateDirect
  <2>2. DirectTyped(z.direct)
    <3> HIDE DEF a, end
    <3> QED BY <2>1, GenerateDirect
  <2> DEFINE skipped == [z.cc EXCEPT !.eco.func = c.func, !.eco.saved = None, !.eco.offset = 0]
             Taken(k) == [z.cc EXCEPT !.func = Plep,
                            !.eco = [func |-> c.func, saved |-> c.func, offset |-> end - k,
                                     log |-> @.log + 1, end |-> k]]
  <2>3. y.direct = z.direct
    <3> HIDE DEF skipped, Taken
    <3>1. EcoStart(c, d) =
            { [cc |-> skipped, direct |-> z.direct] }
            \cup { [cc |-> Taken(k), direct |-> z.direct] :
                     k \in { j \in PlepTimes : end - j >= now - c.origin + Adv(mode) } }
      BY DEF EcoStart, end, a, z, skipped, Taken
    <3> HIDE DEF end, z
    <3> QED BY <3>1
  <2> QED BY <2>2, <2>3
<1>3. here.direct = d OBVIOUS
<1>4. \/ x = here
      \/ x = EcoResume(here)
      \/ \E y \in EcoStart(c, d) : x = EcoResume(y)
  BY DEF DynamicEconomy
<1> HIDE DEF here
<1> QED BY <1>1, <1>2, <1>3, <1>4

-----------------------------------------------------------------------------
(***************************************************************************)
(* What the steps of a run make of its state.                               *)
(***************************************************************************)
\* While the PLEP runs, dynamic economy is asked, and the window has not ended before.
LEMMA PlepIsAsked ==
  ASSUME NEW c, NEW n, now \in Nat, pars \in ParsType, c.func = Plep, Economy(c, mode, now, n)
  PROVE  pars.window[1] # 0 /\ ~EcoOff(c) /\ c.eco.func # None /\ c.eco.saved # None
<1>1. pars.window[1] \in Nat /\ pars.window[2] \in Nat BY WindowType
<1>2. Adv(mode) \in Nat BY Periods
<1>3. /\ c.origin \in Int /\ c.end \in Int /\ c.eco.func.of \in Selectors /\ c.eco.saved # None
      /\ c.pref = 0 /\ pars.window[1] # 0 /\ pars.window[2] <= c.end
      /\ now - c.origin + Adv(mode) >= pars.window[1]
  BY DEF Economy
<1>4. c.func.fn # "RAMP" BY Distinct
<1>5. ~EcoOff(c) BY <1>1, <1>2, <1>3, <1>4 DEF EcoOff
<1>6. c.eco.func # None BY <1>3, Distinct
<1> QED BY <1>3, <1>5, <1>6

\* Dynamic economy, at the first iteration of a regulation period.
LEMMA EconomyState ==
  ASSUME NEW c, NEW d, NEW cut \in BOOLEAN, NEW n \in Nat, now \in Nat, pars \in ParsType,
         Counter(mode, now) = 0, State(c, mode, now, cut, n), NEW x \in DynamicEconomy(c, d)
  PROVE  State(x.cc, mode, now + 1, cut, n) /\ InWindow(x.cc)
<1> DEFINE a == x.cc
<1>1. SameOther(a, c) /\ (NotMoved(a, c) \/ Moved(a, c) \/ Left(a, c))
  BY EconomyIs DEF State, CcTyped
<1> HIDE DEF a
<1>2. /\ Shape(a) /\ a.sel = c.sel /\ a.armed = c.armed /\ a.origin = c.origin /\ a.end = c.end
      /\ a.num = c.num /\ a.idx = c.idx /\ a.pref = c.pref /\ a.ramps = c.ramps /\ a.cycles = c.cycles
  BY <1>1 DEF SameOther, Other, Fields, Kept
<1>3. /\ c.idx \in Nat /\ c.pref \in Nat /\ c.ramps \in Nat /\ c.pref <= c.ramps
      /\ c.armed \subseteq Selectors /\ c.eco.log \in Nat
  BY DEF State, CcTyped
<1>4. a.eco.log \in Nat BY <1>1, <1>3 DEF NotMoved, Moved, Left, Resumed
<1>5. CcTyped(a) BY <1>2, <1>3, <1>4 DEF CcTyped
<1>6. CASE cut
  <2>1. c.func = Ramp BY <1>6 DEF State
  <2>2. EcoOff(c) BY <2>1, Distinct DEF EcoOff
  <2>3. NotMoved(a, c) BY <1>1, <2>2 DEF Moved, Left
  <2>4. a.func = Ramp /\ a.eco.log = c.eco.log BY <2>1, <2>3 DEF NotMoved
  <2> QED BY <1>5, <1>6, <2>4, Distinct DEF State, InWindow, a
<1>7. CASE ~cut
  <2>1. Plays(c, mode) /\ Economy(c, mode, now, n) BY <1>7 DEF State
  <2>2. LastCall(now + 1, mode) = now BY LastCallNext
  <2>3. pars.window[1] \in Nat /\ pars.window[2] \in Nat /\ Adv(mode) \in Nat BY WindowType, Periods
  <2>4. PlayingOf(a) = PlayingOf(c)
    <3>1. CASE NotMoved(a, c) BY <3>1 DEF NotMoved, PlayingOf
    <3>2. CASE Moved(a, c)
      <4>1. c.func # Plep BY <2>1, <3>2, PlepIsAsked DEF Moved
      <4> QED BY <3>2, <4>1 DEF Moved, PlayingOf
    <3>3. CASE Left(a, c)
      <4>1. c.func = Plep /\ c.eco.func.of \in Selectors BY <2>1, <3>3 DEF Left, Resumed, Economy
      <4>2. a.func = c.eco.func /\ c.eco.func # Plep BY <3>3, <4>1, Distinct DEF Left, Resumed
      <4> QED BY <4>1, <4>2 DEF PlayingOf
    <3> QED BY <1>1, <3>1, <3>2, <3>3
  <2>5. Plays(a, mode) BY <1>2, <2>1, <2>4 DEF Plays
  <2>6. Economy(a, mode, now + 1, n) /\ InWindow(a) /\ a.eco.log <= 2 * n
    <3>1. c.origin \in Int /\ c.end \in Int BY <2>1 DEF Economy
    <3>2. CASE NotMoved(a, c) /\ c.func = Plep
      <4>1. now < pars.window[2] BY <2>1, <3>2, PlepIsAsked DEF NotMoved
      <4>2. LogLeft(a) = LogLeft(c) BY <3>2 DEF NotMoved, LogLeft
      <4>3. /\ a.func = Plep /\ a.eco.func.of \in Selectors /\ a.eco.saved = a.eco.func /\ a.eco.saved # None
            /\ a.pref = 0 /\ pars.window[1] # 0 /\ pars.window[2] <= a.end
            /\ now - a.origin + Adv(mode) >= pars.window[1]
            /\ a.eco.log + LogLeft(a) <= 2 * n
        BY <1>2, <2>1, <3>2, <4>2 DEF Economy, NotMoved
      <4>4. now + 1 - a.origin + Adv(mode) >= pars.window[1] BY <1>2, <2>3, <3>1, <4>3
      <4>5. a.eco.log <= 2 * n BY <1>4, <4>3 DEF LogLeft
      <4> QED BY <1>2, <2>2, <3>1, <4>1, <4>3, <4>4, <4>5 DEF Economy, InWindow
    <3>3. CASE NotMoved(a, c) /\ c.func # Plep
      <4>1. LogLeft(a) = LogLeft(c) BY <3>3 DEF NotMoved, LogLeft
      <4>2. a.func # Plep /\ a.eco.saved = None BY <2>1, <3>3 DEF Economy, NotMoved
      <4>3. a.eco.log + LogLeft(a) <= 2 * n /\ (a.func # Ramp => a.func.of \in Selectors)
        BY <2>1, <3>3, <4>1 DEF Economy, NotMoved
      <4>4. a.eco.log <= 2 * n BY <1>4, <4>3 DEF LogLeft
      <4> QED BY <1>2, <3>1, <4>2, <4>3, <4>4 DEF Economy, InWindow
    <3>4. CASE Moved(a, c)
      <4>1. c.func # Plep BY <2>1, <3>4, PlepIsAsked DEF Moved
      <4>2. /\ c.pref = 0 /\ c.func # Ramp /\ now - c.origin + Adv(mode) >= pars.window[1]
            /\ pars.window[2] <= c.end /\ pars.window[1] # 0
        BY <1>3, <2>3, <3>1, <3>4, Distinct DEF Moved, EcoOff
      <4>3. c.func.of \in Selectors /\ c.func # None BY <2>1, <4>1, <4>2, Distinct DEF Economy
      <4>4. c.eco.log + 2 <= 2 * n BY <2>1, <3>4 DEF Economy, LogLeft, Moved
      <4>5. a.eco.func = c.func /\ a.eco.func # None BY <3>4, <4>3 DEF Moved
      <4>6. CASE a.func = Plep
        <5>1. a.eco.saved = c.func /\ a.eco.log = c.eco.log + 1 /\ now < pars.window[2]
          BY <3>4, <4>1, <4>3, <4>6 DEF Moved
        <5>2. LogLeft(a) = 1 BY <4>3, <4>5, <5>1 DEF LogLeft
        <5>3. now + 1 - a.origin + Adv(mode) >= pars.window[1] BY <1>2, <2>3, <3>1, <4>2
        <5>4. a.eco.log + LogLeft(a) <= 2 * n /\ a.eco.log <= 2 * n BY <1>3, <4>4, <5>1, <5>2
        <5> QED BY <1>2, <2>2, <3>1, <4>2, <4>3, <4>5, <4>6, <5>1, <5>3, <5>4 DEF Economy, InWindow
      <4>7. CASE a.func # Plep
        <5>1. a.func = c.func /\ a.eco.saved = None /\ a.eco.log <= c.eco.log + 2 /\ LogLeft(a) = 0
          BY <1>3, <3>4, <4>5, <4>7 DEF Moved, LogLeft
        <5>2. a.eco.log + LogLeft(a) <= 2 * n /\ a.eco.log <= 2 * n BY <1>3, <1>4, <4>4, <5>1
        <5> QED BY <1>2, <3>1, <4>3, <4>7, <5>1, <5>2 DEF Economy, InWindow
      <4> QED BY <4>6, <4>7
    <3>5. CASE Left(a, c)
      <4>1. c.func = Plep /\ c.eco.func.of \in Selectors BY <2>1, <3>5 DEF Left, Resumed, Economy
      <4>2. a.func = c.eco.func /\ c.eco.func # Plep /\ c.eco.func # None
        BY <3>5, <4>1, Distinct DEF Left, Resumed
      <4>3. a.eco.saved = None /\ a.eco.func = c.eco.func /\ a.eco.log = c.eco.log + 1 /\ c.eco.saved # None
        BY <3>5 DEF Left, Resumed
      <4>4. LogLeft(c) = 1 /\ LogLeft(a) = 0 BY <4>2, <4>3 DEF LogLeft
      <4>5. c.eco.log + 1 <= 2 * n BY <2>1, <4>4 DEF Economy
      <4>6. a.eco.log + LogLeft(a) <= 2 * n /\ a.eco.log <= 2 * n BY <1>3, <4>3, <4>4, <4>5
      <4> QED BY <1>2, <3>1, <4>1, <4>2, <4>3, <4>6 DEF Economy, InWindow
    <3> QED BY <1>1, <3>2, <3>3, <3>4, <3>5
  <2> QED BY <1>5, <1>7, <2>5, <2>6 DEF State, a
<1> QED BY <1>6, <1>7

LEMMA ReferenceState ==
  ASSUME NEW cut \in BOOLEAN, NEW n \in Nat, now \in Nat, pars \in ParsType,
         Counter(mode, now) = 0, State(cc, mode, now, cut, n), DirectTyped(direct),
         NEW x \in DynamicEconomy(cc, direct)
  PROVE  /\ State(Reference(x).cc, mode, now + 1, cut, n) /\ InWindow(Reference(x).cc)
         /\ DirectTyped(Reference(x).direct)
<1>1. State(x.cc, mode, now + 1, cut, n) /\ InWindow(x.cc) BY EconomyState
<1>2. PICK t : Reference(x) = Generate(x.cc, x.direct, t) BY DEF Reference
<1>3. Fields \subseteq DOMAIN x.cc BY <1>1 DEF State, CcTyped, Shape
<1>4. SameAll(Reference(x).cc, x.cc) BY <1>2, <1>3, GenerateKeepsAll
<1>5. DirectTyped(x.direct) BY EconomyDirect
<1>6. DirectTyped(Reference(x).direct) BY <1>2, <1>5, GenerateDirect
<1>7. /\ State(Reference(x).cc, mode, now + 1, cut, n)
      /\ Reference(x).cc.func = x.cc.func /\ Reference(x).cc.end = x.cc.end
  BY <1>1, <1>4, SameState
<1> QED BY <1>1, <1>6, <1>7 DEF InWindow

\* Within a regulation period dynamic economy is not asked, and need not be.
LEMMA HoldState ==
  ASSUME NEW c, NEW m, NEW cut \in BOOLEAN, NEW n \in Nat, now \in Nat, pars \in ParsType,
         Counter(m, now) # 0, State(c, m, now, cut, n)
  PROVE  State(c, m, now + 1, cut, n)
<1>1. LastCall(now + 1, m) = LastCall(now, m) BY LastCallNext
<1>2. pars.window[1] \in Nat /\ Adv(m) \in Nat BY WindowType, Periods
<1>3. ASSUME Economy(c, m, now, n) PROVE Economy(c, m, now + 1, n)
  <2>1. c.origin \in Int BY <1>3 DEF Economy
  <2>2. now - c.origin + Adv(m) >= pars.window[1] => now + 1 - c.origin + Adv(m) >= pars.window[1]
    BY <1>2, <2>1
  <2> QED BY <1>1, <1>3, <2>2 DEF Economy
<1> QED BY <1>3 DEF State

\* An iteration without a trip leaves what its action computed; a trip cuts the count.
LEMMA TripState ==
  ASSUME NEW c, NEW m, NEW cut, NEW n \in Nat, now \in Nat, tripped = Never,
         State(c, m, now + 1, cut, n), TripOrNot(c, m)
  PROVE  /\ now' = now + 1 /\ CcTyped(cc') /\ cc'.eco.log <= 2 * n
         /\ mode' \in {m, "NONE"} /\ tripped' \in {Never, now}
         /\ tripped' = Never => cc' = c /\ mode' = m
<1>1. CcTyped(c) /\ c.eco.log <= 2 * n BY DEF State
<1>2. CASE cc' = c /\ mode' = m /\ UNCHANGED tripped
  BY <1>1, <1>2 DEF TripOrNot
<1>3. CASE cc' = [c EXCEPT !.num = IF c.pref = 0 THEN c.idx + 1 ELSE c.idx]
           /\ mode' = "NONE" /\ tripped' = now
  <2> DEFINE num == IF c.pref = 0 THEN c.idx + 1 ELSE c.idx
             b == [c EXCEPT !.num = num]
  <2>1. CcTyped(b) /\ b.eco.log <= 2 * n
    <3> HIDE DEF num
    <3> QED BY <1>1 DEF CcTyped, Shape, Fields, Kept
  <2>2. now # Never BY DEF Never
  <2>3. cc' = b BY <1>3
  <2> HIDE DEF b
  <2> QED BY <1>3, <2>1, <2>2, <2>3 DEF TripOrNot
<1> QED BY <1>2, <1>3 DEF TripOrNot

LEMMA CounterType == ASSUME NEW t \in Nat, NEW m PROVE Counter(m, t) \in Nat
<1> DEFINE p == RegPeriod(m)
<1>1. p \in Nat \ {0} BY RunAssumption, Periods
<1> HIDE DEF p
<1>2. t % p \in Nat BY <1>1, Division
<1> QED BY <1>2 DEF Counter, p

\* The state a function, or a ramp, is started from.
Ready(c) ==
  /\ c.cycles = Cycles(pars) /\ c.armed = ArmedBy(pars)
  /\ c.idx < c.num => c.sel = c.cycles[c.idx + 1].sel
  /\ c.end \in Int /\ c.eco.saved = None

Between(c, n) == Ready(c) /\ c.eco.log + LogLeft(c) <= 2 * n

LEMMA StateBetween ==
  ASSUME NEW c, NEW m, NEW t, NEW n, State(c, m, t, FALSE, n), c.func # Plep PROVE Between(c, n)
<1>1. PICK b \in BOOLEAN : b = FALSE OBVIOUS
<1>2. Plays(c, m) /\ Economy(c, m, t, n) BY <1>1 DEF State
<1> QED BY <1>2 DEF Between, Ready, Plays, Economy

LEMMA RampState ==
  ASSUME NEW c, NEW m, NEW delay, NEW k, NEW cut, NEW n \in Nat, now \in Nat,
         CcTyped(c), c.pref < c.ramps, c.eco.log <= 2 * n, ~cut => Between(c, n)
  PROVE  LET s == StartRamp(c, m, delay, k)
         IN State(s.cc, m, now + 1, cut, n) /\ s.mode = m /\ s.cc.func = Ramp
<1> DEFINE ramp == [start |-> delay, end |-> delay + k]
           origin == now + Adv(m) - Counter(m, now)
           a == [c EXCEPT !.func = Ramp, !.ramp = ramp, !.origin = origin, !.pref = @ + 1]
<1>1. origin \in Int BY Periods, CounterType
<1>2. StartRamp(c, m, delay, k).cc = a /\ StartRamp(c, m, delay, k).mode = m
  <2> HIDE DEF a
  <2>1. StartRamp(c, m, delay, k) = [cc |-> a, mode |-> m] BY DEF StartRamp, Now, a, ramp, origin
  <2> QED BY <2>1
<1> HIDE DEF ramp, origin
<1>3. /\ a.func = Ramp /\ a.origin = origin /\ a.pref = c.pref + 1 /\ Shape(a)
      /\ a.sel = c.sel /\ a.armed = c.armed /\ a.end = c.end /\ a.eco = c.eco
      /\ a.num = c.num /\ a.idx = c.idx /\ a.ramps = c.ramps /\ a.cycles = c.cycles
  BY DEF CcTyped, Shape, Fields, Kept
<1> HIDE DEF a
<1>4. CcTyped(a) BY <1>3 DEF CcTyped
<1>5. PlayingOf(a) = 0 BY <1>3, Distinct DEF PlayingOf
<1>6. ASSUME ~cut PROVE Plays(a, m) /\ Economy(a, m, now + 1, n)
  <2>1. Between(c, n) BY <1>6
  <2>2. LogLeft(a) = LogLeft(c) BY <1>3 DEF LogLeft
  <2>3. Plays(a, m) BY <1>3, <1>5, <2>1 DEF Between, Ready, Plays
  <2>4. Economy(a, m, now + 1, n) BY <1>1, <1>3, <2>1, <2>2, Distinct DEF Between, Ready, Economy
  <2> QED BY <2>3, <2>4
<1>7. State(a, m, now + 1, cut, n) BY <1>3, <1>4, <1>6 DEF State
<1> QED BY <1>2, <1>3, <1>7

Modes == {"NONE", "VOLTAGE", "CURRENT", "FIELD"}

LEMMA FunctionType ==
  ASSUME pars \in ParsType, NEW sel \in Selectors PROVE pars.ref[sel].mode \in Modes /\ pars.ref[sel].end \in Nat
<1>1. pars.ref[sel] \in Functions BY DEF ParsType
<1> QED BY <1>1, ParsAssumption DEF Modes

LEMMA FirstRampState ==
  ASSUME pars \in ParsType, now \in Nat, NEW c, NEW m \in Modes, NEW cut \in BOOLEAN, NEW n \in Nat,
         Counts(c, cut), State(c, m, now + 1, cut, n), c.func # Plep, c.pref = 0,
         NEW s \in FirstRamp(c, m)
  PROVE  State(s.cc, s.mode, now + 1, cut, n) /\ s.mode \in Modes /\ s.cc.func = Ramp
<1> DEFINE i == c.idx + 1
           last == [c EXCEPT !.idx = i, !.ramps = 1]
           sel == c.cycles[i + 1].sel
           ramps == Ramps[pars.ref[sel].prefunc]
           next == [c EXCEPT !.idx = i, !.sel = sel, !.ramps = ramps]
<1>1. c.idx \in Nat /\ c.num \in Nat /\ i \in Nat BY DEF Counts
<1>2. CcTyped(c) /\ c.eco.log <= 2 * n BY DEF State
<1>3. ~cut => Between(c, n) BY StateBetween
<1>4. CASE i >= c.num
  <2>1. s = StartRamp(last, m, StopDelay, 0) BY <1>4 DEF FirstRamp
  <2> HIDE DEF i
  <2>2. /\ last.idx = i /\ last.ramps = 1 /\ last.num = c.num /\ last.pref = c.pref /\ last.cycles = c.cycles
        /\ last.sel = c.sel /\ last.armed = c.armed /\ last.end = c.end /\ last.eco = c.eco /\ Shape(last)
    BY <1>2 DEF CcTyped, Shape, Fields, Kept
  <2> HIDE DEF last
  <2>3. CcTyped(last) /\ last.pref < last.ramps /\ last.eco.log <= 2 * n BY <1>1, <1>2, <2>2 DEF CcTyped
  <2>4. LogLeft(last) = LogLeft(c) BY <2>2 DEF LogLeft
  <2>5. ~(last.idx < last.num) BY <1>1, <1>4, <2>2
  <2>6. ~cut => Between(last, n) BY <1>3, <2>2, <2>4, <2>5 DEF Between, Ready
  <2> QED BY <2>1, <2>3, <2>6, RampState
<1>5. CASE ~(i >= c.num)
  <2>1. PICK delay, k : s = StartRamp(next, pars.ref[sel].mode, delay, k)
    <3> HIDE DEF next, sel, i
    <3>1. FirstRamp(c, m) = { StartRamp(next, pars.ref[sel].mode, 0, d) : d \in RampTimes }
                            \cup { StartRamp(next, pars.ref[sel].mode, Plateau, 0) }
      BY <1>5 DEF FirstRamp, next, sel, i
    <3> QED BY <3>1
  <2>2. ~cut BY <1>1, <1>5 DEF Counts
  <2>3. i + 1 \in 1 .. Len(pars.list) BY <1>1, <1>5, <2>2 DEF Counts
  <2>4. sel \in Selectors BY <2>2, <2>3, CycleSelectors DEF Counts
  <2>5. ramps \in {1, 2, 3} BY <2>4, RampsOfAFunction
  <2>6. pars.ref[sel].mode \in Modes BY <2>4, FunctionType
  <2> HIDE DEF ramps
  <2>7. sel = c.cycles[i + 1].sel OBVIOUS
  <2> HIDE DEF sel, i
  <2>8. /\ next.idx = i /\ next.ramps = ramps /\ next.num = c.num /\ next.pref = c.pref /\ next.cycles = c.cycles
        /\ next.sel = sel /\ next.armed = c.armed /\ next.end = c.end /\ next.eco = c.eco /\ Shape(next)
    BY <1>2 DEF CcTyped, Shape, Fields, Kept
  <2> HIDE DEF next
  <2>9. CcTyped(next) /\ next.pref < next.ramps /\ next.eco.log <= 2 * n
    BY <1>1, <1>2, <2>5, <2>8 DEF CcTyped
  <2>10. LogLeft(next) = LogLeft(c) BY <2>8 DEF LogLeft
  <2>11. Between(next, n) BY <1>3, <2>2, <2>7, <2>8, <2>10 DEF Between, Ready
  <2> QED BY <2>1, <2>6, <2>9, <2>11, RampState
<1> QED BY <1>4, <1>5

\* A function is started for the n + 1st time.
LEMMA StartNextState ==
  ASSUME pars \in ParsType, now \in Nat, NEW c, NEW n \in Nat, NEW t, CcTyped(c), Ready(c),
         c.idx < c.num, c.num = Len(pars.list), c.eco.log <= 2 * n
  PROVE  LET s == StartNext(c)
         IN State(s.cc, s.mode, t, FALSE, n + 1) /\ s.mode \in Modes /\ s.cc.func # Ramp /\ s.cc.func # Plep
<1> DEFINE f == pars.ref[c.sel]
           func == FunctionOf(c.sel)
           seg(e) == IF f.fn = "DIRECT" THEN 0 ELSE e
           origin == now + RunDelay
           end == now + RunDelay + f.end
           a == [c EXCEPT !.func = func, !.origin = origin, !.end = end, !.pref = 0, !.ramps = 1,
                  !.eco.func = None, !.eco.offset = 0, !.seg[c.sel] = seg(@)]
<1>1. StartNext(c).cc = a /\ StartNext(c).mode = f.mode
  <2> HIDE DEF a
  <2>1. StartNext(c) = [cc |-> a, mode |-> f.mode] BY DEF StartNext, Now, a
  <2> QED BY <2>1
<1>2. c.idx \in Nat /\ c.idx + 1 \in 1 .. Len(pars.list)
  <2>1. Len(pars.list) \in Nat BY ParsAssumption DEF ParsType
  <2> QED BY <2>1 DEF CcTyped
<1>3. c.sel \in Selectors /\ c.sel = Cycles(pars)[c.idx + 1].sel BY <1>2, CycleSelectors DEF Between, Ready
<1>4. c.sel \in ArmedBy(pars)
  <2>1. DOMAIN pars.list = 1 .. Len(pars.list) BY ParsAssumption DEF ParsType
  <2> QED BY <1>2, <1>3, <2>1 DEF ArmedBy
<1>5. f.mode \in Modes /\ f.end \in Nat BY <1>3, FunctionType
<1>6. origin \in Int /\ end \in Int BY <1>5, RunAssumption
<1>7. func.of = c.sel /\ func # Ramp /\ func # Plep BY <1>3, Distinct
<1> HIDE DEF func, seg, origin, end, f
<1>8. /\ a.func = func /\ a.origin = origin /\ a.end = end /\ a.pref = 0 /\ a.ramps = 1
      /\ a.eco.func = None /\ a.eco.saved = c.eco.saved /\ a.eco.log = c.eco.log
      /\ a.sel = c.sel /\ a.armed = c.armed /\ a.num = c.num /\ a.idx = c.idx /\ a.cycles = c.cycles
      /\ Shape(a)
  BY DEF CcTyped, Shape, Fields, Kept, EcoFields
<1> HIDE DEF a
<1>9. CcTyped(a) BY <1>8 DEF CcTyped
<1>10. PlayingOf(a) = c.sel BY <1>7, <1>8 DEF PlayingOf
<1>11. Plays(a, f.mode) BY <1>3, <1>4, <1>8, <1>10 DEF Between, Ready, Plays, f
<1>12. LogLeft(a) = 2 BY <1>8 DEF LogLeft
<1>13. c.eco.log \in Nat BY DEF CcTyped
<1>14. a.eco.log <= 2 * (n + 1) /\ a.eco.log + LogLeft(a) <= 2 * (n + 1) BY <1>8, <1>12, <1>13
<1>15. Economy(a, f.mode, t, n + 1) BY <1>3, <1>6, <1>7, <1>8, <1>14 DEF Between, Ready, Economy
<1>16. PICK b \in BOOLEAN : b = FALSE OBVIOUS
<1>17. State(a, f.mode, t, b, n + 1) BY <1>9, <1>11, <1>14, <1>15, <1>16 DEF State
<1> QED BY <1>1, <1>5, <1>7, <1>8, <1>16, <1>17

\* Whatever is started next, at the end of a ramp or of a function.
LEMMA StartState ==
  ASSUME pars \in ParsType, now \in Nat, NEW c, NEW m \in Modes, NEW cut \in BOOLEAN, NEW n \in Nat,
         Counts(c, cut), State(c, m, now + 1, cut, n), c.func # Plep, NEW s \in StartFunction(c, m)
  PROVE  /\ State(s.cc, s.mode, now + 1, cut, IF s.cc.func = Ramp THEN n ELSE n + 1)
         /\ s.mode \in Modes /\ CcTyped(s.cc)
<1>1. CcTyped(c) /\ c.eco.log <= 2 * n BY DEF State
<1>2. ~cut => Between(c, n) BY StateBetween
<1>3. CASE c.pref < c.ramps /\ c.pref = 0
  <2>1. s \in FirstRamp(c, m) BY <1>3 DEF StartFunction
  <2>2. State(s.cc, s.mode, now + 1, cut, n) /\ s.mode \in Modes /\ s.cc.func = Ramp
    BY <1>3, <2>1, FirstRampState
  <2> QED BY <2>2 DEF State
<1>4. CASE c.pref < c.ramps /\ c.pref # 0
  <2>1. PICK k : s = StartRamp(c, m, Plateau, k) BY <1>4 DEF StartFunction, NextRamp
  <2>2. State(s.cc, m, now + 1, cut, n) /\ s.mode = m /\ s.cc.func = Ramp
    BY <1>1, <1>2, <1>4, <2>1, RampState
  <2> QED BY <2>2 DEF State
<1>5. CASE ~(c.pref < c.ramps)
  <2>1. s = StartNext(c) /\ c.idx < c.num BY <1>5 DEF StartFunction, Counts
  <2>2. ~cut BY <1>5, <2>1 DEF Counts
  <2>3. c.num = Len(pars.list) BY <2>2 DEF Counts
  <2>4. State(s.cc, s.mode, now + 1, FALSE, n + 1) /\ s.mode \in Modes /\ s.cc.func # Ramp
    BY <1>1, <1>2, <2>1, <2>2, <2>3, StartNextState DEF Between
  <2>5. cut = FALSE BY <2>2
  <2> QED BY <2>4, <2>5 DEF State
<1> QED BY <1>3, <1>4, <1>5

\* After an abort only its ramp is left.
LEMMA AbortState ==
  ASSUME NEW c, NEW m, NEW t, NEW u, NEW n, NEW k, NEW cut, State(c, m, t, cut, n)
  PROVE  State(Abort(c, k), m, u, TRUE, n)
<1> DEFINE num == IF c.pref = 0 THEN c.idx + 1 ELSE c.idx
           ramp == [start |-> 0, end |-> k]
           origin == now + Adv(mode)
           a == [c EXCEPT !.ramp = ramp, !.origin = origin, !.func = Ramp, !.num = num, !.pref = 0]
<1>1. Abort(c, k) = a BY DEF Abort
<1>2. CcTyped(c) /\ c.eco.log <= 2 * n BY DEF State
<1> HIDE DEF num, ramp, origin
<1>3. /\ a.func = Ramp /\ a.idx = c.idx /\ a.pref = 0 /\ a.ramps = c.ramps /\ a.armed = c.armed
      /\ a.eco = c.eco /\ Shape(a)
  BY <1>2 DEF CcTyped, Shape, Fields, Kept
<1> HIDE DEF a
<1>4. CcTyped(a) BY <1>2, <1>3 DEF CcTyped
<1>5. PICK b \in BOOLEAN : b = TRUE OBVIOUS
<1>6. State(a, m, u, b, n) BY <1>2, <1>3, <1>4, <1>5 DEF State
<1> QED BY <1>1, <1>5, <1>6

\* RUN: the arrays and counters are set up, and the first function plays.
LEMMA RunState ==
  ASSUME pars \in ParsType, now \in Nat
  PROVE  LET c == [InitFunctions(pars) EXCEPT !.sel = Cycles(pars)[1].sel]
             s == StartNext(c)
             end == RunDelay + pars.ref[c.sel].end
         IN /\ CcTyped(c) /\ c.eco.log = 0
            /\ State([s.cc EXCEPT !.origin = RunDelay, !.end = end], s.mode, 0, FALSE, 1)
            /\ s.mode \in Modes
<1> DEFINE c == [InitFunctions(pars) EXCEPT !.sel = Cycles(pars)[1].sel]
           s == StartNext(c)
           end == RunDelay + pars.ref[c.sel].end
           a == [s.cc EXCEPT !.origin = RunDelay, !.end = end]
<1>1. pars.list \in Seq(Selectors) /\ Len(pars.list) \in Nat \ {0} /\ DOMAIN pars.list = 1 .. Len(pars.list)
  BY ParsAssumption DEF ParsType
<1>2. /\ c.cycles = Cycles(pars) /\ c.armed = ArmedBy(pars) /\ c.idx = 0 /\ c.num = Len(pars.list)
      /\ c.sel = Cycles(pars)[1].sel /\ c.end = 0 /\ c.pref = 0 /\ c.ramps = 0
      /\ c.eco.func = None /\ c.eco.saved = None /\ c.eco.log = 0 /\ Shape(c)
  BY DEF InitFunctions, Zeroed, ArmedBy, Shape, Fields, Kept, EcoFields
<1>3. c.sel \in Selectors BY <1>1, <1>2, CycleSelectors
<1>4. end \in Nat BY <1>3, FunctionType, RunAssumption
<1>5. ArmedBy(pars) \subseteq Selectors BY <1>1, CycleSelectors DEF ArmedBy
<1> HIDE DEF c, end
<1>6. CcTyped(c) BY <1>2, <1>5 DEF CcTyped
<1>7. Ready(c) BY <1>2 DEF Ready
<1>8. c.idx < c.num /\ c.eco.log <= 2 * 0 BY <1>1, <1>2
<1>9. State(s.cc, s.mode, 0, FALSE, 0 + 1) /\ s.mode \in Modes /\ s.cc.func # Plep
  BY <1>2, <1>6, <1>7, <1>8, StartNextState
<1>10. PICK b \in BOOLEAN : b = FALSE OBVIOUS
<1>11. CcTyped(s.cc) /\ Plays(s.cc, s.mode) /\ Economy(s.cc, s.mode, 0, 1) /\ s.cc.eco.log <= 2 * 1
  BY <1>9, <1>10 DEF State
<1> DEFINE e == s.cc
<1>12. /\ a.func = e.func /\ a.origin = RunDelay /\ a.end = end /\ a.pref = e.pref /\ a.ramps = e.ramps
       /\ a.eco = e.eco /\ a.sel = e.sel /\ a.armed = e.armed /\ a.num = e.num /\ a.idx = e.idx
       /\ a.cycles = e.cycles /\ Shape(a)
  <2> HIDE DEF s
  <2> QED BY <1>11 DEF CcTyped, Shape, Fields, Kept
<1> HIDE DEF a, s
<1>13. CcTyped(a) BY <1>11, <1>12 DEF CcTyped
<1>14. PlayingOf(a) = PlayingOf(e) /\ LogLeft(a) = LogLeft(e) BY <1>12 DEF PlayingOf, LogLeft
<1>15. Plays(a, s.mode) BY <1>11, <1>12, <1>14 DEF Plays
<1>16. Economy(a, s.mode, 0, 1) BY <1>4, <1>9, <1>11, <1>12, <1>14, RunAssumption DEF Economy
<1>17. State(a, s.mode, 0, b, 1) BY <1>10, <1>11, <1>12, <1>13, <1>15, <1>16 DEF State
<1>18. State(a, s.mode, 0, FALSE, 1) BY <1>10, <1>17
<1> QED BY <1>2, <1>6, <1>9, <1>18 DEF a, s, c, end

-----------------------------------------------------------------------------
(***************************************************************************)
(* The invariant of what plays.                                             *)
(***************************************************************************)
JInv ==
  /\ TypeOK /\ CcTyped(cc) /\ DirectTyped(direct)
  /\ played \in Seq(Nat) /\ cc.eco.log <= 2 * Len(played)
  /\ at = "load" /\ tripped = Never => State(cc, mode, now, aborted, Len(played))

LEMMA InitPlays == Init => JInv
<1> SUFFICES ASSUME Init PROVE JInv
  OBVIOUS
<1>1. CcTyped(Zeroed) /\ Zeroed.eco.log = 0 /\ Zeroed.pref = 0 /\ Zeroed.ramps = 0 /\ Zeroed.armed = {}
  BY DEF CcTyped, Shape, Zeroed, Fields, Kept, EcoFields
<1>2. cc = Zeroed /\ at = "idle" /\ played = << >> /\ direct.status = "PRE" /\ "status" \in DOMAIN direct
      /\ runs = 0 /\ now = 0 /\ mode = "NONE" /\ tripped = Never /\ aborted = FALSE
  BY DEF Init
<1>3. Len(played) = 0 /\ played \in Seq(Nat) BY <1>2
<1>4. 0 \in 0 .. MaxRuns /\ 0 \in 0 .. MaxTime /\ 0 \in 0 .. 0 BY RunAssumption
<1>5. cc.pref = 0 /\ cc.ramps = 0 /\ cc.armed \subseteq Selectors BY <1>1, <1>2
<1>6. TypeOK
  <2> HIDE DEF Zeroed
  <2> QED BY <1>2, <1>4, <1>5 DEF TypeOK
<1> QED BY <1>1, <1>2, <1>3, <1>6 DEF JInv, DirectTyped

\* The invariant in terms of the next values; pars does not change.
NextTypes ==
  /\ at' \in {"idle", "end"} \cup Sims /\ runs' \in 0 .. MaxRuns /\ now' \in 0 .. MaxTime
  /\ mode' \in Modes /\ tripped' \in Nat \cup {Never} /\ aborted' \in BOOLEAN
  /\ CcTyped(cc') /\ DirectTyped(direct')
  /\ played' \in Seq(Nat) /\ cc'.eco.log <= 2 * Len(played')

NextState == at' = "load" /\ tripped' = Never => State(cc', mode', now', aborted', Len(played'))

LEMMA NextInvariant == ASSUME pars' = pars, NextTypes, NextState PROVE JInv'
<1>1. cc'.pref \in 0 .. cc'.ramps /\ cc'.armed \subseteq Selectors BY DEF NextTypes, CcTyped
<1>2. TypeOK' BY <1>1 DEF NextTypes, TypeOK, DirectTyped, Modes
<1>3. CcTyped(cc)' /\ DirectTyped(direct)' /\ (played \in Seq(Nat))' /\ (cc.eco.log <= 2 * Len(played))'
  BY DEF NextTypes, CcTyped, DirectTyped, Shape
<1>4. (at = "load" /\ tripped = Never => State(cc, mode, now, aborted, Len(played)))'
  BY DEF NextState, State, CcTyped, Shape, Plays, Economy, PlayingOf, LogLeft, LastCall, Counter, RegPeriod, Adv,
         Cycles, ArmedBy
<1> QED BY <1>2, <1>3, <1>4 DEF JInv

LEMMA PlayedOnce ==
  ASSUME NEW p \in Seq(Nat), NEW i \in Nat
  PROVE  Append(p, i) \in Seq(Nat) /\ Len(Append(p, i)) = Len(p) + 1 /\ Len(p) \in Nat
  OBVIOUS

\* What a step of a run without the others' work leaves: the part shared by all of them.
LEMMA StepPlays == IInv /\ JInv /\ [Next]_vars => JInv'
<1> SUFFICES ASSUME IInv, JInv, [Next]_vars PROVE JInv'
  OBVIOUS
<1> DEFINE n == Len(played)
<1>1. pars' = pars
  BY DEF Next, Iteration, vars, Run, Hold, Continue, AbortFunction, FinishFunction, AfterTrip, Forward, Reverse
<1>2. /\ now \in Nat /\ pars \in ParsType /\ n \in Nat /\ played \in Seq(Nat)
      /\ CcTyped(cc) /\ DirectTyped(direct) /\ cc.eco.log <= 2 * n
      /\ at \in {"idle", "end"} \cup Sims /\ runs \in 0 .. MaxRuns /\ now \in 0 .. MaxTime
      /\ mode \in Modes /\ tripped \in Nat \cup {Never} /\ aborted \in BOOLEAN
      /\ (at = "load" /\ tripped = Never => State(cc, mode, now, aborted, n) /\ Counts(cc, aborted))
  BY PlayedOnce DEF IInv, JInv, TypeOK, Modes
<1> HIDE DEF n
<1> SUFFICES NextTypes /\ NextState
  BY <1>1, NextInvariant
<1>3. CASE Run
  <2> DEFINE c == [InitFunctions(pars) EXCEPT !.sel = Cycles(pars)[1].sel]
             f == pars.list[1]
             s == StartNext(c)
             end == RunDelay + pars.ref[c.sel].end
             a == [s.cc EXCEPT !.origin = RunDelay, !.end = end]
             func == [fn |-> pars.ref[f].fn, of |-> f]
             b == [c EXCEPT !.sel = f, !.func = func, !.end = pars.ref[f].end, !.origin = RunDelay]
  <2>1. CcTyped(c) /\ c.eco.log = 0 /\ State(a, s.mode, 0, FALSE, 1) /\ s.mode \in Modes
    BY <1>2, RunState
  <2>2. pars.sim \in Sims BY <1>2 DEF ParsType
  <2>3. /\ runs' = runs + 1 /\ runs < MaxRuns /\ now' = 0 /\ tripped' = Never /\ aborted' = FALSE
        /\ direct' = direct
        /\ \/ at' = "end" /\ cc' = c /\ mode' = mode /\ played' = << >>
           \/ at' = pars.sim /\ played' = <<0>> /\ pars.sim = "load" /\ cc' = a /\ mode' = s.mode
           \/ at' = pars.sim /\ played' = <<0>> /\ pars.sim # "load" /\ cc' = b /\ mode' = mode
    <3> HIDE DEF c, s, end, a, func, f, b
    <3>1. Run <=>
            /\ at \in {"idle", "end"} /\ runs < MaxRuns
            /\ runs' = runs + 1 /\ now' = 0 /\ tripped' = Never /\ aborted' = FALSE
            /\ IF Refused(pars) THEN at' = "end" /\ cc' = c /\ mode' = mode /\ played' = << >>
               ELSE /\ at' = pars.sim /\ played' = <<0>>
                    /\ IF pars.sim = "load" THEN cc' = a /\ mode' = s.mode
                       ELSE cc' = b /\ mode' = mode
            /\ UNCHANGED <<pars, direct>>
      BY DEF Run, c, s, end, a, func, f, b
    <3> QED BY <1>3, <3>1
  <2> HIDE DEF func, end
  <2>4. CcTyped(b) /\ b.eco.log = 0
    <3> HIDE DEF c, f
    <3> QED BY <2>1 DEF CcTyped, Shape, Fields, Kept
  <2> HIDE DEF a, b, c, s, f
  <2>5. << >> \in Seq(Nat) /\ Len(<< >>) = 0 /\ <<0>> \in Seq(Nat) /\ Len(<<0>>) = 1 OBVIOUS
  <2>6. 0 \in 0 .. MaxTime /\ runs + 1 \in 0 .. MaxRuns BY <1>2, <2>3, RunAssumption
  <2>7. CcTyped(a) /\ a.eco.log <= 2 * 1 BY <2>1 DEF State
  <2>8. CcTyped(cc') /\ played' \in Seq(Nat) /\ cc'.eco.log <= 2 * Len(played')
    <3>1. CASE cc' = c /\ played' = << >> BY <2>1, <2>5, <3>1
    <3>2. CASE cc' = a /\ played' = <<0>> BY <2>5, <2>7, <3>2
    <3>3. CASE cc' = b /\ played' = <<0>> BY <2>4, <2>5, <3>3
    <3> QED BY <2>3, <3>1, <3>2, <3>3
  <2>9. NextTypes BY <1>2, <2>1, <2>2, <2>3, <2>6, <2>8 DEF NextTypes
  <2>10. NextState BY <2>1, <2>3, <2>5 DEF NextState
  <2> QED BY <2>9, <2>10
<1>4. now < MaxTime => now + 1 \in 0 .. MaxTime BY <1>2, RunAssumption
\* An iteration of a run with a load, for what it computed, the mode and the functions started.
<1>5. ASSUME NEW c, NEW m \in Modes, NEW cut, at = "load", tripped = Never, now < MaxTime,
             runs' = runs, at' = at, aborted' = cut, cut \in BOOLEAN, DirectTyped(direct'),
             played' \in Seq(Nat), Len(played') \in Nat,
             State(c, m, now + 1, cut, Len(played')), TripOrNot(c, m)
      PROVE  NextTypes /\ NextState
  <2>1. /\ now' = now + 1 /\ CcTyped(cc') /\ cc'.eco.log <= 2 * Len(played')
        /\ mode' \in {m, "NONE"} /\ tripped' \in {Never, now}
        /\ tripped' = Never => cc' = c /\ mode' = m
    BY <1>2, <1>5, TripState
  <2>2. NextTypes BY <1>2, <1>4, <1>5, <2>1 DEF NextTypes, Modes
  <2>3. NextState BY <1>5, <2>1 DEF NextState
  <2> QED BY <2>2, <2>3
<1>6. CASE Hold /\ now < MaxTime
  <2>1. /\ at = "load" /\ tripped = Never /\ Counter(mode, now) # 0 /\ TripOrNot(cc, mode)
        /\ runs' = runs /\ at' = at /\ direct' = direct /\ aborted' = aborted /\ played' = played
    BY <1>6 DEF Hold
  <2>2. State(cc, mode, now + 1, aborted, n) BY <1>2, <2>1, HoldState
  <2> QED BY <1>2, <1>5, <1>6, <2>1, <2>2 DEF n
<1>7. ASSUME NEW x \in DynamicEconomy(cc, direct), at = "load", tripped = Never, Counter(mode, now) = 0
      PROVE  /\ State(Reference(x).cc, mode, now + 1, aborted, n) /\ InWindow(Reference(x).cc)
             /\ DirectTyped(Reference(x).direct)
  BY <1>2, <1>7, ReferenceState
<1>8. CASE Continue /\ now < MaxTime
  <2>1. PICK x \in DynamicEconomy(cc, direct) :
          TripOrNot(Reference(x).cc, mode) /\ direct' = Reference(x).direct
    BY <1>8 DEF Continue
  <2>2. /\ at = "load" /\ tripped = Never /\ Counter(mode, now) = 0
        /\ runs' = runs /\ at' = at /\ aborted' = aborted /\ played' = played
    BY <1>8 DEF Continue
  <2>3. State(Reference(x).cc, mode, now + 1, aborted, n) /\ DirectTyped(Reference(x).direct)
    BY <1>7, <2>2
  <2> QED BY <1>2, <1>5, <1>8, <2>1, <2>2, <2>3 DEF n
<1>9. CASE AbortFunction /\ now < MaxTime
  <2>1. PICK x \in DynamicEconomy(cc, direct) :
          /\ direct' = Reference(x).direct
          /\ \/ \E k \in RampTimes : TripOrNot(Abort(Reference(x).cc, k), mode) /\ UNCHANGED at
             \/ at' = "end" /\ cc' = Reference(x).cc /\ UNCHANGED <<now, mode, tripped>>
    BY <1>9 DEF AbortFunction
  <2>2. /\ at = "load" /\ tripped = Never /\ Counter(mode, now) = 0
        /\ runs' = runs /\ aborted' = TRUE /\ played' = played
    BY <1>9 DEF AbortFunction
  <2>3. State(Reference(x).cc, mode, now + 1, aborted, n) /\ DirectTyped(Reference(x).direct)
    BY <1>7, <2>2
  <2>4. CASE at' = "end" /\ cc' = Reference(x).cc /\ UNCHANGED <<now, mode, tripped>>
    <3>1. CcTyped(cc') /\ cc'.eco.log <= 2 * n BY <2>3, <2>4 DEF State
    <3>2. NextTypes BY <1>2, <2>1, <2>2, <2>3, <2>4, <3>1 DEF NextTypes, n
    <3> QED BY <2>4, <3>2 DEF NextState
  <2>5. ASSUME NEW k \in RampTimes, TripOrNot(Abort(Reference(x).cc, k), mode), at' = at
        PROVE  NextTypes /\ NextState
    <3>1. State(Abort(Reference(x).cc, k), mode, now + 1, TRUE, n) BY <2>3, AbortState
    <3>2. State(Abort(Reference(x).cc, k), mode, now + 1, aborted', Len(played')) BY <2>2, <3>1 DEF n
    <3>3. aborted' \in BOOLEAN /\ DirectTyped(direct') BY <2>1, <2>2, <2>3
    <3> QED BY <1>2, <1>5, <1>9, <2>2, <2>5, <3>2, <3>3 DEF n
  <2> QED BY <2>1, <2>4, <2>5
<1>10. CASE FinishFunction /\ now < MaxTime
  <2>1. PICK x \in DynamicEconomy(cc, direct) :
          /\ Finished(Reference(x))
          /\ direct' = Reference(x).direct
          /\ \/ /\ at' = "end" /\ cc' = Reference(x).cc
                /\ UNCHANGED <<now, mode, tripped, played>>
             \/ \E s \in StartFunction(Reference(x).cc, mode) :
                  /\ TripOrNot(s.cc, s.mode)
                  /\ played' = IF s.cc.func = Ramp THEN played ELSE Append(played, s.cc.idx)
                  /\ UNCHANGED at
    BY <1>10 DEF FinishFunction
  <2> DEFINE g == Reference(x).cc
  <2>2. /\ at = "load" /\ tripped = Never /\ Counter(mode, now) = 0
        /\ runs' = runs /\ aborted' = aborted
    BY <1>10 DEF FinishFunction
  <2>3. State(g, mode, now + 1, aborted, n) /\ InWindow(g) /\ DirectTyped(Reference(x).direct)
    BY <1>7, <2>2
  <2>4. Counts(g, aborted) BY <1>2, <2>2, ReferenceCounts
  <2>5. g.func # Plep
    <3>1. CASE aborted BY <2>3, <3>1, Distinct DEF State
    <3>2. CASE ~aborted
      <4>1. g.end \in Int BY <2>3, <3>2 DEF State, Economy
      <4>2. now > g.end BY <2>1 DEF Finished
      <4>3. pars.window[2] \in Nat BY <1>2, WindowType
      <4> HIDE DEF g
      <4> QED BY <1>2, <2>3, <4>1, <4>2, <4>3 DEF InWindow
    <3> QED BY <3>1, <3>2
  <2>6. CASE at' = "end" /\ cc' = g /\ UNCHANGED <<now, mode, tripped, played>>
    <3>1. CcTyped(cc') /\ cc'.eco.log <= 2 * n BY <2>3, <2>6 DEF State
    <3>2. NextTypes BY <1>2, <2>1, <2>2, <2>3, <2>6, <3>1 DEF NextTypes, n
    <3> QED BY <2>6, <3>2 DEF NextState
  <2>7. ASSUME NEW s \in StartFunction(g, mode), TripOrNot(s.cc, s.mode), at' = at,
               played' = IF s.cc.func = Ramp THEN played ELSE Append(played, s.cc.idx)
        PROVE  NextTypes /\ NextState
    <3> HIDE DEF g
    <3>1. /\ State(s.cc, s.mode, now + 1, aborted, IF s.cc.func = Ramp THEN n ELSE n + 1)
          /\ s.mode \in Modes /\ CcTyped(s.cc)
      BY <1>2, <2>3, <2>4, <2>5, StartState
    <3>2. s.cc.idx \in Nat BY <3>1 DEF CcTyped
    <3>3. played' \in Seq(Nat) /\ Len(played') = (IF s.cc.func = Ramp THEN n ELSE n + 1) /\ Len(played') \in Nat
      <4>1. CASE s.cc.func = Ramp BY <1>2, <2>7, <4>1 DEF n
      <4>2. CASE s.cc.func # Ramp BY <1>2, <2>7, <3>2, <4>2, PlayedOnce DEF n
      <4> QED BY <4>1, <4>2
    <3>4. State(s.cc, s.mode, now + 1, aborted, Len(played')) BY <3>1, <3>3
    <3>5. DirectTyped(direct') BY <2>1, <2>3
    <3> QED BY <1>2, <1>5, <1>10, <2>2, <2>7, <3>1, <3>3, <3>4, <3>5
  <2> QED BY <2>1, <2>6, <2>7
<1>11. CASE AfterTrip /\ now < MaxTime
  <2>1. now' \in {now, now + 1} /\ at' \in {at, "end"} /\ tripped # Never
        /\ UNCHANGED <<pars, runs, cc, mode, direct, tripped, aborted, played>>
    BY <1>11 DEF AfterTrip
  <2>2. NextTypes BY <1>2, <1>4, <1>11, <2>1 DEF NextTypes, n
  <2> QED BY <2>1, <2>2 DEF NextState
<1>12. ASSUME NEW t PROVE /\ CcTyped(Generate(cc, direct, t).cc) /\ DirectTyped(Generate(cc, direct, t).direct)
                          /\ Generate(cc, direct, t).cc.eco.log = cc.eco.log
  <2> DEFINE g == Generate(cc, direct, t)
  <2>1. SameAll(g.cc, cc) BY <1>2, GenerateKeepsAll DEF CcTyped, Shape
  <2>2. DirectTyped(g.direct) BY <1>2, GenerateDirect
  <2> HIDE DEF g
  <2>3. CcTyped(g.cc) /\ g.cc.eco.log = cc.eco.log BY <1>2, <2>1 DEF SameAll, CcTyped, Shape, Fields, Kept
  <2> QED BY <2>2, <2>3 DEF g
<1>13. CASE Forward /\ now < MaxTime
  <2> DEFINE t == now - cc.origin
             g == Generate(cc, direct, t)
             i == cc.idx + 1
             sel == pars.list[i + 1]
             func == FunctionOf(sel)
             origin == now + Plateau
             end == pars.ref[sel].end
             last == t + StopDelay
             over == t > cc.end /\ g.status = "POST"
             b == [g.cc EXCEPT !.idx = i, !.func = func, !.origin = origin, !.end = end]
             d == [g.cc EXCEPT !.idx = i, !.end = last]
  <2>1. CcTyped(g.cc) /\ DirectTyped(g.direct) /\ g.cc.eco.log = cc.eco.log BY <1>12
  <2>2. /\ at = "forward" /\ direct' = g.direct
        /\ UNCHANGED <<pars, runs, mode, tripped, aborted>>
        /\ \/ cc' = g.cc /\ now' = now + 1 /\ at' = at /\ played' = played
           \/ cc' = b /\ now' = now + 1 /\ at' = at /\ played' = Append(played, i)
           \/ cc' = d /\ now' = now + 1 /\ at' = at /\ played' = played
           \/ at' = "end" /\ cc' = g.cc /\ now' = now /\ played' = played
    <3> HIDE DEF t, g, i, sel, func, origin, end, last, over, b, d
    <3>1. Forward <=>
            /\ at = "forward" /\ direct' = g.direct
            /\ \/ ~over /\ cc' = g.cc /\ now' = now + 1 /\ UNCHANGED <<at, played>>
               \/ /\ over /\ i < cc.num /\ now' = now + 1 /\ cc' = b /\ played' = Append(played, i)
                  /\ UNCHANGED at
               \/ /\ over /\ i = cc.num /\ now' = now + 1 /\ cc' = d /\ UNCHANGED <<at, played>>
               \/ /\ over /\ i > cc.num /\ at' = "end" /\ cc' = g.cc /\ UNCHANGED <<now, played>>
            /\ UNCHANGED <<pars, runs, mode, tripped, aborted>>
      BY DEF Forward, t, g, i, sel, func, origin, end, last, over, b, d
    <3> QED BY <1>13, <3>1
  <2>3. i \in Nat BY <1>2 DEF CcTyped
  <2> HIDE DEF g, i, func, origin, end, last
  <2>4. CcTyped(b) /\ b.eco.log = cc.eco.log BY <2>1, <2>3 DEF CcTyped, Shape, Fields, Kept
  <2>5. CcTyped(d) /\ d.eco.log = cc.eco.log BY <2>1, <2>3 DEF CcTyped, Shape, Fields, Kept
  <2> HIDE DEF b, d
  <2>6. CcTyped(cc') /\ cc'.eco.log = cc.eco.log /\ now' \in 0 .. MaxTime /\ at' \in {"forward", "end"}
    BY <1>2, <1>4, <1>13, <2>1, <2>2, <2>4, <2>5
  <2>7. played' \in Seq(Nat) /\ Len(played') \in {n, n + 1}
    BY <1>2, <2>2, <2>3, PlayedOnce DEF n
  <2>8. cc.eco.log \in Nat /\ cc.eco.log <= 2 * Len(played') BY <1>2, <2>7 DEF CcTyped
  <2>9. at' \in {"idle", "end"} \cup Sims BY <1>2, <2>2
  <2>10. NextTypes BY <1>2, <2>1, <2>2, <2>6, <2>7, <2>8, <2>9 DEF NextTypes
  <2> QED BY <2>6, <2>10 DEF NextState
<1>14. CASE Reverse /\ now < MaxTime
  <2> DEFINE t == cc.end + StopDelay - now
  <2>1. /\ at = "reverse" /\ cc' = Generate(cc, direct, t).cc /\ direct' = Generate(cc, direct, t).direct
        /\ now' \in {now, now + 1} /\ at' \in {at, "end"}
        /\ UNCHANGED <<pars, runs, mode, tripped, aborted, played>>
    BY <1>14 DEF Reverse
  <2> HIDE DEF t
  <2>2. CcTyped(cc') /\ DirectTyped(direct') /\ cc'.eco.log = cc.eco.log BY <1>12, <2>1
  <2>3. NextTypes BY <1>2, <1>4, <1>14, <2>1, <2>2 DEF NextTypes, n
  <2> QED BY <2>1, <2>3 DEF NextState
<1>15. CASE UNCHANGED vars
  <2>1. UNCHANGED <<pars, runs, at, now, cc, mode, direct, tripped, aborted, played>> BY <1>15 DEF vars
  <2> QED BY <1>2, <2>1 DEF NextTypes, NextState, n
<1> QED
  BY <1>3, <1>6, <1>8, <1>9, <1>10, <1>11, <1>13, <1>14, <1>15 DEF Next, Iteration

-----------------------------------------------------------------------------
LEMMA PlaysInMode == JInv => InItsMode
<1> SUFFICES ASSUME JInv, at = "load", tripped = Never, Playing # 0
             PROVE  /\ Playing = cc.cycles[cc.idx + 1].sel /\ Playing \in cc.armed
                    /\ mode = pars.ref[Playing].mode
  BY DEF InItsMode, JInv
<1>1. State(cc, mode, now, aborted, Len(played)) BY DEF JInv
<1>2. Playing = PlayingOf(cc) BY DEF Playing, PlayingOf
<1>3. ~aborted
  <2> SUFFICES ASSUME aborted PROVE FALSE
    OBVIOUS
  <2>1. cc.func = Ramp BY <1>1 DEF State
  <2> QED BY <1>2, <2>1, Distinct DEF PlayingOf
<1> QED BY <1>1, <1>2, <1>3 DEF State, Plays

LEMMA PlepLeft == IInv /\ JInv => EcoReturns
<1> SUFFICES ASSUME IInv, JInv PROVE EcoReturns
  OBVIOUS
<1>1. ASSUME at = "load", tripped = Never, cc.func = Plep PROVE now < pars.window[2] + Period
  <2>1. State(cc, mode, now, aborted, Len(played)) BY <1>1 DEF JInv
  <2>2. ~aborted BY <1>1, <2>1, Distinct DEF State
  <2>3. LastCall(now, mode) < pars.window[2] BY <1>1, <2>1, <2>2 DEF State, Economy
  <2>4. now \in Nat /\ pars.window[2] \in Nat BY WindowType DEF IInv
  <2>5. LastCall(now, mode) \in Int /\ now <= LastCall(now, mode) + Period BY <2>4, LastCallBound
  <2> QED BY <2>3, <2>4, <2>5, RunAssumption
<1> QED BY <1>1 DEF EcoReturns, JInv

\* InItsMode, for any functions, play lists, test selectors and windows: what plays, or is replaced
\* by dynamic economy, is the armed function of the present cycle, in its own mode, whatever ramps,
\* aborts and trips came before.
THEOREM InItsModeHolds == Spec => []InItsMode
<1>1. IInv /\ JInv => InItsMode BY PlaysInMode
<1> QED
  BY <1>1, InitInvariant, StepInvariant, InitPlays, StepPlays, PTL DEF Spec

\* EcoReturns, for any functions, windows, regulation periods and advances of the reference: the PLEP of
\* dynamic economy is left by the first regulation period after its window, and each function is
\* left and resumed at most once.
THEOREM EcoReturnsHolds == Spec => []EcoReturns
<1>1. IInv /\ JInv => EcoReturns BY PlepLeft
<1> QED
  BY <1>1, InitInvariant, StepInvariant, InitPlays, StepPlays, PTL DEF Spec
=============================================================================
