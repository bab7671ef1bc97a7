---------------------------- MODULE LimitsProofs ----------------------------
(***************************************************************************)
(* For all limits, currents, references and errors: the flags of Limits are  *)
(* right whenever no limits are being written, and the clip limits of the    *)
(* voltage can be trusted between any two writes of them.                    *)
(*                                                                         *)
(* The inductive invariant says of each structure, for every write of its    *)
(* limits, what that write has settled and no iteration undoes: a threshold  *)
(* is that of the limits, a flag that was cleared is up only if the          *)
(* thresholds in place, which were written before it, say so, and the zone   *)
(* is off from its first write to its last.  New limits begin again at the   *)
(* first write, where nothing is settled.                                    *)
(***************************************************************************)
EXTENDS Limits, TLAPS

-----------------------------------------------------------------------------
(***************************************************************************)
(* Arithmetic.                                                              *)
(***************************************************************************)
\* The square of a whole number is no negative number.
LEMMA SquareNat == \A x \in Int : Square(x) \in Nat
<1>1. ASSUME NEW x \in Int PROVE x * x \in Int /\ x * x >= 0
  <2>1. CASE x >= 0
    BY <2>1
  <2>2. CASE x < 0
    <3>1. -x \in Nat BY <2>2
    <3>2. (-x) * (-x) \in Nat BY <3>1
    <3>3. (-x) * (-x) = x * x OBVIOUS
    <3> QED BY <3>2, <3>3
  <2> QED BY <2>1, <2>2
<1> QED BY <1>1 DEF Square

\* A low-pass filter stays at or above zero when it is fed no less.
LEMMA FilterNat ==
  ASSUME NEW f \in Nat, NEW s \in Nat, NEW tc \in Nat, tc > 0
  PROVE  f + (s - f) \div tc \in Nat
<1> DEFINE q == (s - f) \div tc
<1>1. q \in Int /\ (s - f) >= tc * q /\ (s - f) < tc * q + tc BY SMTT(30)
<1>2. q >= -f
  <2> SUFFICES ASSUME q < -f PROVE FALSE BY <1>1
  <2>1. q + 1 <= -f BY <1>1
  <2>2. tc * (q + 1) <= tc * (-f)
    <3> DEFINE d == -f - (q + 1)
    <3>1. d \in Nat BY <1>1, <2>1
    <3>2. tc * d \in Nat BY <3>1
    <3>3. tc * d = tc * (-f) - tc * (q + 1) BY <1>1, SMTT(30)
    <3>4. tc * (-f) \in Int /\ tc * (q + 1) \in Int BY <1>1
    <3> QED BY <3>2, <3>3, <3>4
  <2>3. tc * (-f) <= -f
    <3>1. (tc - 1) * f \in Nat OBVIOUS
    <3>2. (tc - 1) * f = tc * f - f /\ tc * (-f) = -(tc * f) BY SMTT(30)
    <3>3. tc * f \in Int OBVIOUS
    <3> QED BY <3>1, <3>2, <3>3
  <2>4. tc * (q + 1) = tc * q + tc BY <1>1
  <2>5. tc * q \in Int BY <1>1
  <2> QED BY <1>1, <2>2, <2>3, <2>4, <2>5
<1> QED BY <1>1, <1>2

-----------------------------------------------------------------------------
(***************************************************************************)
(* The limits of a measurement.                                             *)
(***************************************************************************)
\* What the writes of p before the k-th have settled, x the last measurement.
MeasSettled(m, p, k, x) ==
  /\ k > 3 => m.low = p.low
  /\ k > 4 => m.zero = p.zero
  /\ k > 5 => m.lowHyst = Narrower(p.low)
  /\ k > 6 => m.zeroHyst = Narrower(p.zero)
  /\ k > 8 /\ m.lowFlag => m.low > 0 /\ Abs(x) <= m.low
  /\ k > 9 /\ m.zeroFlag => m.zero > 0 /\ Abs(x) <= m.zero

LEMMA MeasWrites ==
  ASSUME NEW p
  PROVE  /\ Len(MeasInit(p)) = 9
         /\ MeasInit(p)[1] = To("posTrip", Wider(p.pos))
         /\ MeasInit(p)[2] = To("negTrip", Wider(p.neg))
         /\ MeasInit(p)[3] = To("low", p.low)
         /\ MeasInit(p)[4] = To("zero", p.zero)
         /\ MeasInit(p)[5] = To("lowHyst", Narrower(p.low))
         /\ MeasInit(p)[6] = To("zeroHyst", Narrower(p.zero))
         /\ MeasInit(p)[7] = To("trip", FALSE)
         /\ MeasInit(p)[8] = To("lowFlag", FALSE)
         /\ MeasInit(p)[9] = To("zeroFlag", FALSE)
BY DEF MeasInit

\* Each write settles its field.
LEMMA MeasPut ==
  ASSUME NEW p \in MeasPars, NEW m \in MeasType, NEW k \in 1 .. 9, NEW x \in Int,
         MeasSettled(m, p, k, x)
  PROVE  LET n == Put(m, MeasInit(p)[k])
         IN n \in MeasType /\ MeasSettled(n, p, k + 1, x)
<1> DEFINE w == MeasInit(p)[k]
           n == Put(m, w)
<1>1. /\ p.pos \in Int /\ p.neg \in Int /\ p.low \in Nat /\ p.zero \in Nat
      /\ Wider(p.pos) \in Int /\ Wider(p.neg) \in Int
      /\ Narrower(p.low) \in Int /\ Narrower(p.zero) \in Int
  <2>1. p \in [pos : Int, neg : Int, low : Nat, zero : Nat] BY MeasAssumption
  <2> QED BY <2>1 DEF Wider, Narrower
<1>2. n = [m EXCEPT ![w.field] = w.value] BY DEF Put
<1> SUFFICES n \in MeasType /\ MeasSettled(n, p, k + 1, x)
  OBVIOUS
<1> HIDE DEF w, n
<1>k1. CASE k = 1
  <2>1. w = To("posTrip", Wider(p.pos)) BY <1>k1, MeasWrites DEF w
  <2>2. n = [m EXCEPT !.posTrip = Wider(p.pos)] BY <1>2, <2>1 DEF To
  <2> QED BY <1>1, <1>k1, <2>2 DEF MeasType, MeasSettled
<1>k2. CASE k = 2
  <2>1. w = To("negTrip", Wider(p.neg)) BY <1>k2, MeasWrites DEF w
  <2>2. n = [m EXCEPT !.negTrip = Wider(p.neg)] BY <1>2, <2>1 DEF To
  <2> QED BY <1>1, <1>k2, <2>2 DEF MeasType, MeasSettled
<1>k3. CASE k = 3
  <2>1. w = To("low", p.low) BY <1>k3, MeasWrites DEF w
  <2>2. n = [m EXCEPT !.low = p.low] BY <1>2, <2>1 DEF To
  <2> QED BY <1>1, <1>k3, <2>2 DEF MeasType, MeasSettled
<1>k4. CASE k = 4
  <2>1. w = To("zero", p.zero) BY <1>k4, MeasWrites DEF w
  <2>2. n = [m EXCEPT !.zero = p.zero] BY <1>2, <2>1 DEF To
  <2> QED BY <1>1, <1>k4, <2>2 DEF MeasType, MeasSettled
<1>k5. CASE k = 5
  <2>1. w = To("lowHyst", Narrower(p.low)) BY <1>k5, MeasWrites DEF w
  <2>2. n = [m EXCEPT !.lowHyst = Narrower(p.low)] BY <1>2, <2>1 DEF To
  <2> QED BY <1>1, <1>k5, <2>2 DEF MeasType, MeasSettled
<1>k6. CASE k = 6
  <2>1. w = To("zeroHyst", Narrower(p.zero)) BY <1>k6, MeasWrites DEF w
  <2>2. n = [m EXCEPT !.zeroHyst = Narrower(p.zero)] BY <1>2, <2>1 DEF To
  <2> QED BY <1>1, <1>k6, <2>2 DEF MeasType, MeasSettled
<1>k7. CASE k = 7
  <2>1. w = To("trip", FALSE) BY <1>k7, MeasWrites DEF w
  <2>2. n = [m EXCEPT !.trip = FALSE] BY <1>2, <2>1 DEF To
  <2>3. n \in MeasType BY <2>2 DEF MeasType
  <2>4. ~n.trip BY <2>2, Zenon DEF MeasType
  <2>5. \A g \in {"low", "zero", "lowHyst", "zeroHyst", "lowFlag", "zeroFlag"} :
           g # "trip" => n[g] = m[g]
    BY <2>2 DEF MeasType
  <2> QED BY <1>k7, <2>3, <2>4, <2>5 DEF MeasSettled
<1>k8. CASE k = 8
  <2>1. w = To("lowFlag", FALSE) BY <1>k8, MeasWrites DEF w
  <2>2. n = [m EXCEPT !.lowFlag = FALSE] BY <1>2, <2>1 DEF To
  <2>3. n \in MeasType BY <2>2 DEF MeasType
  <2>4. ~n.lowFlag BY <2>2, Zenon DEF MeasType
  <2>5. \A g \in {"low", "zero", "lowHyst", "zeroHyst", "lowFlag", "zeroFlag"} :
           g # "lowFlag" => n[g] = m[g]
    BY <2>2 DEF MeasType
  <2> QED BY <1>k8, <2>3, <2>4, <2>5 DEF MeasSettled
<1>k9. CASE k = 9
  <2>1. w = To("zeroFlag", FALSE) BY <1>k9, MeasWrites DEF w
  <2>2. n = [m EXCEPT !.zeroFlag = FALSE] BY <1>2, <2>1 DEF To
  <2>3. n \in MeasType BY <2>2 DEF MeasType
  <2>4. ~n.zeroFlag BY <2>2, Zenon DEF MeasType
  <2>5. \A g \in {"low", "zero", "lowHyst", "zeroHyst", "lowFlag", "zeroFlag"} :
           g # "zeroFlag" => n[g] = m[g]
    BY <2>2 DEF MeasType
  <2> QED BY <1>k9, <2>3, <2>4, <2>5 DEF MeasSettled
<1> QED BY <1>k1, <1>k2, <1>k3, <1>k4, <1>k5, <1>k6, <1>k7, <1>k8, <1>k9

\* An iteration undoes nothing that is settled, whatever it measures.
LEMMA MeasCheck ==
  ASSUME NEW p \in MeasPars, NEW m \in MeasType, NEW k \in 1 .. 10, NEW x, NEW i \in Int,
         MeasSettled(m, p, k, x)
  PROVE  MeasRT(m, i) \in MeasType /\ MeasSettled(MeasRT(m, i), p, k, i)
<1> DEFINE n == MeasRT(m, i)
<1>1. p.low \in Nat /\ p.zero \in Nat /\ Abs(i) \in Nat
      /\ Narrower(p.low) <= p.low /\ Narrower(p.low) \in Int
      /\ Narrower(p.zero) <= p.zero /\ Narrower(p.zero) \in Int
  BY MeasAssumption DEF Narrower, Abs
<1>2. ASSUME NEW flag \in BOOLEAN, NEW y \in Int, NEW l \in Int, NEW h \in Int
      PROVE  /\ Below(flag, y, l, h) \in BOOLEAN
             /\ h <= l /\ (flag => l > 0) /\ Below(flag, y, l, h) => l > 0 /\ y <= l
  <2>1. CASE ~(l > 0)
    <3>1. Below(flag, y, l, h) = flag BY <2>1, Zenon DEF Below
    <3>2. Below(flag, y, l, h) \in BOOLEAN BY <3>1, Zenon
    <3>3. ~((flag => l > 0) /\ Below(flag, y, l, h)) BY <2>1, <3>1, Zenon
    <3> QED BY <3>2, <3>3, Zenon
  <2>2. CASE l > 0 /\ flag
    <3>1. Below(flag, y, l, h) = (y <= l) BY <2>2, Zenon DEF Below
    <3>2. (y <= l) \in BOOLEAN OBVIOUS
    <3> QED BY <2>2, <3>1, <3>2, Zenon
  <2>3. CASE l > 0 /\ ~flag
    <3>1. Below(flag, y, l, h) = (y < h) BY <2>3, Zenon DEF Below
    <3>2. (y < h) \in BOOLEAN OBVIOUS
    <3>3. h <= l /\ y < h => y <= l OBVIOUS
    <3> QED BY <2>3, <3>1, <3>2, <3>3, Zenon
  <2> QED BY <2>1, <2>2, <2>3, Zenon
<1>3. /\ n \in MeasType
      /\ \A f \in {"low", "zero", "lowHyst", "zeroHyst"} : n[f] = m[f]
      /\ n.lowFlag = Below(m.lowFlag, Abs(i), m.low, m.lowHyst)
      /\ n.zeroFlag = Below(m.zeroFlag, Abs(i), m.zero, m.zeroHyst)
  <2>1. m.lowFlag \in BOOLEAN /\ m.zeroFlag \in BOOLEAN /\ m.low \in Int /\ m.zero \in Int
        /\ m.lowHyst \in Int /\ m.zeroHyst \in Int
    BY DEF MeasType
  <2>2. /\ Below(m.lowFlag, Abs(i), m.low, m.lowHyst) \in BOOLEAN
        /\ Below(m.zeroFlag, Abs(i), m.zero, m.zeroHyst) \in BOOLEAN
    BY <1>1, <1>2, <2>1
  <2> QED BY <2>1, <2>2 DEF MeasRT, MeasType
<1> HIDE DEF n
<1>4. /\ k > 3 => n.low = p.low
      /\ k > 4 => n.zero = p.zero
      /\ k > 5 => n.lowHyst = Narrower(p.low)
      /\ k > 6 => n.zeroHyst = Narrower(p.zero)
  BY <1>3 DEF MeasSettled
<1>5. ASSUME k > 8, n.lowFlag PROVE n.low > 0 /\ Abs(i) <= n.low
  <2>1. m.low = p.low /\ m.lowHyst = Narrower(p.low) /\ (m.lowFlag => m.low > 0)
    BY <1>5 DEF MeasSettled
  <2>2. m.lowFlag \in BOOLEAN BY DEF MeasType
  <2>3. m.low \in Int /\ m.lowHyst \in Int /\ m.lowHyst <= m.low BY <1>1, <2>1
  <2>4. Abs(i) \in Int /\ Below(m.lowFlag, Abs(i), m.low, m.lowHyst) BY <1>1, <1>3, <1>5
  <2>5. m.low > 0 /\ Abs(i) <= m.low BY <1>2, <2>1, <2>2, <2>3, <2>4, Zenon
  <2> QED BY <1>3, <2>5
<1>6. ASSUME k > 9, n.zeroFlag PROVE n.zero > 0 /\ Abs(i) <= n.zero
  <2>1. m.zero = p.zero /\ m.zeroHyst = Narrower(p.zero) /\ (m.zeroFlag => m.zero > 0)
    BY <1>6 DEF MeasSettled
  <2>2. m.zeroFlag \in BOOLEAN BY DEF MeasType
  <2>3. m.zero \in Int /\ m.zeroHyst \in Int /\ m.zeroHyst <= m.zero BY <1>1, <2>1
  <2>4. Abs(i) \in Int /\ Below(m.zeroFlag, Abs(i), m.zero, m.zeroHyst) BY <1>1, <1>3, <1>6
  <2>5. m.zero > 0 /\ Abs(i) <= m.zero BY <1>2, <2>1, <2>2, <2>3, <2>4, Zenon
  <2> QED BY <1>3, <2>5
<1> QED BY <1>3, <1>4, <1>5, <1>6 DEF MeasSettled, n

-----------------------------------------------------------------------------
(***************************************************************************)
(* The RMS limits.                                                          *)
(***************************************************************************)
\* What the writes of p before the k-th have settled.
RmsSettled(r, p, k) ==
  /\ k > 1 => r.tc = p.tc
  /\ p.tc = 0 => (k > 2 => ~r.faultFlag) /\ (k > 3 => ~r.warningFlag)
  /\ p.tc > 0 =>
       /\ k > 2 => r.fault = Square(p.fault)
       /\ k > 3 => r.warning = Square(p.warning)
       /\ k > 4 => r.hyst = (8 * Square(p.warning)) \div 10
       /\ k > 5 /\ r.faultFlag => r.fault > 0 /\ r.filter > r.fault
       /\ k > 6 /\ r.warningFlag => r.warning > 0 /\ r.filter >= r.hyst

LEMMA RmsWrites ==
  ASSUME NEW p, p.tc \in Nat
  PROVE  /\ p.tc = 0 => /\ Len(RmsInit(p)) = 3
                        /\ RmsInit(p)[1] = To("tc", 0)
                        /\ RmsInit(p)[2] = To("faultFlag", FALSE)
                        /\ RmsInit(p)[3] = To("warningFlag", FALSE)
         /\ p.tc > 0 => /\ Len(RmsInit(p)) = 6
                        /\ RmsInit(p)[1] = To("tc", p.tc)
                        /\ RmsInit(p)[2] = To("fault", Square(p.fault))
                        /\ RmsInit(p)[3] = To("warning", Square(p.warning))
                        /\ RmsInit(p)[4] = To("hyst", (8 * Square(p.warning)) \div 10)
                        /\ RmsInit(p)[5] = To("faultFlag", FALSE)
                        /\ RmsInit(p)[6] = To("warningFlag", FALSE)
<1>1. CASE p.tc = 0
  <2>1. RmsInit(p) = << To("tc", 0) >> \o << To("faultFlag", FALSE), To("warningFlag", FALSE) >>
    BY <1>1 DEF RmsInit, RmsFlagsOff
  <2> DEFINE a == To("tc", 0)
             b == To("faultFlag", FALSE)
             c == To("warningFlag", FALSE)
             s == RmsInit(p)
  <2>2. s = << a >> \o << b, c >> BY <2>1
  <2>3. Len(s) = 3 /\ s[1] = a /\ s[2] = b /\ s[3] = c
    <3> HIDE DEF a, b, c, s
    <3> QED BY <2>2
  <2> QED BY <1>1, <2>3
<1>2. CASE p.tc > 0
  <2>1. RmsInit(p) = << To("tc", p.tc), To("fault", Square(p.fault)),
                        To("warning", Square(p.warning)),
                        To("hyst", (8 * Square(p.warning)) \div 10) >>
                     \o << To("faultFlag", FALSE), To("warningFlag", FALSE) >>
    BY <1>2 DEF RmsInit, RmsFlagsOff
  <2> DEFINE a == To("tc", p.tc)
             b == To("fault", Square(p.fault))
             c == To("warning", Square(p.warning))
             d == To("hyst", (8 * Square(p.warning)) \div 10)
             e == To("faultFlag", FALSE)
             f == To("warningFlag", FALSE)
             s == RmsInit(p)
  <2>2. s = << a, b, c, d >> \o << e, f >> BY <2>1
  <2>3. /\ Len(s) = 6
        /\ s[1] = a /\ s[2] = b /\ s[3] = c /\ s[4] = d /\ s[5] = e /\ s[6] = f
    <3> HIDE DEF a, b, c, d, e, f, s
    <3> QED BY <2>2
  <2> QED BY <1>2, <2>3
<1> QED BY <1>1, <1>2

\* Each write settles its field.
LEMMA RmsPut ==
  ASSUME NEW p \in RmsPars, NEW r \in RmsType, NEW k \in 1 .. Len(RmsInit(p)),
         RmsSettled(r, p, k)
  PROVE  LET n == Put(r, RmsInit(p)[k])
         IN n \in RmsType /\ RmsSettled(n, p, k + 1)
<1> DEFINE w == RmsInit(p)[k]
           n == Put(r, w)
<1>1. /\ p.tc \in Nat
      /\ Square(p.fault) \in Nat /\ Square(p.warning) \in Nat
      /\ Square(p.fault) \in Int /\ Square(p.warning) \in Int
      /\ (8 * Square(p.warning)) \div 10 \in Int
  <2>1. p \in [warning : Nat, fault : Nat, tc : Nat] BY RmsAssumption
  <2>2. p.tc \in Nat /\ p.fault \in Int /\ p.warning \in Int BY <2>1
  <2>3. Square(p.fault) \in Nat /\ Square(p.warning) \in Nat BY <2>2, SquareNat
  <2> QED BY <2>2, <2>3
<1>2. n = [r EXCEPT ![w.field] = w.value] BY DEF Put
<1> SUFFICES n \in RmsType /\ RmsSettled(n, p, k + 1)
  OBVIOUS
<1> HIDE DEF w, n
<1>3. CASE p.tc = 0
  <2>1. k \in 1 .. 3 BY <1>1, <1>3, RmsWrites
  <2>k1. CASE k = 1
    <3>1. w = To("tc", 0) BY <1>3, <1>1, <2>k1, RmsWrites DEF w
    <3>2. n = [r EXCEPT !.tc = 0] BY <1>2, <3>1 DEF To
    <3>3. n \in RmsType BY <1>1, <3>2 DEF RmsType
    <3> QED BY <1>3, <1>1, <2>k1, <3>2, <3>3 DEF RmsType, RmsSettled
  <2>k2. CASE k = 2
    <3>1. w = To("faultFlag", FALSE) BY <1>3, <1>1, <2>k2, RmsWrites DEF w
    <3>2. n = [r EXCEPT !.faultFlag = FALSE] BY <1>2, <3>1 DEF To
    <3>3. n \in RmsType BY <1>1, <3>2 DEF RmsType
    <3>4. ~n.faultFlag BY <3>2, Zenon DEF RmsType
    <3>5. \A g \in {"tc", "fault", "warning", "hyst", "filter", "faultFlag", "warningFlag"} :
             g # "faultFlag" => n[g] = r[g]
      BY <3>2 DEF RmsType
    <3> QED BY <1>3, <2>k2, <3>3, <3>4, <3>5 DEF RmsSettled
  <2>k3. CASE k = 3
    <3>1. w = To("warningFlag", FALSE) BY <1>3, <1>1, <2>k3, RmsWrites DEF w
    <3>2. n = [r EXCEPT !.warningFlag = FALSE] BY <1>2, <3>1 DEF To
    <3>3. n \in RmsType BY <1>1, <3>2 DEF RmsType
    <3>4. ~n.warningFlag BY <3>2, Zenon DEF RmsType
    <3>5. \A g \in {"tc", "fault", "warning", "hyst", "filter", "faultFlag", "warningFlag"} :
             g # "warningFlag" => n[g] = r[g]
      BY <3>2 DEF RmsType
    <3> QED BY <1>3, <2>k3, <3>3, <3>4, <3>5 DEF RmsSettled
  <2> QED BY <2>1, <2>k1, <2>k2, <2>k3
<1>4. CASE p.tc > 0
  <2>1. k \in 1 .. 6 BY <1>1, <1>4, RmsWrites
  <2>k1. CASE k = 1
    <3>1. w = To("tc", p.tc) BY <1>4, <1>1, <2>k1, RmsWrites DEF w
    <3>2. n = [r EXCEPT !.tc = p.tc] BY <1>2, <3>1 DEF To
    <3>3. n \in RmsType BY <1>1, <3>2 DEF RmsType
    <3> QED BY <1>4, <1>1, <2>k1, <3>2, <3>3 DEF RmsType, RmsSettled
  <2>k2. CASE k = 2
    <3>1. w = To("fault", Square(p.fault)) BY <1>4, <1>1, <2>k2, RmsWrites DEF w
    <3>2. n = [r EXCEPT !.fault = Square(p.fault)] BY <1>2, <3>1 DEF To
    <3>3. n \in RmsType BY <1>1, <3>2 DEF RmsType
    <3> QED BY <1>4, <1>1, <2>k2, <3>2, <3>3 DEF RmsType, RmsSettled
  <2>k3. CASE k = 3
    <3>1. w = To("warning", Square(p.warning)) BY <1>4, <1>1, <2>k3, RmsWrites DEF w
    <3>2. n = [r EXCEPT !.warning = Square(p.warning)] BY <1>2, <3>1 DEF To
    <3>3. n \in RmsType BY <1>1, <3>2 DEF RmsType
    <3> QED BY <1>4, <1>1, <2>k3, <3>2, <3>3 DEF RmsType, RmsSettled
  <2>k4. CASE k = 4
    <3>1. w = To("hyst", (8 * Square(p.warning)) \div 10) BY <1>4, <1>1, <2>k4, RmsWrites DEF w
    <3>2. n = [r EXCEPT !.hyst = (8 * Square(p.warning)) \div 10] BY <1>2, <3>1 DEF To
    <3>3. n \in RmsType BY <1>1, <3>2 DEF RmsType
    <3> QED BY <1>4, <1>1, <2>k4, <3>2, <3>3 DEF RmsType, RmsSettled
  <2>k5. CASE k = 5
    <3>1. w = To("faultFlag", FALSE) BY <1>4, <1>1, <2>k5, RmsWrites DEF w
    <3>2. n = [r EXCEPT !.faultFlag = FALSE] BY <1>2, <3>1 DEF To
    <3>3. n \in RmsType BY <1>1, <3>2 DEF RmsType
    <3>4. ~n.faultFlag BY <3>2, Zenon DEF RmsType
    <3>5. \A g \in {"tc", "fault", "warning", "hyst", "filter", "faultFlag", "warningFlag"} :
             g # "faultFlag" => n[g] = r[g]
      BY <3>2 DEF RmsType
    <3> QED BY <1>4, <2>k5, <3>3, <3>4, <3>5 DEF RmsSettled
  <2>k6. CASE k = 6
    <3>1. w = To("warningFlag", FALSE) BY <1>4, <1>1, <2>k6, RmsWrites DEF w
    <3>2. n = [r EXCEPT !.warningFlag = FALSE] BY <1>2, <3>1 DEF To
    <3>3. n \in RmsType BY <1>1, <3>2 DEF RmsType
    <3>4. ~n.warningFlag BY <3>2, Zenon DEF RmsType
    <3>5. \A g \in {"tc", "fault", "warning", "hyst", "filter", "faultFlag", "warningFlag"} :
             g # "warningFlag" => n[g] = r[g]
      BY <3>2 DEF RmsType
    <3> QED BY <1>4, <2>k6, <3>3, <3>4, <3>5 DEF RmsSettled
  <2> QED BY <2>1, <2>k1, <2>k2, <2>k3, <2>k4, <2>k5, <2>k6
<1> QED BY <1>1, <1>3, <1>4

\* An iteration undoes nothing that is settled, and the filter stays at or above
\* zero, whichever time constant it meets.
LEMMA RmsCheck ==
  ASSUME NEW p \in RmsPars, NEW r \in RmsType, NEW k \in Nat, NEW i \in Int,
         RmsSettled(r, p, k)
  PROVE  MeasRmsRT(r, i) \in RmsType /\ RmsSettled(MeasRmsRT(r, i), p, k)
<1> DEFINE n == MeasRmsRT(r, i)
           f == r.filter + (Square(i) - r.filter) \div r.tc
<1>1. CASE r.tc = 0
  BY <1>1 DEF MeasRmsRT
<1>2. CASE r.tc # 0
  <2>1. r.filter \in Nat /\ r.tc \in Nat /\ r.tc > 0 /\ Square(i) \in Nat
        /\ r.fault \in Int /\ r.warning \in Int /\ r.hyst \in Int
    BY <1>2, SquareNat DEF RmsType
  <2>2. f \in Nat BY <2>1, FilterNat
  <2> DEFINE ff == r.fault > 0 /\ f > r.fault
             wf == IF r.warning > 0
                   THEN (IF r.warningFlag THEN f >= r.hyst ELSE f > r.warning)
                   ELSE r.warningFlag
  <2>3. n = [r EXCEPT !.filter = f, !.faultFlag = ff, !.warningFlag = wf]
    BY <1>2 DEF MeasRmsRT
  <2> HIDE DEF f, n
  <2>4. ff \in BOOLEAN OBVIOUS
  <2>5. r.warningFlag \in BOOLEAN BY DEF RmsType
  <2>6. wf \in BOOLEAN
    <3>1. (f >= r.hyst) \in BOOLEAN /\ (f > r.warning) \in BOOLEAN OBVIOUS
    <3> QED BY <2>5, <3>1, Zenon
  <2>7. n \in RmsType
    <3> HIDE DEF ff, wf
    <3> QED BY <2>2, <2>3, <2>4, <2>6 DEF RmsType
  <2>8. /\ n.filter = f /\ n.faultFlag = ff /\ n.warningFlag = wf /\ n.tc = r.tc
        /\ n.fault = r.fault /\ n.warning = r.warning /\ n.hyst = r.hyst
    <3> HIDE DEF ff, wf
    <3> QED BY <2>3 DEF RmsType
  <2> HIDE DEF ff, wf
  <2>9. CASE p.tc = 0
    BY <1>2, <2>7, <2>8, <2>9 DEF RmsSettled, n
  <2>10. CASE p.tc # 0
    <3>1. p.tc > 0 /\ Square(p.warning) \in Nat
      <4>1. p.tc \in Nat /\ p.warning \in Int BY RmsAssumption
      <4> QED BY <2>10, <4>1, SquareNat
    <3>2. /\ k > 1 => n.tc = p.tc
          /\ k > 2 => n.fault = Square(p.fault)
          /\ k > 3 => n.warning = Square(p.warning)
          /\ k > 4 => n.hyst = (8 * Square(p.warning)) \div 10
      BY <2>8, <3>1 DEF RmsSettled
    <3>3. ASSUME k > 5, n.faultFlag PROVE n.fault > 0 /\ n.filter > n.fault
      <4>1. ff BY <2>8, <3>3, Zenon
      <4> QED BY <2>8, <4>1 DEF ff
    <3>4. ASSUME k > 6, n.warningFlag PROVE n.warning > 0 /\ n.filter >= n.hyst
      <4>1. wf BY <2>8, <3>4, Zenon
      <4>2. r.warning = Square(p.warning) /\ r.hyst = (8 * Square(p.warning)) \div 10
        BY <3>1, <3>4 DEF RmsSettled
      <4>3. r.hyst <= r.warning BY <3>1, <4>2
      <4>4. r.warningFlag => r.warning > 0 BY <3>1, <3>4 DEF RmsSettled
      <4>5. CASE r.warning > 0 /\ r.warningFlag
        <5>1. f >= r.hyst BY <4>1, <4>5, Zenon DEF wf
        <5> QED BY <2>8, <4>5, <5>1
      <4>6. CASE r.warning > 0 /\ ~r.warningFlag
        <5>1. f > r.warning BY <4>1, <4>6, Zenon DEF wf
        <5> QED BY <2>1, <2>2, <2>8, <4>3, <4>6, <5>1
      <4>7. CASE ~(r.warning > 0)
        <5>1. r.warningFlag BY <4>1, <4>7, Zenon DEF wf
        <5> QED BY <4>4, <4>7, <5>1, Zenon
      <4> QED BY <4>5, <4>6, <4>7
    <3> QED BY <2>7, <2>10, <3>2, <3>3, <3>4 DEF RmsSettled, n
  <2> QED BY <2>9, <2>10
<1> QED BY <1>1, <1>2

-----------------------------------------------------------------------------
(***************************************************************************)
(* The limits of the voltage reference.                                     *)
(***************************************************************************)
AtMostZero == {n \in Int : n <= 0}

VrefSigned ==
  [invert : BOOLEAN, rateClip : Int, maxUser : Nat, minUser : AtMostZero, iMax : Int,
   v0 : Int, dvdi : Int, maxClip : Nat, minClip : AtMostZero, ref : Int]

LEMMA SignedType == VrefSigned \subseteq VrefType
BY DEF VrefSigned, VrefType, AtMostZero

\* The zone in use, if any, is that of one set of limits.
OneZone(v) ==
  v.iMax # Disabled =>
     \E p \in VrefPars : /\ HasZone(p)
                         /\ Zone(p) = [v0 |-> v.v0, dvdi |-> v.dvdi, iMax |-> v.iMax]

\* What the writes of p before the k-th have settled; once the real-time thread
\* runs, there is one zone at any time.
VrefSettled(v, p, k, on) ==
  /\ on \/ k > 4 => OneZone(v)
  /\ HasZone(p) => /\ k \in 5 .. 7 => v.iMax = Disabled
                   /\ k \in 6 .. 7 => v.dvdi = Zone(p).dvdi
                   /\ k = 7 => v.v0 = Zone(p).v0

LEMMA VrefWrites ==
  ASSUME NEW p
  PROVE  /\ VrefInit(p)[1] = To("rateClip", Wider(p.rate))
         /\ VrefInit(p)[2] = To("maxUser", Wider(p.pos))
         /\ VrefInit(p)[3] = To("minUser", IF p.neg < 0 THEN Wider(p.neg) ELSE 0)
         /\ VrefInit(p)[4] = To("iMax", Disabled)
         /\ HasZone(p) => /\ Len(VrefInit(p)) = 8
                          /\ VrefInit(p)[5] = To("dvdi", Zone(p).dvdi)
                          /\ VrefInit(p)[6] = To("v0", Zone(p).v0)
                          /\ VrefInit(p)[7] = To("iMax", Zone(p).iMax)
                          /\ VrefInit(p)[8] = To("calc", 0)
         /\ ~HasZone(p) => Len(VrefInit(p)) = 5 /\ VrefInit(p)[5] = To("calc", 0)
<1> DEFINE a == To("rateClip", Wider(p.rate))
           b == To("maxUser", Wider(p.pos))
           c == To("minUser", IF p.neg < 0 THEN Wider(p.neg) ELSE 0)
           d == To("iMax", Disabled)
           e == To("dvdi", Zone(p).dvdi)
           f == To("v0", Zone(p).v0)
           g == To("iMax", Zone(p).iMax)
           h == To("calc", 0)
           s == VrefInit(p)
<1>1. CASE HasZone(p)
  <2>1. s = << a, b, c >> \o << d >> \o << e, f, g >> \o << h >>
    BY <1>1 DEF VrefInit, UserClips, ZoneWrites
  <2>2. /\ Len(s) = 8
        /\ s[1] = a /\ s[2] = b /\ s[3] = c /\ s[4] = d
        /\ s[5] = e /\ s[6] = f /\ s[7] = g /\ s[8] = h
    <3> HIDE DEF a, b, c, d, e, f, g, h, s
    <3> QED BY <2>1
  <2> QED BY <1>1, <2>2
<1>2. CASE ~HasZone(p)
  <2>1. s = << a, b, c >> \o << d >> \o << >> \o << h >>
    BY <1>2 DEF VrefInit, UserClips, ZoneWrites
  <2>2. Len(s) = 5 /\ s[1] = a /\ s[2] = b /\ s[3] = c /\ s[4] = d /\ s[5] = h
    <3> HIDE DEF a, b, c, d, e, f, g, h, s
    <3> QED BY <2>1
  <2> QED BY <1>2, <2>2
<1> QED BY <1>1, <1>2

\* The limits for any current admit zero volts, and the zone is left alone.
LEMMA VrefCalc ==
  ASSUME NEW v \in VrefSigned, NEW i \in Int
  PROVE  /\ VrefCalcRT(v, i) \in VrefSigned
         /\ \A f \in {"v0", "dvdi", "iMax"} : VrefCalcRT(v, i)[f] = v[f]
<1> DEFINE j == IF v.invert THEN -i ELSE i
           max == IF j < v.iMax
                  THEN Least(v.maxUser, Most(0, v.v0 + v.dvdi * j)) ELSE v.maxUser
           min == IF j > -v.iMax
                  THEN Most(v.minUser, Least(0, v.dvdi * j - v.v0)) ELSE v.minUser
<1>1. /\ v.iMax \in Int /\ v.v0 \in Int /\ v.dvdi \in Int
      /\ v.maxUser \in Nat /\ v.minUser \in Int /\ v.minUser <= 0
  BY DEF VrefSigned, AtMostZero
<1>2. j \in Int OBVIOUS
<1>3. VrefCalcRT(v, i) = [v EXCEPT !.maxClip = max, !.minClip = min]
  BY DEF VrefCalcRT
<1> HIDE DEF j
<1>4. v.dvdi * j \in Int BY <1>1, <1>2
<1>5. max \in Nat BY <1>1, <1>4 DEF Least, Most
<1>6. min \in AtMostZero BY <1>1, <1>4 DEF Least, Most, AtMostZero
<1> HIDE DEF max, min
<1> QED BY <1>3, <1>5, <1>6 DEF VrefSigned

\* The reference is a whole number, and nothing but it changes.
LEMMA RefRTType ==
  ASSUME NEW v \in VrefSigned, NEW ref \in Int
  PROVE  /\ RefRT(v, ref) \in VrefSigned
         /\ \A f \in {"v0", "dvdi", "iMax"} : RefRT(v, ref)[f] = v[f]
<1> DEFINE r == Clip(v, ref)
           n == IF v.rateClip = 0 THEN r
                ELSE IF r > v.ref THEN Least(r, v.ref + v.rateClip)
                ELSE Most(r, v.ref - v.rateClip)
<1>1. v.maxClip \in Int /\ v.minClip \in Int /\ v.ref \in Int /\ v.rateClip \in Int
  BY DEF VrefSigned, AtMostZero
<1>2. r \in Int BY <1>1 DEF Clip
<1> HIDE DEF r
<1>3. n \in Int BY <1>1, <1>2 DEF Least, Most
<1>4. RefRT(v, ref) = [v EXCEPT !.ref = n] BY DEF RefRT, r
<1> HIDE DEF n
<1> QED BY <1>3, <1>4 DEF VrefSigned

\* An iteration leaves the zone alone.
LEMMA VrefCheck ==
  ASSUME NEW v \in VrefSigned, NEW p, NEW k, NEW on, NEW i \in Int, NEW ref \in Int,
         VrefSettled(v, p, k, on)
  PROVE  LET n == RefRT(VrefCalcRT(v, i), ref)
         IN n \in VrefSigned /\ VrefSettled(n, p, k, on)
<1> DEFINE c == VrefCalcRT(v, i)
           n == RefRT(c, ref)
<1>1. c \in VrefSigned /\ \A f \in {"v0", "dvdi", "iMax"} : c[f] = v[f] BY VrefCalc
<1> HIDE DEF c
<1>2. n \in VrefSigned /\ \A f \in {"v0", "dvdi", "iMax"} : n[f] = c[f] BY <1>1, RefRTType
<1>3. n.v0 = v.v0 /\ n.dvdi = v.dvdi /\ n.iMax = v.iMax BY <1>1, <1>2
<1>4. VrefSettled(n, p, k, on)
  <2> HIDE DEF n
  <2>1. OneZone(v) => OneZone(n) BY <1>3 DEF OneZone
  <2> QED BY <1>3, <2>1 DEF VrefSettled
<1> QED BY <1>2, <1>4 DEF c

LEMMA ZoneType ==
  ASSUME NEW p \in VrefPars, HasZone(p)
  PROVE  /\ Zone(p).v0 \in Int /\ Zone(p).dvdi \in Int /\ Zone(p).iMax \in Int
         /\ Zone(p) = [v0 |-> Zone(p).v0, dvdi |-> Zone(p).dvdi, iMax |-> Zone(p).iMax]
<1> DEFINE di == p.i[2] - p.i[1]
           dv == p.v[2] - p.v[1]
<1>1. p.i[1] \in Int /\ p.i[2] \in Int /\ p.v[1] \in Int /\ p.v[2] \in Int
  BY VrefAssumption
<1>2. di \in Int /\ dv \in Int /\ di > 0 BY <1>1 DEF HasZone
<1> HIDE DEF di, dv
<1>3. Slope(p) \in Int BY <1>2 DEF Slope, di, dv
<1>4. Slope(p) * p.i[1] \in Int BY <1>1, <1>3
<1>5. Wider(p.v[1] - Slope(p) * p.i[1]) \in Int BY <1>1, <1>4 DEF Wider
<1> QED BY <1>1, <1>3, <1>5 DEF Zone

\* Each write settles its field, and there is never more than one zone in use.
LEMMA VrefPut ==
  ASSUME NEW p \in VrefPars, NEW v \in VrefSigned, NEW k \in 1 .. Len(VrefInit(p)), NEW on,
         VrefSettled(v, p, k, on)
  PROVE  LET n == WriteVref(v, VrefInit(p)[k])
         IN n \in VrefSigned /\ VrefSettled(n, p, k + 1, on)
<1> DEFINE w == VrefInit(p)[k]
           n == WriteVref(v, w)
<1>1. w.field # "calc" => n = [v EXCEPT ![w.field] = w.value] BY DEF Put, WriteVref
<1>2. w.field = "calc" => n = VrefCalcRT(v, w.value) BY DEF WriteVref
<1>3. p.pos \in Nat /\ p.neg \in Int /\ p.rate \in Nat BY VrefAssumption
<1> SUFFICES n \in VrefSigned /\ VrefSettled(n, p, k + 1, on)
  OBVIOUS
<1> HIDE DEF w, n
<1>4. ASSUME k \in 1 .. 3 PROVE n \in VrefSigned /\ VrefSettled(n, p, k + 1, on)
  <2>1. k = 1 => w = To("rateClip", Wider(p.rate)) BY VrefWrites DEF w
  <2>2. k = 2 => w = To("maxUser", Wider(p.pos)) BY VrefWrites DEF w
  <2>3. k = 3 => w = To("minUser", IF p.neg < 0 THEN Wider(p.neg) ELSE 0)
    BY VrefWrites DEF w
  <2>4. Wider(p.rate) \in Int /\ Wider(p.pos) \in Nat
        /\ (IF p.neg < 0 THEN Wider(p.neg) ELSE 0) \in AtMostZero
    BY <1>3 DEF Wider, AtMostZero
  <2>5. n \in VrefSigned /\ n.v0 = v.v0 /\ n.dvdi = v.dvdi /\ n.iMax = v.iMax
    <3> DEFINE min == IF p.neg < 0 THEN Wider(p.neg) ELSE 0
    <3>1. k = 1 => n = [v EXCEPT !.rateClip = Wider(p.rate)] BY <1>1, <2>1 DEF To
    <3>2. k = 2 => n = [v EXCEPT !.maxUser = Wider(p.pos)] BY <1>1, <2>2 DEF To
    <3>3. k = 3 => n = [v EXCEPT !.minUser = min] BY <1>1, <2>3 DEF To
    <3> HIDE DEF min
    <3>4. min \in AtMostZero BY <2>4 DEF min
    <3>5. CASE k = 1 BY <2>4, <3>1, <3>5 DEF VrefSigned
    <3>6. CASE k = 2 BY <2>4, <3>2, <3>6 DEF VrefSigned
    <3>7. CASE k = 3 BY <3>3, <3>4, <3>7 DEF VrefSigned
    <3> QED BY <1>4, <3>5, <3>6, <3>7
  <2>6. OneZone(v) => OneZone(n) BY <2>5 DEF OneZone
  <2> QED BY <1>4, <2>5, <2>6 DEF VrefSettled
<1>5. CASE k = 4
  <2>1. w = To("iMax", Disabled) BY <1>5, VrefWrites DEF w
  <2>2. n = [v EXCEPT !.iMax = Disabled] BY <1>1, <2>1 DEF To
  <2>3. Disabled \in Int BY DEF Disabled
  <2>4. n \in VrefSigned /\ n.iMax = Disabled
    <3> HIDE DEF Disabled
    <3> QED BY <2>2, <2>3 DEF VrefSigned
  <2>5. OneZone(n) BY <2>4 DEF OneZone
  <2> QED BY <1>5, <2>4, <2>5 DEF VrefSettled
<1>6. ASSUME w = To("calc", 0), k \in {5, 8}, k = 5 => ~HasZone(p)
      PROVE  n \in VrefSigned /\ VrefSettled(n, p, k + 1, on)
  <2>1. n = VrefCalcRT(v, 0) BY <1>2, <1>6 DEF To
  <2>2. n \in VrefSigned /\ n.v0 = v.v0 /\ n.dvdi = v.dvdi /\ n.iMax = v.iMax
    <3>1. 0 \in Int OBVIOUS
    <3>2. /\ VrefCalcRT(v, 0) \in VrefSigned
          /\ \A f \in {"v0", "dvdi", "iMax"} : VrefCalcRT(v, 0)[f] = v[f]
      BY <3>1, VrefCalc
    <3> QED BY <2>1, <3>2
  <2>3. OneZone(v) => OneZone(n) BY <2>2 DEF OneZone
  <2> QED BY <1>6, <2>2, <2>3 DEF VrefSettled
<1>7. CASE ~HasZone(p)
  <2>1. k \in 1 .. 5 /\ (k = 5 => w = To("calc", 0)) BY <1>7, VrefWrites DEF w
  <2> QED BY <1>4, <1>5, <1>6, <1>7, <2>1
<1>8. CASE HasZone(p)
  <2>1. k \in 1 .. 8 BY <1>8, VrefWrites
  <2>2. Zone(p).v0 \in Int /\ Zone(p).dvdi \in Int /\ Zone(p).iMax \in Int
    BY <1>8, ZoneType
  <2>3. CASE k = 5
    <3>1. w = To("dvdi", Zone(p).dvdi) BY <1>8, <2>3, VrefWrites DEF w
    <3>2. n = [v EXCEPT !.dvdi = Zone(p).dvdi] BY <1>1, <3>1 DEF To
    <3>3. n \in VrefSigned /\ n.iMax = v.iMax /\ n.dvdi = Zone(p).dvdi
      BY <2>2, <3>2 DEF VrefSigned
    <3>4. n.iMax = Disabled BY <1>8, <2>3, <3>3 DEF VrefSettled
    <3> QED BY <2>3, <3>3, <3>4 DEF VrefSettled, OneZone
  <2>4. CASE k = 6
    <3>1. w = To("v0", Zone(p).v0) BY <1>8, <2>4, VrefWrites DEF w
    <3>2. n = [v EXCEPT !.v0 = Zone(p).v0] BY <1>1, <3>1 DEF To
    <3>3. n \in VrefSigned /\ n.iMax = v.iMax /\ n.dvdi = v.dvdi /\ n.v0 = Zone(p).v0
      BY <2>2, <3>2 DEF VrefSigned
    <3>4. n.iMax = Disabled /\ n.dvdi = Zone(p).dvdi BY <1>8, <2>4, <3>3 DEF VrefSettled
    <3> QED BY <2>4, <3>3, <3>4 DEF VrefSettled, OneZone
  <2>5. CASE k = 7
    <3>1. w = To("iMax", Zone(p).iMax) BY <1>8, <2>5, VrefWrites DEF w
    <3>2. n = [v EXCEPT !.iMax = Zone(p).iMax] BY <1>1, <3>1 DEF To
    <3>3. n \in VrefSigned /\ n.iMax = Zone(p).iMax /\ n.dvdi = v.dvdi /\ n.v0 = v.v0
      BY <2>2, <3>2 DEF VrefSigned
    <3>4. n.dvdi = Zone(p).dvdi /\ n.v0 = Zone(p).v0 BY <1>8, <2>5, <3>3 DEF VrefSettled
    <3>5. OneZone(n) BY <1>8, <3>3, <3>4, ZoneType DEF OneZone
    <3> QED BY <2>5, <3>3, <3>5 DEF VrefSettled
  <2>6. CASE k = 8
    <3>1. w = To("calc", 0) BY <1>8, <2>6, VrefWrites DEF w
    <3> QED BY <1>6, <2>6, <3>1
  <2> QED BY <1>4, <1>5, <2>1, <2>3, <2>4, <2>5, <2>6
<1> QED BY <1>7, <1>8

-----------------------------------------------------------------------------
(***************************************************************************)
(* The limits of the regulation error.                                      *)
(***************************************************************************)
\* Where the writes that switch the fault off begin.
FaultAt(p) == IF p.warning = 0 THEN 5 ELSE 3

\* What the writes of p before the k-th have settled.
ErrSettled(e, p, k) ==
  /\ k > 1 => e["warning"].threshold = p.warning
  /\ k > 2 => e["fault"].threshold = p.fault
  /\ p.warning = 0 /\ k > 3 => ~e["warning"].flag
  /\ p.fault = 0 /\ k > FaultAt(p) => ~e["fault"].flag

LEMMA ErrWrites ==
  ASSUME NEW p
  PROVE  /\ ErrInit(p)[1] = ErrField("warning", "threshold", p.warning)
         /\ ErrInit(p)[2] = ErrField("fault", "threshold", p.fault)
         /\ p.warning = 0 => /\ ErrInit(p)[3] = ErrField("warning", "flag", FALSE)
                             /\ ErrInit(p)[4] = ErrField("warning", "filter", 0)
         /\ p.fault = 0 => /\ ErrInit(p)[FaultAt(p)] = ErrField("fault", "flag", FALSE)
                           /\ ErrInit(p)[FaultAt(p) + 1] = ErrField("fault", "filter", 0)
         /\ Len(ErrInit(p)) = IF p.fault = 0 THEN FaultAt(p) + 1 ELSE FaultAt(p) - 1
<1> DEFINE a == ErrField("warning", "threshold", p.warning)
           b == ErrField("fault", "threshold", p.fault)
           c == ErrField("warning", "flag", FALSE)
           d == ErrField("warning", "filter", 0)
           e == ErrField("fault", "flag", FALSE)
           f == ErrField("fault", "filter", 0)
           s == ErrInit(p)
<1>1. CASE p.warning = 0 /\ p.fault = 0
  <2>1. s = << a, b >> \o << c, d >> \o << e, f >> BY <1>1 DEF ErrInit, ErrOff
  <2>2. /\ Len(s) = 6
        /\ s[1] = a /\ s[2] = b /\ s[3] = c /\ s[4] = d /\ s[5] = e /\ s[6] = f
    <3> HIDE DEF a, b, c, d, e, f, s
    <3> QED BY <2>1
  <2>3. FaultAt(p) = 5 /\ FaultAt(p) + 1 = 6 /\ FaultAt(p) - 1 = 4
    BY <1>1 DEF FaultAt
  <2> QED BY <1>1, <2>2, <2>3
<1>2. CASE p.warning = 0 /\ p.fault # 0
  <2>1. s = << a, b >> \o << c, d >> \o << >> BY <1>2 DEF ErrInit, ErrOff
  <2>2. Len(s) = 4 /\ s[1] = a /\ s[2] = b /\ s[3] = c /\ s[4] = d
    <3> HIDE DEF a, b, c, d, e, f, s
    <3> QED BY <2>1
  <2>3. FaultAt(p) = 5 /\ FaultAt(p) + 1 = 6 /\ FaultAt(p) - 1 = 4
    BY <1>2 DEF FaultAt
  <2> QED BY <1>2, <2>2, <2>3
<1>3. CASE p.warning # 0 /\ p.fault = 0
  <2>1. s = << a, b >> \o << >> \o << e, f >> BY <1>3 DEF ErrInit, ErrOff
  <2>2. Len(s) = 4 /\ s[1] = a /\ s[2] = b /\ s[3] = e /\ s[4] = f
    <3> HIDE DEF a, b, c, d, e, f, s
    <3> QED BY <2>1
  <2>3. FaultAt(p) = 3 /\ FaultAt(p) + 1 = 4 /\ FaultAt(p) - 1 = 2
    BY <1>3 DEF FaultAt
  <2> QED BY <1>3, <2>2, <2>3
<1>4. CASE p.warning # 0 /\ p.fault # 0
  <2>1. s = << a, b >> \o << >> \o << >> BY <1>4 DEF ErrInit, ErrOff
  <2>2. Len(s) = 2 /\ s[1] = a /\ s[2] = b
    <3> HIDE DEF a, b, c, d, e, f, s
    <3> QED BY <2>1
  <2>3. FaultAt(p) = 3 /\ FaultAt(p) + 1 = 4 /\ FaultAt(p) - 1 = 2
    BY <1>4 DEF FaultAt
  <2> QED BY <1>4, <2>2, <2>3
<1> QED BY <1>1, <1>2, <1>3, <1>4

\* A write to one limit of the error changes one field of it, and not the other limit.
LEMMA ErrPutOne ==
  ASSUME NEW e \in ErrType, NEW l \in Names, NEW o \in Names, o # l, NEW y \in ErrFields,
         NEW n, n = [e EXCEPT ![l] = y]
  PROVE  n \in ErrType /\ n[l] = y /\ n[o] = e[o]
BY DEF ErrType

LEMMA ErrThreshold ==
  ASSUME NEW e \in ErrType, NEW l \in Names, NEW o \in Names, o # l, NEW t \in Nat,
         NEW n, n = WriteErr(e, ErrField(l, "threshold", t))
  PROVE  n \in ErrType /\ n[l].threshold = t /\ n[l].flag = e[l].flag /\ n[o] = e[o]
<1> DEFINE y == [e[l] EXCEPT !["threshold"] = t]
<1>1. e[l] \in ErrFields /\ 0 \in 0 .. (ErrScale - 1) BY DEF ErrType, ErrScale
<1>2. y \in ErrFields BY <1>1 DEF ErrFields
<1>3. y.threshold = t /\ y.flag = e[l].flag BY <1>1 DEF ErrFields
<1>4. n = [e EXCEPT ![l] = y] BY DEF WriteErr, Put, ErrField
<1>5. n \in ErrType /\ n[l] = y /\ n[o] = e[o]
  <2> HIDE DEF y
  <2> QED BY <1>2, <1>4, ErrPutOne
<1> HIDE DEF y
<1> QED BY <1>3, <1>5

LEMMA ErrFlag ==
  ASSUME NEW e \in ErrType, NEW l \in Names, NEW o \in Names, o # l, NEW b \in BOOLEAN,
         NEW n, n = WriteErr(e, ErrField(l, "flag", b))
  PROVE  n \in ErrType /\ n[l].flag = b /\ n[l].threshold = e[l].threshold /\ n[o] = e[o]
<1> DEFINE y == [e[l] EXCEPT !["flag"] = b]
<1>1. e[l] \in ErrFields /\ 0 \in 0 .. (ErrScale - 1) BY DEF ErrType, ErrScale
<1>2. y \in ErrFields BY <1>1 DEF ErrFields
<1>3. y.flag = b /\ y.threshold = e[l].threshold BY <1>1 DEF ErrFields
<1>4. n = [e EXCEPT ![l] = y] BY DEF WriteErr, Put, ErrField
<1>5. n \in ErrType /\ n[l] = y /\ n[o] = e[o]
  <2> HIDE DEF y
  <2> QED BY <1>2, <1>4, ErrPutOne
<1> HIDE DEF y
<1> QED BY <1>3, <1>5

LEMMA ErrFilter ==
  ASSUME NEW e \in ErrType, NEW l \in Names, NEW o \in Names, o # l,
         NEW n, n = WriteErr(e, ErrField(l, "filter", 0))
  PROVE  n \in ErrType /\ n[l].flag = e[l].flag /\ n[l].threshold = e[l].threshold /\ n[o] = e[o]
<1> DEFINE y == [e[l] EXCEPT !["filter"] = 0]
<1>1. e[l] \in ErrFields /\ 0 \in 0 .. (ErrScale - 1) BY DEF ErrType, ErrScale
<1>2. y \in ErrFields BY <1>1 DEF ErrFields
<1>3. y.flag = e[l].flag /\ y.threshold = e[l].threshold BY <1>1 DEF ErrFields
<1>4. n = [e EXCEPT ![l] = y] BY DEF WriteErr, Put, ErrField
<1>5. n \in ErrType /\ n[l] = y /\ n[o] = e[o]
  <2> HIDE DEF y
  <2> QED BY <1>2, <1>4, ErrPutOne
<1> HIDE DEF y
<1> QED BY <1>3, <1>5

\* Each write settles its field.
LEMMA ErrPut ==
  ASSUME NEW p \in ErrPars, NEW e \in ErrType, NEW k \in 1 .. Len(ErrInit(p)),
         ErrSettled(e, p, k)
  PROVE  LET n == WriteErr(e, ErrInit(p)[k])
         IN n \in ErrType /\ ErrSettled(n, p, k + 1)
<1> DEFINE w == ErrInit(p)[k]
           n == WriteErr(e, w)
<1>1. p.warning \in Nat /\ p.fault \in Nat BY ErrAssumption
<1>2. "warning" \in Names /\ "fault" \in Names /\ 0 \in Nat
      /\ "warning" # "fault" /\ "fault" # "warning"
  BY DEF Names
<1> SUFFICES n \in ErrType /\ ErrSettled(n, p, k + 1)
  OBVIOUS
<1>3. CASE k = 1
  <2>1. w = ErrField("warning", "threshold", p.warning) BY <1>3, ErrWrites, Zenon
  <2> HIDE DEF w
  <2>2. n \in ErrType /\ n["warning"].threshold = p.warning /\ n["fault"] = e["fault"]
    BY <1>1, <1>2, <2>1, ErrThreshold
  <2> QED BY <1>3, <2>2 DEF ErrSettled, FaultAt
<1>4. CASE k = 2
  <2>1. w = ErrField("fault", "threshold", p.fault) BY <1>4, ErrWrites, Zenon
  <2> HIDE DEF w
  <2>2. n \in ErrType /\ n["fault"].threshold = p.fault /\ n["warning"] = e["warning"]
    BY <1>1, <1>2, <2>1, ErrThreshold
  <2> HIDE DEF n
  <2> QED BY <1>4, <2>2 DEF ErrSettled, FaultAt
<1>5. CASE k \in {3, 4} /\ p.warning = 0
  <2>1. /\ k = 3 => w = ErrField("warning", "flag", FALSE)
        /\ k = 4 => w = ErrField("warning", "filter", 0)
    BY <1>5, ErrWrites, Zenon
  <2> HIDE DEF w
  <2>2. /\ n \in ErrType /\ n["fault"] = e["fault"]
        /\ n["warning"].threshold = e["warning"].threshold
        /\ k = 3 => ~n["warning"].flag
        /\ k = 4 => n["warning"].flag = e["warning"].flag
    <3>1. CASE k = 3
      <4>1. PICK b \in BOOLEAN : b = FALSE /\ w = ErrField("warning", "flag", b)
        BY <2>1, <3>1, Zenon
      <4>2. /\ n \in ErrType /\ n["fault"] = e["fault"] /\ n["warning"].flag = b
            /\ n["warning"].threshold = e["warning"].threshold
        BY <1>2, <4>1, ErrFlag
      <4> QED BY <3>1, <4>1, <4>2, 3 # 4, Zenon
    <3>2. CASE k = 4 BY <1>2, <2>1, <3>2, ErrFilter
    <3> QED BY <1>5, <3>1, <3>2
  <2> HIDE DEF n
  <2> QED BY <1>5, <2>2 DEF ErrSettled, FaultAt
<1>6. CASE k \in {FaultAt(p), FaultAt(p) + 1} /\ p.fault = 0
  <2>1. /\ k = FaultAt(p) => w = ErrField("fault", "flag", FALSE)
        /\ k = FaultAt(p) + 1 => w = ErrField("fault", "filter", 0)
    BY <1>6, ErrWrites, Zenon
  <2>2. FaultAt(p) \in {3, 5} /\ (FaultAt(p) = 5 <=> p.warning = 0) /\ FaultAt(p) # FaultAt(p) + 1
    BY DEF FaultAt
  <2> HIDE DEF w
  <2>3. /\ n \in ErrType /\ n["warning"] = e["warning"]
        /\ n["fault"].threshold = e["fault"].threshold
        /\ k = FaultAt(p) => ~n["fault"].flag
        /\ k = FaultAt(p) + 1 => n["fault"].flag = e["fault"].flag
    <3>1. CASE k = FaultAt(p)
      <4>1. PICK b \in BOOLEAN : b = FALSE /\ w = ErrField("fault", "flag", b)
        BY <2>1, <3>1, Zenon
      <4>2. /\ n \in ErrType /\ n["warning"] = e["warning"] /\ n["fault"].flag = b
            /\ n["fault"].threshold = e["fault"].threshold
        BY <1>2, <4>1, ErrFlag
      <4> QED BY <3>1, <4>1, <4>2, <2>2, Zenon
    <3>2. CASE k = FaultAt(p) + 1 BY <1>2, <2>1, <2>2, <3>2, ErrFilter
    <3> QED BY <1>6, <3>1, <3>2
  <2> HIDE DEF n
  <2> QED BY <1>6, <2>2, <2>3 DEF ErrSettled
<1> QED
  <2>1. FaultAt(p) = IF p.warning = 0 THEN 5 ELSE 3 BY DEF FaultAt
  <2>2. Len(ErrInit(p)) = IF p.fault = 0 THEN FaultAt(p) + 1 ELSE FaultAt(p) - 1
    BY ErrWrites, Zenon
  <2>3. \/ k = 1
        \/ k = 2
        \/ k \in {3, 4} /\ p.warning = 0
        \/ k \in {FaultAt(p), FaultAt(p) + 1} /\ p.fault = 0
    BY <2>1, <2>2
  <2> QED BY <1>3, <1>4, <1>5, <1>6, <2>3

\* A check raises no flag of a limit that is off, and no check moves a threshold.
LEMMA ErrCheck ==
  ASSUME NEW p \in ErrPars, NEW e \in ErrType, NEW k \in Nat, NEW x \in Nat,
         ErrSettled(e, p, k)
  PROVE  LET n == CheckLimitsRT(e, x)
         IN n \in ErrType /\ ErrSettled(n, p, k)
<1> DEFINE n == CheckLimitsRT(e, x)
<1>1. ASSUME NEW l \in Names
      PROVE  /\ LimitRT(e[l], x) \in ErrFields
             /\ LimitRT(e[l], x).threshold = e[l].threshold
  <2> DEFINE exceeded == 2 * x > (IF e[l].flag THEN e[l].threshold ELSE 2 * e[l].threshold)
             f == (9 * e[l].filter) \div 10 + (IF exceeded THEN ErrScale \div 10 ELSE 0)
  <2>1. e[l] \in ErrFields BY DEF ErrType
  <2>2. e[l].filter \in 0 .. 99 BY <2>1 DEF ErrFields, ErrScale
  <2>3. LimitRT(e[l], x) = [e[l] EXCEPT !.filter = f, !.flag = 10 * f > 3 * ErrScale]
    BY DEF LimitRT
  <2>4. f \in 0 .. (ErrScale - 1)
    <3> HIDE DEF exceeded
    <3> QED BY <2>2 DEF ErrScale
  <2> HIDE DEF f
  <2>5. (10 * f > 3 * ErrScale) \in BOOLEAN OBVIOUS
  <2> QED BY <2>1, <2>3, <2>4, <2>5 DEF ErrFields
<1>2. n = [l \in Names |-> IF e[l].threshold > 0 THEN LimitRT(e[l], x) ELSE e[l]]
  BY DEF CheckLimitsRT, ErrType
<1> HIDE DEF n
<1>3. ASSUME NEW l \in Names
      PROVE  /\ n[l] \in ErrFields /\ n[l].threshold = e[l].threshold
             /\ e[l].threshold = 0 => n[l].flag = e[l].flag
  <2>1. e[l] \in ErrFields BY DEF ErrType
  <2>2. n[l] = IF e[l].threshold > 0 THEN LimitRT(e[l], x) ELSE e[l] BY <1>2
  <2> QED BY <1>1, <2>1, <2>2
<1>4. n \in ErrType BY <1>2, <1>3 DEF ErrType
<1>5. "warning" \in Names /\ "fault" \in Names BY DEF Names
<1>6. p.warning \in Nat /\ p.fault \in Nat BY ErrAssumption
<1>7. ErrSettled(n, p, k) BY <1>3, <1>5, <1>6 DEF ErrSettled, FaultAt
<1> QED BY <1>4, <1>7 DEF n

\* The reset of the checks drops every flag.
LEMMA ErrResets ==
  ASSUME NEW p, NEW e \in ErrType, NEW k, ErrSettled(e, p, k)
  PROVE  LET n == ResetLimitsVarsRT(e)
         IN n \in ErrType /\ ErrSettled(n, p, k)
<1> DEFINE n == ResetLimitsVarsRT(e)
           r(l) == [e[l] EXCEPT !.filter = 0, !.flag = FALSE]
<1>1. n = [l \in Names |-> r(l)] BY DEF ResetLimitsVarsRT, ErrType
<1>2. ASSUME NEW l \in Names
      PROVE  r(l) \in ErrFields /\ r(l).threshold = e[l].threshold /\ r(l).flag = FALSE
  <2>1. e[l] \in ErrFields /\ 0 \in 0 .. (ErrScale - 1) BY DEF ErrType, ErrScale
  <2>2. r(l) \in ErrFields BY <2>1 DEF ErrFields
  <2>3. r(l).threshold = e[l].threshold /\ r(l).flag = FALSE BY <2>1 DEF ErrFields
  <2> QED BY <2>2, <2>3
<1> HIDE DEF n, r
<1>3. n \in ErrType BY <1>1, <1>2 DEF ErrType
<1>4. "warning" \in Names /\ "fault" \in Names BY DEF Names
<1>5. /\ n["warning"].threshold = e["warning"].threshold /\ n["warning"].flag = FALSE
      /\ n["fault"].threshold = e["fault"].threshold /\ n["fault"].flag = FALSE
  BY <1>1, <1>2, <1>4
<1>6. ErrSettled(n, p, k) BY <1>5 DEF ErrSettled
<1> QED BY <1>3, <1>6 DEF n

-----------------------------------------------------------------------------
(***************************************************************************)
(* The inductive invariant: types, the signs of the clip limits, and what    *)
(* the writes before the next one have settled.                             *)
(***************************************************************************)
Settled ==
  /\ part = "meas" => MeasSettled(meas, pars, next, input)
  /\ part = "rms" => RmsSettled(rms, pars, next)
  /\ part = "vref" => VrefSettled(vref, pars, next, running)
  /\ part = "err" => ErrSettled(err, pars, next)

IInv ==
  /\ TypeOK
  /\ next <= Len(Writes(part, pars)) + 1
  /\ vref \in VrefSigned
  /\ Settled

LEMMA ParsType ==
  ASSUME TypeOK
  PROVE  /\ part \in {"meas", "rms", "vref", "err"}
         /\ part = "meas" => pars \in MeasPars /\ Writes(part, pars) = MeasInit(pars)
         /\ part = "rms" => pars \in RmsPars /\ Writes(part, pars) = RmsInit(pars)
         /\ part = "vref" => pars \in VrefPars /\ Writes(part, pars) = VrefInit(pars)
         /\ part = "err" => pars \in ErrPars /\ Writes(part, pars) = ErrInit(pars)
BY PartsAssumption DEF TypeOK, ParsOf, Writes

\* No Init function makes more than nine writes, and each makes one at least.
LEMMA WritesLen ==
  ASSUME NEW q \in Parts, NEW s \in ParsOf(q)
  PROVE  Len(Writes(q, s)) \in 1 .. 9
<1>1. CASE q = "meas"
  <2>1. Writes(q, s) = MeasInit(s) BY <1>1 DEF Writes
  <2>2. Len(MeasInit(s)) = 9 BY MeasWrites
  <2> QED BY <2>1, <2>2
<1>2. CASE q = "rms"
  <2>1. s \in RmsPars /\ Writes(q, s) = RmsInit(s) BY <1>2 DEF ParsOf, Writes
  <2>2. s.tc \in Nat BY <2>1, RmsAssumption
  <2>3. s.tc = 0 \/ s.tc > 0 BY <2>2
  <2>4. Len(RmsInit(s)) = 3 \/ Len(RmsInit(s)) = 6 BY <2>2, <2>3, RmsWrites, Zenon
  <2> QED BY <2>1, <2>4
<1>3. CASE q = "vref"
  BY <1>3, VrefWrites DEF Writes
<1>4. CASE q = "err"
  <2>1. Writes(q, s) = ErrInit(s) BY <1>4 DEF Writes
  <2>2. Len(ErrInit(s)) = IF s.fault = 0 THEN FaultAt(s) + 1 ELSE FaultAt(s) - 1
    BY ErrWrites, Zenon
  <2> QED BY <2>1, <2>2 DEF FaultAt
<1> QED BY <1>1, <1>2, <1>3, <1>4, PartsAssumption

\* With nothing written, nothing is settled.
LEMMA NothingSettled ==
  ASSUME NEW p, NEW m, NEW x, NEW r, NEW v, NEW e
  PROVE  /\ MeasSettled(m, p, 1, x) /\ RmsSettled(r, p, 1)
         /\ VrefSettled(v, p, 1, FALSE) /\ ErrSettled(e, p, 1)
BY DEF MeasSettled, RmsSettled, VrefSettled, ErrSettled, FaultAt

LEMMA InitHolds == Init => IInv
<1> SUFFICES ASSUME Init PROVE IInv
  OBVIOUS
<1>1. meas \in MeasType BY DEF Init, Zeroed, MeasType
<1>2. rms \in RmsType BY DEF Init, Zeroed, RmsType
<1>3. vref \in VrefType /\ vref \in VrefSigned
  BY DEF Init, Zeroed, VrefType, VrefSigned, AtMostZero
<1>4. err \in ErrType BY DEF Init, Zeroed, ErrType, ErrFields, ErrScale, Names
<1>5. TypeOK
  <2>1. next \in 1 .. 10 /\ input \in Currents \cup Errors BY InputAssumption DEF Init
  <2>2. running \in BOOLEAN BY Zenon DEF Init
  <2>3. part \in Parts /\ pars \in ParsOf(part) BY DEF Init
  <2> QED BY <1>1, <1>2, <1>3, <1>4, <2>1, <2>2, <2>3 DEF TypeOK
<1>6. next <= Len(Writes(part, pars)) + 1 BY WritesLen DEF Init
<1>7. Settled BY NothingSettled DEF Init, Settled
<1> QED BY <1>3, <1>5, <1>6, <1>7 DEF IInv

\* With the limits written, the zone in use, if any, is that of one set.
LEMMA IdleOneZone ==
  ASSUME IInv, Idle, part = "vref"
  PROVE  next > 4 /\ OneZone(vref)
<1>1. pars \in VrefPars /\ Writes(part, pars) = VrefInit(pars) BY ParsType DEF IInv
<1>2. Len(VrefInit(pars)) = 8 \/ Len(VrefInit(pars)) = 5 BY VrefWrites, Zenon
<1>3. next > 4
  <2> DEFINE len == Len(VrefInit(pars))
  <2>1. next \in Int /\ next > len BY <1>1 DEF Idle, IInv, TypeOK
  <2>2. len = 8 \/ len = 5 BY <1>2
  <2> HIDE DEF len
  <2> QED BY <2>1, <2>2
<1>4. VrefSettled(vref, pars, next, running) BY DEF IInv, Settled
<1> QED BY <1>3, <1>4 DEF VrefSettled

LEMMA NextHolds == IInv /\ [Next]_vars => IInv'
<1> SUFFICES ASSUME IInv, [Next]_vars PROVE IInv'
  OBVIOUS
<1> USE DEF IInv
<1>1. CASE UNCHANGED vars
  BY <1>1 DEF vars, TypeOK, Settled, MeasSettled, RmsSettled, VrefSettled, ErrSettled
<1>2. CASE NewLimits
  <2>1. part' = part /\ pars' \in ParsOf(part) /\ next' = 1 /\ running' = running
        /\ input' = input /\ meas' = meas /\ rms' = rms /\ vref' = vref /\ err' = err
    BY <1>2 DEF NewLimits
  <2>2. TypeOK' BY <2>1 DEF TypeOK
  <2>3. (next <= Len(Writes(part, pars)) + 1)'
    <3>1. Len(Writes(part, pars')) \in 1 .. 9 BY <2>1, WritesLen DEF TypeOK
    <3> QED BY <2>1, <3>1
  <2>4. part = "vref" => OneZone(vref) BY <1>2, IdleOneZone DEF NewLimits
  <2>5. /\ MeasSettled(meas, pars', 1, input) /\ RmsSettled(rms, pars', 1)
        /\ VrefSettled(vref, pars', 1, FALSE) /\ ErrSettled(err, pars', 1)
    BY NothingSettled
  <2>6. part = "vref" => VrefSettled(vref, pars', 1, running)
    BY <2>4, <2>5 DEF VrefSettled
  <2>7. Settled' BY <2>1, <2>5, <2>6 DEF Settled
  <2> QED BY <2>1, <2>2, <2>3, <2>7
<1>3. CASE Invert
  <2>1. /\ part' = part /\ pars' = pars /\ next' = next /\ running' = running
        /\ rms' = rms /\ err' = err /\ input' = input
    BY <1>3 DEF Invert
  <2>2. /\ meas' \in MeasType
        /\ \A f \in {"low", "zero", "lowHyst", "zeroHyst", "lowFlag", "zeroFlag"} :
              meas'[f] = meas[f]
    <3>1. CASE meas' = meas BY <3>1 DEF TypeOK
    <3>2. CASE meas' = [meas EXCEPT !.invert = ~@]
      <4>1. (~meas.invert) \in BOOLEAN OBVIOUS
      <4> QED BY <3>2, <4>1 DEF TypeOK, MeasType
    <3> QED BY <1>3, <3>1, <3>2 DEF Invert
  <2>3. /\ vref' \in VrefType /\ vref' \in VrefSigned
        /\ \A f \in {"v0", "dvdi", "iMax"} : vref'[f] = vref[f]
    <3>1. CASE vref' = vref BY <3>1 DEF TypeOK
    <3>2. CASE vref' = [vref EXCEPT !.invert = ~@]
      <4>1. (~vref.invert) \in BOOLEAN OBVIOUS
      <4> QED BY <3>2, <4>1 DEF TypeOK, VrefType, VrefSigned
    <3> QED BY <1>3, <3>1, <3>2 DEF Invert
  <2>4. TypeOK' BY <2>1, <2>2, <2>3 DEF TypeOK
  <2>5. part = "meas" => MeasSettled(meas', pars, next, input)
    BY <2>2 DEF Settled, MeasSettled
  <2>6. part = "vref" => VrefSettled(vref', pars, next, running)
    BY <2>3 DEF Settled, VrefSettled, OneZone
  <2>7. Settled' BY <2>1, <2>5, <2>6 DEF Settled
  <2> QED BY <2>1, <2>3, <2>4, <2>7
<1>4. CASE Write
  <2> DEFINE w == Writes(part, pars)[next]
  <2>1. /\ part' = part /\ pars' = pars /\ running' = running /\ input' = input
        /\ next' = next + 1
        /\ meas' = IF part = "meas" THEN Put(meas, w) ELSE meas
        /\ rms' = IF part = "rms" THEN Put(rms, w) ELSE rms
        /\ vref' = IF part = "vref" THEN WriteVref(vref, w) ELSE vref
        /\ err' = IF part = "err" THEN WriteErr(err, w) ELSE err
    BY <1>4 DEF Write
  <2>2. next \in 1 .. Len(Writes(part, pars)) /\ Len(Writes(part, pars)) \in 1 .. 9
    BY <1>4, WritesLen DEF Write, Idle, TypeOK
  <2>3. (next <= Len(Writes(part, pars)) + 1)' /\ next' \in 1 .. 10
    <3> DEFINE len == Len(Writes(part, pars))
    <3>1. next \in 1 .. len /\ len \in 1 .. 9 /\ Writes(part, pars)' = Writes(part, pars)
      BY <2>1, <2>2
    <3> HIDE DEF len
    <3>2. next' <= len + 1 /\ next' \in 1 .. 10 BY <2>1, <3>1
    <3> QED BY <3>1, <3>2 DEF len
  <2>4. input \in Int BY InputAssumption DEF TypeOK
  <2> HIDE DEF w
  <2>5. CASE part = "meas"
    <3>1. pars \in MeasPars /\ w = MeasInit(pars)[next] /\ next \in 1 .. 9
      <4>1. pars \in MeasPars /\ Writes(part, pars) = MeasInit(pars) BY <2>5, ParsType
      <4>2. Len(MeasInit(pars)) = 9 BY MeasWrites
      <4> QED BY <2>2, <4>1, <4>2 DEF w
    <3>2. MeasSettled(meas, pars, next, input) /\ meas \in MeasType
      BY <2>5 DEF Settled, TypeOK
    <3>3. meas' \in MeasType /\ MeasSettled(meas', pars, next + 1, input)
      BY <2>1, <2>4, <2>5, <3>1, <3>2, MeasPut
    <3>4. rms' = rms /\ vref' = vref /\ err' = err BY <2>1, <2>5
    <3>5. TypeOK' BY <2>1, <2>3, <3>3, <3>4 DEF TypeOK
    <3> QED BY <2>1, <2>3, <2>5, <3>3, <3>4, <3>5 DEF Settled
  <2>6. CASE part = "rms"
    <3>1. pars \in RmsPars /\ w = RmsInit(pars)[next] /\ next \in 1 .. Len(RmsInit(pars))
      BY <2>2, <2>6, ParsType DEF w
    <3>2. RmsSettled(rms, pars, next) /\ rms \in RmsType BY <2>6 DEF Settled, TypeOK
    <3>3. rms' \in RmsType /\ RmsSettled(rms', pars, next + 1)
      BY <2>1, <2>6, <3>1, <3>2, RmsPut
    <3>4. meas' = meas /\ vref' = vref /\ err' = err BY <2>1, <2>6
    <3>5. TypeOK' BY <2>1, <2>3, <3>3, <3>4 DEF TypeOK
    <3> QED BY <2>1, <2>3, <2>6, <3>3, <3>4, <3>5 DEF Settled
  <2>7. CASE part = "vref"
    <3>1. pars \in VrefPars /\ w = VrefInit(pars)[next] /\ next \in 1 .. Len(VrefInit(pars))
      BY <2>2, <2>7, ParsType DEF w
    <3>2. VrefSettled(vref, pars, next, running) BY <2>7 DEF Settled
    <3>3. vref' \in VrefSigned /\ VrefSettled(vref', pars, next + 1, running)
      BY <2>1, <2>7, <3>1, <3>2, VrefPut
    <3>4. meas' = meas /\ rms' = rms /\ err' = err BY <2>1, <2>7
    <3>5. vref' \in VrefType BY <3>3, SignedType
    <3>6. TypeOK' BY <2>1, <2>3, <3>4, <3>5 DEF TypeOK
    <3> QED BY <2>1, <2>3, <2>7, <3>3, <3>4, <3>6 DEF Settled
  <2>8. CASE part = "err"
    <3>1. pars \in ErrPars /\ w = ErrInit(pars)[next] /\ next \in 1 .. Len(ErrInit(pars))
      BY <2>2, <2>8, ParsType DEF w
    <3>2. ErrSettled(err, pars, next) /\ err \in ErrType BY <2>8 DEF Settled, TypeOK
    <3>3. err' \in ErrType /\ ErrSettled(err', pars, next + 1)
      BY <2>1, <2>8, <3>1, <3>2, ErrPut
    <3>4. meas' = meas /\ rms' = rms /\ vref' = vref BY <2>1, <2>8
    <3>5. TypeOK' BY <2>1, <2>3, <3>3, <3>4 DEF TypeOK
    <3> QED BY <2>1, <2>3, <2>8, <3>3, <3>4, <3>5 DEF Settled
  <2> QED BY <2>5, <2>6, <2>7, <2>8, ParsType
<1>5. CASE StartRtThread
  <2>1. /\ part' = part /\ pars' = pars /\ next' = next /\ running' = TRUE /\ input' = input
        /\ meas' = meas /\ rms' = rms /\ vref' = vref /\ err' = err
    BY <1>5 DEF StartRtThread
  <2>2. running' \in BOOLEAN BY <2>1, Zenon
  <2>3. TypeOK' BY <2>1, <2>2 DEF TypeOK
  <2>4. part = "vref" => OneZone(vref) BY <1>5, IdleOneZone DEF StartRtThread
  <2>5. part = "vref" => VrefSettled(vref, pars, next, running')
    BY <2>4 DEF Settled, VrefSettled
  <2>6. Settled' BY <2>1, <2>5 DEF Settled
  <2> QED BY <2>1, <2>3, <2>6
<1>6. CASE MeasIteration
  <2>1. /\ part = "meas" /\ part' = part /\ pars' = pars /\ next' = next
        /\ running' = running /\ rms' = rms /\ vref' = vref /\ err' = err
    BY <1>6 DEF MeasIteration
  <2>2. PICK i \in Currents : meas' = MeasRT(meas, i) /\ input' = i
    BY <1>6 DEF MeasIteration
  <2>3. pars \in MeasPars /\ i \in Int /\ meas \in MeasType /\ next \in 1 .. 10
        /\ MeasSettled(meas, pars, next, input)
    BY <2>1, ParsType, InputAssumption DEF TypeOK, Settled
  <2>4. meas' \in MeasType /\ MeasSettled(meas', pars, next, input')
    BY <2>2, <2>3, MeasCheck
  <2>5. TypeOK' BY <2>1, <2>2, <2>4 DEF TypeOK
  <2> QED BY <2>1, <2>4, <2>5 DEF Settled
<1>7. CASE RmsIteration
  <2>1. /\ part = "rms" /\ part' = part /\ pars' = pars /\ next' = next
        /\ running' = running /\ meas' = meas /\ vref' = vref /\ err' = err
    BY <1>7 DEF RmsIteration
  <2>2. PICK i \in Currents : rms' = MeasRmsRT(rms, i) /\ input' = i
    BY <1>7 DEF RmsIteration
  <2>3. pars \in RmsPars /\ i \in Int /\ rms \in RmsType /\ next \in Nat
        /\ RmsSettled(rms, pars, next)
    BY <2>1, ParsType, InputAssumption DEF TypeOK, Settled
  <2>4. rms' \in RmsType /\ RmsSettled(rms', pars, next) BY <2>2, <2>3, RmsCheck
  <2>5. TypeOK' BY <2>1, <2>2, <2>4 DEF TypeOK
  <2> QED BY <2>1, <2>4, <2>5 DEF Settled
<1>8. CASE VrefIteration
  <2>1. /\ part = "vref" /\ part' = part /\ pars' = pars /\ next' = next
        /\ running' = running /\ meas' = meas /\ rms' = rms /\ err' = err
    BY <1>8 DEF VrefIteration
  <2>2. PICK i \in Currents, r \in Refs :
          vref' = RefRT(VrefCalcRT(vref, i), r) /\ input' = i
    BY <1>8 DEF VrefIteration
  <2>3. i \in Int /\ r \in Int /\ VrefSettled(vref, pars, next, running)
    BY <2>1, InputAssumption DEF Settled
  <2>4. vref' \in VrefSigned /\ VrefSettled(vref', pars, next, running)
    BY <2>2, <2>3, VrefCheck
  <2>5. vref' \in VrefType BY <2>4, SignedType
  <2>6. TypeOK' BY <2>1, <2>2, <2>5 DEF TypeOK
  <2> QED BY <2>1, <2>4, <2>6 DEF Settled
<1>9. CASE ErrIteration
  <2>1. /\ part = "err" /\ part' = part /\ pars' = pars /\ next' = next
        /\ running' = running /\ meas' = meas /\ rms' = rms /\ vref' = vref
    BY <1>9 DEF ErrIteration
  <2>2. PICK e \in Errors : err' = CheckLimitsRT(err, e) /\ input' = e
    BY <1>9 DEF ErrIteration
  <2>3. pars \in ErrPars /\ e \in Nat /\ err \in ErrType /\ next \in Nat
        /\ ErrSettled(err, pars, next)
    BY <2>1, ParsType, InputAssumption DEF TypeOK, Settled
  <2>4. err' \in ErrType /\ ErrSettled(err', pars, next) BY <2>2, <2>3, ErrCheck
  <2>5. TypeOK' BY <2>1, <2>2, <2>4 DEF TypeOK
  <2> QED BY <2>1, <2>4, <2>5 DEF Settled
<1>10. CASE ErrReset
  <2>1. /\ part = "err" /\ part' = part /\ pars' = pars /\ next' = next /\ input' = input
        /\ running' = running /\ meas' = meas /\ rms' = rms /\ vref' = vref
        /\ err' = ResetLimitsVarsRT(err)
    BY <1>10 DEF ErrReset
  <2>2. err \in ErrType /\ ErrSettled(err, pars, next) BY <2>1 DEF TypeOK, Settled
  <2>3. err' \in ErrType /\ ErrSettled(err', pars, next) BY <2>1, <2>2, ErrResets
  <2>4. TypeOK' BY <2>1, <2>3 DEF TypeOK
  <2> QED BY <2>1, <2>3, <2>4 DEF Settled
<1> QED
  BY <1>1, <1>2, <1>3, <1>4, <1>5, <1>6, <1>7, <1>8, <1>9, <1>10
  DEF Next, Background, Iteration

LEMMA Invariance == Spec => []IInv
<1>1. Init => IInv BY InitHolds
<1>2. IInv /\ [Next]_vars => IInv' BY NextHolds
<1> QED BY <1>1, <1>2, PTL DEF Spec

-----------------------------------------------------------------------------
\* Flags are right whenever no limits are being written: whatever an iteration
\* between two writes of regLimMeasInit, regLimRmsInit or regErrInitLimits made
\* of the new level and the old hysteresis, their last writes and the checks
\* after them leave no flag up that the measurement does not justify.
THEOREM FlagsTrueHolds == Spec => []FlagsTrue
<1>1. IInv => FlagsTrue
  <2> SUFFICES ASSUME IInv PROVE FlagsTrue
    OBVIOUS
  <2>1. TypeOK /\ Settled BY DEF IInv
  <2>2. LowTrue
    <3> SUFFICES ASSUME part = "meas", Idle
                 PROVE  /\ meas.lowFlag => Abs(input) <= meas.low
                        /\ meas.zeroFlag => Abs(input) <= meas.zero
      BY DEF LowTrue
    <3>1. Len(MeasInit(pars)) = 9 /\ Writes(part, pars) = MeasInit(pars)
      BY <2>1, ParsType, MeasWrites
    <3>2. next > 9 BY <3>1 DEF Idle
    <3> QED BY <2>1, <3>2 DEF Settled, MeasSettled, TypeOK
  <2>3. RmsTrue
    <3> SUFFICES ASSUME part = "rms", Idle
                 PROVE  /\ pars.tc = 0 => ~rms.warningFlag /\ ~rms.faultFlag
                        /\ rms.warningFlag => rms.warning > 0 /\ rms.filter >= rms.hyst
                        /\ rms.faultFlag => rms.fault > 0 /\ rms.filter > rms.fault
      BY DEF RmsTrue
    <3>1. pars \in RmsPars /\ Writes(part, pars) = RmsInit(pars) BY <2>1, ParsType
    <3>2. pars.tc \in Nat BY <3>1, RmsAssumption
    <3>3. /\ pars.tc = 0 => Len(RmsInit(pars)) = 3
          /\ pars.tc > 0 => Len(RmsInit(pars)) = 6
      BY <3>2, RmsWrites, Zenon
    <3>4. next \in Nat /\ (pars.tc = 0 => next > 3) /\ (pars.tc > 0 => next > 6)
      <4>1. next \in Nat /\ next > Len(RmsInit(pars)) BY <2>1, <3>1 DEF Idle, TypeOK
      <4> QED BY <3>3, <4>1
    <3>5. RmsSettled(rms, pars, next) BY <2>1 DEF Settled
    <3> QED BY <3>2, <3>4, <3>5 DEF RmsSettled
  <2>4. OffHoldsNoFlag
    <3> SUFFICES ASSUME part = "err", Idle, NEW l \in DOMAIN err, err[l].threshold = 0
                 PROVE  ~err[l].flag
      BY DEF OffHoldsNoFlag
    <3>1. pars \in ErrPars /\ Writes(part, pars) = ErrInit(pars) BY <2>1, ParsType
    <3>2. Len(ErrInit(pars)) = IF pars.fault = 0 THEN FaultAt(pars) + 1 ELSE FaultAt(pars) - 1
      BY ErrWrites, Zenon
    <3>3. ErrSettled(err, pars, next) BY <2>1 DEF Settled
    <3>4. l = "warning" \/ l = "fault" BY <2>1 DEF TypeOK, ErrType, Names
    <3>5. next \in Nat /\ next > Len(ErrInit(pars)) BY <2>1, <3>1 DEF Idle, TypeOK
    <3> QED BY <3>2, <3>3, <3>4, <3>5 DEF ErrSettled, FaultAt
  <2> QED BY <2>1, <2>2, <2>3, <2>4 DEF FlagsTrue
<1> QED BY <1>1, Invariance, PTL

\* In every iteration, those between two writes of regLimVrefInit included, the
\* exclusion zone in use is that of one set of limits and the clip limits admit
\* zero volts.
THEOREM ClipsSoundHolds == Spec => []ClipsSound
<1>1. IInv => ClipsSound
  <2> SUFFICES ASSUME IInv PROVE ClipsSound
    OBVIOUS
  <2>1. ASSUME part = "vref", running PROVE OneZone(vref)
    BY <2>1 DEF IInv, Settled, VrefSettled
  <2>2. ZoneOfOneSet BY <2>1 DEF ZoneOfOneSet, OneZone
  <2>3. ZeroAllowed BY DEF ZeroAllowed, IInv, VrefSigned, AtMostZero
  <2> QED BY <2>2, <2>3 DEF ClipsSound
<1> QED BY <1>1, Invariance, PTL
=============================================================================
