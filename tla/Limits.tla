------------------------------- MODULE Limits -------------------------------
(***************************************************************************)
(* The limits of libreg: regLim.c (trip, low and zero limits of a          *)
(* measurement, RMS limits, the clip limits of the voltage reference with   *)
(* the exclusion zone in quadrants 4 and 1) and regErr.c (limits of the    *)
(* regulation error).  The background thread, in regMgrPars, rewrites a     *)
(* structure field by field; an iteration of the real-time thread may come  *)
(* between any two of its writes.  On the single CPU of a converter         *)
(* controller an iteration itself is not interrupted by the background.     *)
(* The real-time thread starts once the first limits are in place.          *)
(*                                                                         *)
(* The structures share no field, so a behaviour moves the one that `part'  *)
(* names and leaves the others at rest.  Currents and voltages are whole     *)
(* numbers; the margins of lim.h (1 per mil, 1%, 10%, 20%) are all taken as  *)
(* tenths, and the single-precision margin of the rate limit as nothing.     *)
(***************************************************************************)
EXTENDS Integers, Sequences

CONSTANTS MeasPars,     \* sets of limits of a measurement: [pos, neg, low, zero]
          RmsPars,      \* RMS limits: [warning, fault, tc], tc in iterations
          VrefPars,     \* voltage limits: [pos, neg, rate, i, v], i and v pairs
          ErrPars,      \* limits of the regulation error: [warning, fault]
          Currents,     \* measurements of the current
          Refs,         \* voltage references asked for
          Errors,       \* absolute regulation errors
          Parts         \* the structures a run moves

(***************************************************************************)
(* What the limits are supposed to be: whole numbers, levels that are not    *)
(* negative, a positive limit above zero or at it.  A negative limit may be  *)
(* of any sign: regLim.c takes one that is not negative as unipolar.        *)
(***************************************************************************)
ASSUME PartsAssumption == Parts \subseteq {"meas", "rms", "vref", "err"}
ASSUME MeasAssumption ==
  MeasPars \subseteq [pos : Int, neg : Int, low : Nat, zero : Nat]
ASSUME RmsAssumption == RmsPars \subseteq [warning : Nat, fault : Nat, tc : Nat]
ASSUME VrefAssumption ==
  \A p \in VrefPars : /\ p.pos \in Nat /\ p.neg \in Int /\ p.rate \in Nat
                      /\ \A n \in {1, 2} : p.i[n] \in Int /\ p.v[n] \in Int
ASSUME ErrAssumption == ErrPars \subseteq [warning : Nat, fault : Nat]
ASSUME InputAssumption ==
  Currents \subseteq Int /\ Refs \subseteq Int /\ Errors \subseteq Nat /\ 0 \in Currents

VARIABLES part,         \* the structure that moves
          pars,         \* the limits regMgrPars last took for it
          next,         \* the write of these limits that comes next
          running,      \* the real-time thread has been started
          meas,         \* struct REG_lim_meas
          rms,          \* struct REG_lim_rms
          vref,         \* struct REG_lim_ref of the voltage, and its reference
          err,          \* struct REG_err
          input         \* what the last iteration measured

vars == <<part, pars, next, running, meas, rms, vref, err, input>>

Abs(x) == IF x < 0 THEN -x ELSE x
Wider(x) == x + x \div 10               \* 1 + REG_LIM_CLIP, 1 + REG_LIM_TRIP
Narrower(x) == x - x \div 10            \* 1 - REG_LIM_HYSTERESIS
Disabled == -100000                     \* i_quadrants41_max without a zone

(***************************************************************************)
(* Background: what each Init function writes, in its order.               *)
(***************************************************************************)
To(f, v) == [field |-> f, value |-> v]

\* The flags cleared before the thresholds are in place.
MeasInitFlagsFirst(p) ==
  << To("trip", FALSE), To("lowFlag", FALSE), To("zeroFlag", FALSE),
     To("posTrip", Wider(p.pos)), To("negTrip", Wider(p.neg)),
     To("low", p.low), To("zero", p.zero),
     To("lowHyst", Narrower(p.low)), To("zeroHyst", Narrower(p.zero)) >>

MeasInit(p) ==
  << To("posTrip", Wider(p.pos)), To("negTrip", Wider(p.neg)),
     To("low", p.low), To("zero", p.zero),
     To("lowHyst", Narrower(p.low)), To("zeroHyst", Narrower(p.zero)),
     To("trip", FALSE), To("lowFlag", FALSE), To("zeroFlag", FALSE) >>

Square(x) == x * x

RmsFlagsOff == << To("faultFlag", FALSE), To("warningFlag", FALSE) >>

RmsInit(p) ==
  ( IF p.tc > 0
    THEN << To("tc", p.tc), To("fault", Square(p.fault)), To("warning", Square(p.warning)),
            To("hyst", (8 * Square(p.warning)) \div 10) >>
    ELSE << To("tc", 0) >> ) \o RmsFlagsOff

\* The zone of a set of limits: none when it is less than 1 A wide.
HasZone(p) == p.i[2] - p.i[1] >= 1
Slope(p) == (p.v[2] - p.v[1]) \div (p.i[2] - p.i[1])
Zone(p) == [v0 |-> Wider(p.v[1] - Slope(p) * p.i[1]), dvdi |-> Slope(p), iMax |-> p.i[2]]

\* The clip limits for a current, from the user's limits and the zone.
Least(a, b) == IF a < b THEN a ELSE b
Most(a, b) == IF a > b THEN a ELSE b

VrefCalcRT(v, i_meas) ==
  LET i == IF v.invert THEN -i_meas ELSE i_meas
      max == IF i < v.iMax
             THEN Least(v.maxUser, Most(0, v.v0 + v.dvdi * i)) ELSE v.maxUser
      min == IF i > -v.iMax
             THEN Most(v.minUser, Least(0, v.dvdi * i - v.v0)) ELSE v.minUser
  IN [v EXCEPT !.maxClip = max, !.minClip = min]

UserClips(p) ==
  << To("rateClip", Wider(p.rate)), To("maxUser", Wider(p.pos)),
     To("minUser", IF p.neg < 0 THEN Wider(p.neg) ELSE 0) >>

ZoneWrites(p) ==
  IF HasZone(p)
  THEN << To("dvdi", Zone(p).dvdi), To("v0", Zone(p).v0), To("iMax", Zone(p).iMax) >>
  ELSE << >>

\* The zone rewritten while it is in use.
VrefInitInUse(p) ==
  UserClips(p)
  \o (IF HasZone(p) THEN ZoneWrites(p) ELSE << To("iMax", Disabled) >>)
  \o << To("calc", 0) >>

VrefInit(p) ==
  UserClips(p) \o << To("iMax", Disabled) >> \o ZoneWrites(p) \o << To("calc", 0) >>

ErrField(l, f, v) == [limit |-> l, field |-> f, value |-> v]
ErrOff(l) == << ErrField(l, "flag", FALSE), ErrField(l, "filter", 0) >>

ErrInit(p) ==
  << ErrField("warning", "threshold", p.warning), ErrField("fault", "threshold", p.fault) >>
  \o (IF p.warning = 0 THEN ErrOff("warning") ELSE << >>)
  \o (IF p.fault = 0 THEN ErrOff("fault") ELSE << >>)

\* A structure with a field written; the last write of the voltage limits is the
\* calculation for zero current.
Put(s, w) == [s EXCEPT ![w.field] = w.value]
WriteVref(v, w) == IF w.field = "calc" THEN VrefCalcRT(v, w.value) ELSE Put(v, w)
WriteErr(e, w) == [e EXCEPT ![w.limit] = Put(@, w)]

(***************************************************************************)
(* Real time: the checks of one iteration.                                  *)
(***************************************************************************)
\* A flag with hysteresis: raised below the lower level, dropped above the upper.
Below(flag, x, level, hyst) ==
  IF level > 0 THEN (IF flag THEN x <= level ELSE x < hyst) ELSE flag

MeasRT(m, i_meas) ==
  LET i == IF m.invert THEN -i_meas ELSE i_meas
  IN [m EXCEPT !.trip = i > m.posTrip \/ (m.negTrip < 0 /\ i < m.negTrip),
               !.zeroFlag = Below(@, Abs(i_meas), m.zero, m.zeroHyst),
               !.lowFlag = Below(@, Abs(i_meas), m.low, m.lowHyst)]

MeasRmsRT(r, i_meas) ==
  IF r.tc = 0 THEN r
  ELSE LET f == r.filter + (Square(i_meas) - r.filter) \div r.tc
       IN [r EXCEPT !.filter = f,
                    !.faultFlag = r.fault > 0 /\ f > r.fault,
                    !.warningFlag = IF r.warning > 0
                                    THEN (IF @ THEN f >= r.hyst ELSE f > r.warning)
                                    ELSE @]

\* The reference clipped to the limits, which are turned over when inverted.
Clip(v, ref) ==
  LET lo == IF v.invert THEN -v.maxClip ELSE v.minClip
      hi == IF v.invert THEN -v.minClip ELSE v.maxClip
  IN IF ref < lo THEN lo ELSE IF ref > hi THEN hi ELSE ref

\* A step downwards measured upwards from the last reference.
RefRTUp(v, ref) ==
  LET r == Clip(v, ref)
      limited == IF v.rateClip > 0
                 THEN Least(r, v.ref + v.rateClip) ELSE r
  IN [v EXCEPT !.ref = IF r < v.ref /\ v.rateClip > 0 THEN v.ref ELSE limited]

RefRT(v, ref) ==
  LET r == Clip(v, ref)
  IN [v EXCEPT !.ref = IF v.rateClip = 0 THEN r
                       ELSE IF r > v.ref THEN Least(r, v.ref + v.rateClip)
                       ELSE Most(r, v.ref - v.rateClip)]

ErrScale == 100         \* the filter of the exceeded flag counts hundredths

LimitRT(l, e) ==
  LET exceeded == 2 * e > (IF l.flag THEN l.threshold ELSE 2 * l.threshold)
      f == (9 * l.filter) \div 10 + (IF exceeded THEN ErrScale \div 10 ELSE 0)
  IN [l EXCEPT !.filter = f, !.flag = 10 * f > 3 * ErrScale]

CheckLimitsRT(s, e) ==
  [l \in DOMAIN s |-> IF s[l].threshold > 0 THEN LimitRT(s[l], e) ELSE s[l]]

ResetLimitsVarsRT(s) == [l \in DOMAIN s |-> [s[l] EXCEPT !.filter = 0, !.flag = FALSE]]

(***************************************************************************)
(* The two threads.                                                         *)
(***************************************************************************)
ParsOf(p) == CASE p = "meas" -> MeasPars [] p = "rms" -> RmsPars
               [] p = "vref" -> VrefPars [] p = "err" -> ErrPars

Writes(p, s) == CASE p = "meas" -> MeasInit(s) [] p = "rms" -> RmsInit(s)
                  [] p = "vref" -> VrefInit(s) [] p = "err" -> ErrInit(s)

Zeroed ==
  [meas |-> [invert |-> FALSE, posTrip |-> 0, negTrip |-> 0, low |-> 0, zero |-> 0,
             lowHyst |-> 0, zeroHyst |-> 0,
             trip |-> FALSE, lowFlag |-> FALSE, zeroFlag |-> FALSE],
   rms |-> [tc |-> 0, fault |-> 0, warning |-> 0, hyst |-> 0, filter |-> 0,
            faultFlag |-> FALSE, warningFlag |-> FALSE],
   vref |-> [invert |-> FALSE, rateClip |-> 0, maxUser |-> 0, minUser |-> 0, iMax |-> 0,
             v0 |-> 0, dvdi |-> 0, maxClip |-> 0, minClip |-> 0, ref |-> 0],
   err |-> [l \in {"warning", "fault"} |-> [threshold |-> 0, filter |-> 0, flag |-> FALSE]]]

Idle == next > Len(Writes(part, pars))

\* Static structures are zero when the first regMgrPars begins.
Init ==
  /\ part \in Parts /\ pars \in ParsOf(part)
  /\ next = 1 /\ running = FALSE /\ input = 0
  /\ meas = Zeroed.meas /\ rms = Zeroed.rms /\ vref = Zeroed.vref /\ err = Zeroed.err

\* regMgrPars finds other limits, and begins to write them.
NewLimits ==
  /\ Idle
  /\ \E p \in ParsOf(part) : p # pars /\ pars' = p
  /\ next' = 1
  /\ UNCHANGED <<part, running, meas, rms, vref, err, input>>

\* regMgrPars finds LIMITS INVERT changed.
Invert ==
  /\ Idle
  /\ \/ part = "meas" /\ meas' = [meas EXCEPT !.invert = ~@] /\ vref' = vref
     \/ part = "vref" /\ vref' = [vref EXCEPT !.invert = ~@] /\ meas' = meas
  /\ UNCHANGED <<part, pars, next, running, rms, err, input>>

\* The next field is written.
Write ==
  /\ ~Idle
  /\ LET w == Writes(part, pars)[next]
     IN /\ meas' = IF part = "meas" THEN Put(meas, w) ELSE meas
        /\ rms' = IF part = "rms" THEN Put(rms, w) ELSE rms
        /\ vref' = IF part = "vref" THEN WriteVref(vref, w) ELSE vref
        /\ err' = IF part = "err" THEN WriteErr(err, w) ELSE err
  /\ next' = next + 1
  /\ UNCHANGED <<part, pars, running, input>>

\* With the configuration read, the program starts its real-time thread.
StartRtThread ==
  /\ Idle /\ ~running
  /\ running' = TRUE
  /\ UNCHANGED <<part, pars, next, meas, rms, vref, err, input>>

Background == NewLimits \/ Invert \/ Write \/ StartRtThread

\* regMgrMeasSetRT checks the current, and the voltage limits follow it;
\* regMgrRegulateRT limits the reference.
MeasIteration ==
  /\ part = "meas" /\ running
  /\ \E i \in Currents : meas' = MeasRT(meas, i) /\ input' = i
  /\ UNCHANGED <<part, pars, next, running, rms, vref, err>>

RmsIteration ==
  /\ part = "rms" /\ running
  /\ \E i \in Currents : rms' = MeasRmsRT(rms, i) /\ input' = i
  /\ UNCHANGED <<part, pars, next, running, meas, vref, err>>

VrefIteration ==
  /\ part = "vref" /\ running
  /\ \E i \in Currents, r \in Refs : vref' = RefRT(VrefCalcRT(vref, i), r) /\ input' = i
  /\ UNCHANGED <<part, pars, next, running, meas, rms, err>>

ErrIteration ==
  /\ part = "err" /\ running
  /\ \E e \in Errors : err' = CheckLimitsRT(err, e) /\ input' = e
  /\ UNCHANGED <<part, pars, next, running, meas, rms, vref>>

\* A change of mode starts the checks of the error afresh.
ErrReset ==
  /\ part = "err" /\ running
  /\ err' = ResetLimitsVarsRT(err)
  /\ UNCHANGED <<part, pars, next, running, meas, rms, vref, input>>

Iteration == MeasIteration \/ RmsIteration \/ VrefIteration \/ ErrIteration

Next == Background \/ Iteration \/ ErrReset

(***************************************************************************)
(* The timer runs the iterations, so a measurement that rests is checked     *)
(* again and again; regMgrPars, once begun, runs to its end, and the program *)
(* comes to start the real-time thread.                                     *)
(***************************************************************************)
Resting == Iteration /\ input' = input

Spec == Init /\ [][Next]_vars /\ WF_vars(Resting) /\ WF_vars(Write) /\ WF_vars(StartRtThread)

-----------------------------------------------------------------------------
MeasType ==
  [invert : BOOLEAN, posTrip : Int, negTrip : Int, low : Int, zero : Int,
   lowHyst : Int, zeroHyst : Int, trip : BOOLEAN, lowFlag : BOOLEAN, zeroFlag : BOOLEAN]

RmsType ==
  [tc : Nat, fault : Int, warning : Int, hyst : Int, filter : Nat,
   faultFlag : BOOLEAN, warningFlag : BOOLEAN]

VrefType ==
  [invert : BOOLEAN, rateClip : Int, maxUser : Int, minUser : Int, iMax : Int,
   v0 : Int, dvdi : Int, maxClip : Int, minClip : Int, ref : Int]

Names == {"warning", "fault"}
ErrFields == [threshold : Nat, filter : 0 .. (ErrScale - 1), flag : BOOLEAN]
ErrType == [Names -> ErrFields]

\* The structures have their types; the filters stay within what is fed to them.
TypeOK ==
  /\ part \in Parts /\ pars \in ParsOf(part)
  /\ next \in 1 .. 10 /\ running \in BOOLEAN
  /\ input \in Currents \cup Errors
  /\ meas \in MeasType /\ rms \in RmsType /\ vref \in VrefType /\ err \in ErrType

\* A low or zero flag that is up while no limits are being written is true of
\* the last measurement: an iteration between two writes, which may raise it
\* with the new level and the old hysteresis, leaves nothing behind
\* (regLimMeasInit clears the flags last, regLim.c:44).
LowTrue ==
  part = "meas" /\ Idle =>
     /\ meas.lowFlag => Abs(input) <= meas.low
     /\ meas.zeroFlag => Abs(input) <= meas.zero

\* RMS limits that are switched off hold no flag, and a warning that is up has
\* a filter above its lower level, though the limits are rewritten between
\* iterations (regLimRmsInit, regLim.c:51).
RmsTrue ==
  part = "rms" /\ Idle =>
     /\ pars.tc = 0 => ~rms.warningFlag /\ ~rms.faultFlag
     /\ rms.warningFlag => rms.warning > 0 /\ rms.filter >= rms.hyst
     /\ rms.faultFlag => rms.fault > 0 /\ rms.filter > rms.fault

\* The limit of the error that is switched off holds no flag, which no iteration
\* would clear (regErrInitLimits, regErr.c:35).
OffHoldsNoFlag ==
  part = "err" /\ Idle => \A l \in DOMAIN err : err[l].threshold = 0 => ~err[l].flag

\* The flags are right whenever no limits are being written, though an iteration
\* between two writes may have judged by the new level and the old hysteresis.
FlagsTrue == TypeOK /\ LowTrue /\ RmsTrue /\ OffHoldsNoFlag

\* An exclusion zone in use is that of one set of limits, never the slope of one
\* with the offset or the end of another (the comment at regLim.c:135).
ZoneOfOneSet ==
  part = "vref" /\ running /\ vref.iMax # Disabled =>
     \E p \in VrefPars : /\ HasZone(p)
                         /\ Zone(p) = [v0 |-> vref.v0, dvdi |-> vref.dvdi, iMax |-> vref.iMax]

\* Whatever the current, the zone and the moment at which limits are rewritten,
\* the clip limits admit zero volts: the reference can always come back to it.
ZeroAllowed == part = "vref" => vref.minClip <= 0 /\ 0 <= vref.maxClip

\* Both: what the reference is clipped to can be trusted in every iteration,
\* those between two writes of the limits included.
ClipsSound == ZoneOfOneSet /\ ZeroAllowed

\* Once the limits and the measured current rest, the reference comes within the
\* clip limits at the limited rate and stays, from wherever a change of limits
\* or their inversion left it.
Inside == Clip(vref, vref.ref) = vref.ref
Returns ==
  (part = "vref" /\ <>[][~Background]_vars /\ <>[][input' = input]_vars) => <>[]Inside

=============================================================================
