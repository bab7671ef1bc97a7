------------------------------ MODULE FuncGen ------------------------------
(***************************************************************************)
(* The function generator of libfg: what fgTableInit, fgRampInit, ... make  *)
(* of the parameters of a function, and what the real-time functions make    *)
(* of the armed parameters at a time.  Times and references are whole        *)
(* numbers; the parameters given to the functions are chosen so that the     *)
(* quotients and square roots the code takes of them are whole too, except   *)
(* in a ramp, whose time shift is rounded down to whole units of time.        *)
(* FG_CLIP_LIMIT_FACTOR, a margin against rounding, is nothing here.          *)
(***************************************************************************)
EXTENDS Integers, Sequences, SequencesExt

Mag(x) == IF x < 0 THEN -x ELSE x

\* The square root, rounded down; the code's is exact where x is a square.
Sqrt(x) == CHOOSE r \in 0 .. 40 : r * r <= x /\ x < (r + 1) * (r + 1)

(***************************************************************************)
(* The meta data of a function (fg.c).                                      *)
(***************************************************************************)
ResetMeta(initial) ==
  [start |-> 0, end |-> 0, initial |-> initial, final |-> initial,
   min |-> initial, max |-> initial, inverted |-> FALSE,
   lo |-> 0, hi |-> 0, rate |-> 0, acceleration |-> 0]

SetMinMax(m, ref) ==
  [m EXCEPT !.max = IF ref > @ THEN ref ELSE @, !.min = IF ref < @ THEN ref ELSE @]

\* c is the converter's side of an arming: whether limits are given, the limits
\* (lim) and the polarity switch (auto, neg).

\* The limits are turned over when the polarity switch is, or will be, negative.
SetMeta(m, c, end) ==
  LET inverted == (~c.auto /\ c.neg) \/ (c.auto /\ m.max <= 0 /\ m.min < 0)
      over == [m EXCEPT !.end = end, !.inverted = inverted]
  IN IF ~c.given THEN over
     ELSE [over EXCEPT
             !.lo = IF inverted THEN -c.lim.pos
                    ELSE IF c.lim.neg < 0 THEN c.lim.neg ELSE c.lim.min,
             !.hi = IF inverted THEN -c.lim.min ELSE c.lim.pos,
             !.rate = c.lim.rate, !.acceleration = c.lim.acceleration]

\* The lower limit forgotten.
CheckRefUpper(m, ref, rate, acceleration) ==
  /\ ref <= m.hi
  /\ m.rate > 0 => Mag(rate) <= m.rate
  /\ m.acceleration > 0 => Mag(acceleration) <= m.acceleration

CheckRef(m, ref, rate, acceleration) ==
  /\ m.lo <= ref /\ ref <= m.hi
  /\ m.rate > 0 => Mag(rate) <= m.rate
  /\ m.acceleration > 0 => Mag(acceleration) <= m.acceleration

Refused == [ok |-> FALSE]
Armed(p, c, checks) == IF c.given => checks THEN [ok |-> TRUE, pars |-> p] ELSE Refused

(***************************************************************************)
(* TABLE                                                                    *)
(***************************************************************************)
TableInit(f, c) ==
  LET n == Len(f.ref)
      m0 == FoldLeft(SetMinMax, ResetMeta(f.ref[1]), f.ref)
      m == [SetMeta(m0, c, f.time[n]) EXCEPT !.start = f.time[1], !.final = f.ref[n]]
      Slope(i) == (f.ref[i] - f.ref[i - 1]) \div (f.time[i] - f.time[i - 1])
  IN IF n < 2 \/ n # Len(f.time) THEN Refused
     ELSE IF \E i \in 2 .. n : f.time[i] < f.time[i - 1] + f.step THEN Refused
     ELSE Armed([type |-> "TABLE", meta |-> m, ref |-> f.ref, time |-> f.time,
                 seg |-> 1, prevSeg |-> 1, grad |-> 0], c,
                /\ CheckRef(m, f.ref[1], 0, 0)
                /\ \A i \in 2 .. n : CheckRef(m, f.ref[i], Slope(i), 0))

\* The segment holding a time, searched from the one used last: forward past
\* the points that are over, then back before those that have not come.
Segment(p, t) ==
  LET n == Len(p.time)
      forward == CHOOSE i \in p.seg .. n : t < p.time[i] /\ \A j \in p.seg .. (i - 1) : t >= p.time[j]
  IN CHOOSE i \in 2 .. forward : t >= p.time[i - 1] /\ \A j \in (i + 1) .. forward : t < p.time[j - 1]

TableGrad(p, i) == (p.ref[i] - p.ref[i - 1]) \div (p.time[i] - p.time[i - 1])

Out(p, r, status) == [pars |-> p, ref |-> r, status |-> status]

\* The slope is worked out again only when the search moves forward.
TableRTForward(p, t) ==
  IF t < p.meta.start THEN Out(p, p.meta.initial, "PRE")
  ELSE IF t >= p.meta.end THEN Out(p, p.meta.final, "POST")
  ELSE LET i == Segment(p, t)
           g == IF i > p.prevSeg THEN TableGrad(p, i) ELSE p.grad
       IN Out([p EXCEPT !.seg = i, !.prevSeg = i, !.grad = g],
              p.ref[i] - (p.time[i] - t) * g, "DURING")

TableRT(p, t) ==
  IF t < p.meta.start THEN Out(p, p.meta.initial, "PRE")
  ELSE IF t >= p.meta.end THEN Out(p, p.meta.final, "POST")
  ELSE LET i == Segment(p, t)
           g == IF i # p.prevSeg THEN TableGrad(p, i) ELSE p.grad
       IN Out([p EXCEPT !.seg = i, !.prevSeg = i, !.grad = g],
              p.ref[i] - (p.time[i] - t) * g, "DURING")

(***************************************************************************)
(* PULSE, LTRIM and CTRIM                                                   *)
(***************************************************************************)
PulseInit(f, c) ==
  LET a == IF f.rate < 0 THEN -Mag(f.acceleration) ELSE Mag(f.acceleration)
      start == -f.rate \div a
      initial == f.initial - (a * start * start) \div 2
      final == f.initial + f.rate * f.duration
      m == IF f.rate = 0 THEN SetMeta(ResetMeta(f.initial), c, f.duration)
           ELSE SetMeta([SetMinMax(ResetMeta(initial), final)
                          EXCEPT !.start = start, !.final = final], c, f.duration)
  IN IF f.rate # 0 /\ f.acceleration = 0 THEN Refused
     ELSE Armed([type |-> "PULSE", meta |-> m, ref |-> f.initial, rate |-> f.rate,
                 acceleration |-> IF f.rate = 0 THEN f.acceleration ELSE a], c,
                /\ CheckRef(m, m.initial, 0, f.acceleration)
                /\ CheckRef(m, f.initial, f.rate, 0)
                /\ CheckRef(m, m.final, 0, 0))

PulseRT(p, t) ==
  IF t < p.meta.start THEN Out(p, p.meta.initial, "PRE")
  ELSE IF t < 0
  THEN Out(p, p.meta.initial + (p.acceleration * (t - p.meta.start) * (t - p.meta.start)) \div 2,
           "DURING")
  ELSE Out(p, p.ref + t * p.rate, IF t < p.meta.end THEN "DURING" ELSE "POST")

\* A duration of zero asks for the shortest trim the limits allow.
TrimDuration(f, c) ==
  LET delta == Mag(f.final - f.initial)
      byRate == (IF f.cubic THEN 3 * delta ELSE 2 * delta) \div (2 * c.lim.rate)
      byAcceleration == Sqrt((6 * delta) \div c.lim.acceleration)
  IN IF f.duration > 0 THEN f.duration
     ELSE IF f.cubic /\ byRate < byAcceleration THEN byAcceleration ELSE byRate

TrimInit(f, c) ==
  LET delta == f.final - f.initial
      d == TrimDuration(f, c)
      a == IF f.cubic THEN (-2 * delta) \div (d * d * d) ELSE 0
      rate == (IF f.cubic THEN 3 * delta ELSE 2 * delta) \div (2 * d)
      m == SetMeta([SetMinMax(ResetMeta(f.initial), f.final) EXCEPT !.final = f.final], c, d)
      p == [type |-> "TRIM", meta |-> m, a |-> a, c |-> rate, half |-> d \div 2,
            offset |-> (f.initial + f.final) \div 2]
  IN IF f.duration = 0 /\ (~c.given \/ c.lim.rate = 0 \/ (f.cubic /\ c.lim.acceleration = 0)) THEN Refused
     ELSE Armed(p, c,
                /\ CheckRef(m, f.initial, 0, IF f.cubic THEN 3 * a * d ELSE 0)
                /\ CheckRef(m, p.offset, rate, 0)
                /\ CheckRef(m, f.final, 0, 0))

TrimRT(p, t) ==
  LET s == t - p.half
  IN IF t < 0 THEN Out(p, p.meta.initial, "PRE")
     ELSE IF t >= p.meta.end THEN Out(p, p.meta.final, "POST")
     ELSE Out(p, p.offset + s * (p.a * s * s + p.c), "DURING")

(***************************************************************************)
(* TEST: STEPS and SQUARE, and SINE and COSINE at the quarters of a period,  *)
(* with their window and without the exponential decay.                      *)
(***************************************************************************)
TestInit(f, c) ==
  LET duration == f.cycles * f.period
      m0 == ResetMeta(f.initial)
      m1 == CASE f.shape = "STEPS"  -> [SetMinMax(m0, f.initial + f.amplitude)
                                         EXCEPT !.final = f.initial + f.amplitude]
              [] f.shape = "SQUARE" -> SetMinMax(m0, f.initial + f.amplitude)
              [] OTHER -> SetMinMax(SetMinMax(m0, f.initial + f.amplitude \div 2),
                                    f.initial - f.amplitude \div 2)
      p == [type |-> "TEST", shape |-> f.shape, meta |-> SetMeta(m1, c, duration),
            cycles |-> IF f.shape = "SQUARE" THEN 2 * f.cycles ELSE f.cycles,
            period |-> f.period, window |-> f.window,
            amplitude |-> CASE f.shape = "STEPS" -> f.amplitude \div f.cycles
                            [] f.shape = "SQUARE" -> f.amplitude
                            [] OTHER -> f.amplitude \div 2]
  IN IF f.cycles = 0 \/ f.period <= 0 THEN Refused ELSE Armed(p, c, TRUE)

\* Of a period of four: sine and cosine at time t.
Sin(t) == <<0, 1, 0, -1>>[1 + (t % 4)]
Cos(t) == <<1, 0, -1, 0>>[1 + (t % 4)]

TestRT(p, t) ==
  LET step == 1 + t \div p.period
      half == 1 + (2 * t) \div p.period
      wave == p.amplitude * (IF p.shape = "SINE" THEN Sin(t) ELSE Cos(t))
      edge == t < p.period \div 2 \/ p.meta.end - t < p.period \div 2
      shaped == IF p.window /\ edge THEN (wave * (1 - Cos(t))) \div 2 ELSE wave
  IN IF t < 0 THEN Out(p, p.meta.initial, "PRE")
     ELSE IF t >= p.meta.end THEN Out(p, p.meta.final, "POST")
     ELSE Out(p, p.meta.initial +
                 CASE p.shape = "STEPS"  -> p.amplitude * (IF step > p.cycles THEN p.cycles ELSE step)
                   [] p.shape = "SQUARE" -> IF (IF half > p.cycles THEN p.cycles ELSE half) % 2 = 1
                                            THEN p.amplitude ELSE 0
                   [] OTHER -> shaped, "DURING")

(***************************************************************************)
(* PLEP without its exponential segment: parabola, linear, parabola and the  *)
(* parabola that gives it its final rate.  The reference is reflected about  *)
(* zero for a PLEP that ascends (sign).                                      *)
(***************************************************************************)
\* References and durations of the segments, from the normalised ends.
\* A square root of a negative number is no number, and less than none.
PlepSegments(r0, r4, rate, a) ==
  LET parabola == r0 - r4 >= 0 /\ Sqrt((r0 - r4) \div a) * a < rate
      dt == IF parabola THEN Sqrt((r0 - r4) \div a) ELSE rate \div a
      r1 == r0 - (a * dt * dt) \div 2
      r3 == r4 + (rate * rate) \div (2 * a)
  IN IF parabola THEN [ref |-> <<r0, (r0 + r4) \div 2, (r0 + r4) \div 2, r4>>,
                       dt |-> <<dt, 0, dt>>]
     ELSE [ref |-> <<r0, r1, r3, r4>>, dt |-> <<dt, (r1 - r3) \div rate, dt>>]

\* The ends of the segments that are checked, with the rates there.
PlepChecks(p, rate, finalRate) ==
  LET a == -p.acceleration
      Check(i, v) == CheckRef(p.meta, p.sign * p.ref[i], v, a)
  IN /\ Check(2, a * p.time[1])
     /\ p.time[2] > p.time[1] => Check(3, rate)
     /\ Check(3, a * (p.time[3] - p.time[2]))
     /\ Check(4, 0)
     /\ Check(5, finalRate)

PlepInit(f, c) ==
  LET sign == IF f.initial >= f.final THEN 1 ELSE -1
      a == Mag(f.acceleration)
      finalAcc == IF f.finalRate >= 0 THEN a ELSE -a
      dt5 == f.finalRate \div finalAcc
      r4 == f.final - (f.finalRate * dt5) \div 2
      s == PlepSegments(sign * f.initial, sign * r4, Mag(f.rate), a)
      times == <<s.dt[1], s.dt[1] + s.dt[2], s.dt[1] + s.dt[2] + s.dt[3],
                 s.dt[1] + s.dt[2] + s.dt[3] + dt5>>
      refs == Append(s.ref, sign * f.final)
      m0 == FoldLeft(SetMinMax, ResetMeta(f.initial), [i \in 1 .. 5 |-> sign * refs[i]])
      m == [SetMeta(m0, c, times[4]) EXCEPT !.final = f.final]
      p == [type |-> "PLEP", meta |-> m, sign |-> sign, ref |-> refs, time |-> times,
            acceleration |-> -a, rate |-> -Mag(f.rate),
            finalRate |-> sign * f.finalRate, finalAcc |-> sign * finalAcc]
  IN IF f.acceleration = 0 \/ f.rate = 0 THEN Refused
     ELSE Armed(p, c, PlepChecks(p, f.rate, f.finalRate))

PlepRT(p, t) ==
  LET Into(i) == t - p.time[i]
      accelerating == t <= p.time[1]
      linear == ~accelerating /\ t <= p.time[2]
      decelerating == ~accelerating /\ ~linear /\ t < p.time[3]
      ending == ~accelerating /\ ~linear /\ ~decelerating /\ t < p.time[4]
      over == ~(accelerating \/ linear \/ decelerating \/ ending)
      r == CASE accelerating -> p.ref[1] + (p.acceleration * t * t) \div 2
             [] linear -> p.ref[2] + p.rate * Into(1)
             [] decelerating -> p.ref[4] - (p.acceleration * Into(3) * Into(3)) \div 2
             [] ending -> p.ref[4] + (p.finalAcc * Into(3) * Into(3)) \div 2
             [] over -> p.ref[5] + p.finalRate * Into(4)
  IN IF t < 0 THEN Out(p, p.sign * p.ref[1], "PRE")
     ELSE Out(p, p.sign * r, IF over THEN "POST" ELSE "DURING")

(***************************************************************************)
(* PPPL: each section is three parabolas and a linear segment, which the     *)
(* next section continues.                                                  *)
(***************************************************************************)
\* The square of the rate from which a3 brings rate and reference to rate4, ref4,
\* when a is the acceleration from r at rate v until then.
RateSquared(s, r, v, a) ==
  (2 * a * s.a3 * (s.ref4 - r) + v * v * s.a3 - s.rate4 * s.rate4 * a) \div (s.a3 - a)

\* One section, from reference r at rate v: the durations, the rates at which the
\* second and third segment start, and whether it can be done.
PpplSection(s, r, v) ==
  LET dt1 == (s.rate2 - v) \div s.a1
      r1 == r + (dt1 * (v + s.rate2)) \div 2
      p == RateSquared(s, r1, s.rate2, s.a2)
      v3 == Sqrt(p) * (IF s.a3 > 0 THEN -1 ELSE 1)
      dt3 == (s.rate4 - v3) \div s.a3
      dt2 == (2 * (s.ref4 - r1) - dt3 * (v3 + s.rate4)) \div (s.rate2 + v3)
      \* the second parabola has no time: the first is cut short
      q == RateSquared(s, r, v, s.a1)
      w3 == Sqrt(q) * (IF s.a3 > 0 THEN -1 ELSE 1)
      ut3 == (s.rate4 - w3) \div s.a3
      ut1 == (2 * (s.ref4 - r) - ut3 * (w3 + s.rate4)) \div (v + w3)
      ur == r + (ut1 * (v + w3)) \div 2
      bad == [ok |-> FALSE]
  IN IF s.a1 = 0 \/ s.a3 = 0 \/ s.a3 = s.a2 \/ s.rate2 = v THEN bad
     ELSE IF p < 0 THEN bad
     ELSE IF s.rate2 + v3 = 0 THEN bad
     ELSE IF dt2 >= 0
     THEN [ok |-> dt1 >= 0 /\ dt3 >= 0, dt |-> <<dt1, dt2, dt3>>, v |-> <<s.rate2, v3>>,
           r |-> <<r1, r1 + (dt2 * (s.rate2 + v3)) \div 2>>]
     ELSE IF s.a3 = s.a1 \/ q < 0 THEN bad
     ELSE IF v + w3 = 0 THEN bad
     ELSE [ok |-> ut1 >= 0 /\ ut3 >= 0, dt |-> <<ut1, 0, ut3>>, v |-> <<w3, w3>>, r |-> <<ur, ur>>]

\* The segments of a section x after those of the sections before: the time of their
\* end, and the reference, rate and acceleration there.
AddSection(segs, s, before, x) ==
  LET t1 == before.t + x.dt[1]
      t2 == t1 + x.dt[2]
      t3 == t2 + x.dt[3]
  IN segs \o << [t |-> t1, r |-> x.r[1], v |-> x.v[1], a |-> s.a1],
                [t |-> t2, r |-> x.r[2], v |-> x.v[2], a |-> s.a2],
                [t |-> t3, r |-> s.ref4, v |-> s.rate4, a |-> s.a3],
                [t |-> t3 + s.duration, r |-> s.ref4 + s.rate4 * s.duration,
                 v |-> s.rate4, a |-> 0] >>

Sections(f) ==
  LET before(segs) == IF segs = << >> THEN [t |-> 0, r |-> f.initial, v |-> 0] ELSE Last(segs)
      After(segs, s, l, x) ==
        [ok |-> x.ok, segs |-> IF x.ok THEN AddSection(segs, s, l, x) ELSE << >>]
      With(segs, s, l) == After(segs, s, l, PpplSection(s, l.r, l.v))
      Add(x, s) == IF x.ok THEN With(x.segs, s, before(x.segs)) ELSE x
  IN FoldLeft(Add, [ok |-> TRUE, segs |-> << >>], f.sections)

\* The check of a segment is given half its acceleration, as the code gives it.
PpplChecks(m, segs) ==
  \A i \in DOMAIN segs :
    /\ CheckRef(m, segs[i].r, segs[i].v, 0)
    /\ m.acceleration > 0 => Mag(segs[i].a) <= 2 * m.acceleration

PpplInit(f, c) ==
  LET AtEnds(segs)  == [i \in DOMAIN segs |-> IF i % 4 \in {0, 3} THEN segs[i].r ELSE f.initial]
      Meta(segs, l) == [SetMeta(FoldLeft(SetMinMax, ResetMeta(f.initial), AtEnds(segs)), c, l.t)
                          EXCEPT !.final = l.r]
      Checked(segs, m) == Armed([type |-> "PPPL", meta |-> m, segs |-> segs, seg |-> 1], c,
                             PpplChecks(m, segs))
      Taken(x) == IF x.ok THEN Checked(x.segs, Meta(x.segs, Last(x.segs))) ELSE Refused
  IN IF f.sections = << >> THEN Refused ELSE Taken(Sections(f))

At(p, i, t) ==
  LET s == t - p.segs[i].t
  IN p.segs[i].r + s * p.segs[i].v + (p.segs[i].a * s * s) \div 2

\* The segment is searched forward from the one used last, then back.
PpplRT(p, t) ==
  LET n == Len(p.segs)
      later == { i \in p.seg .. n : t <= p.segs[i].t }
      forward == CHOOSE i \in later : \A j \in later : i <= j
      back == CHOOSE i \in 1 .. forward :
                /\ i = 1 \/ t >= p.segs[i - 1].t
                /\ \A j \in (i + 1) .. forward : t < p.segs[j - 1].t
  IN IF t < 0 THEN Out([p EXCEPT !.seg = 1], p.meta.initial, "PRE")
     ELSE IF later = {} THEN Out([p EXCEPT !.seg = n], p.segs[n].r, "POST")
     ELSE Out([p EXCEPT !.seg = back], At(p, back, t), "DURING")

(***************************************************************************)
(* RAMP: two parabolas, the reference being both an input and an output.     *)
(***************************************************************************)
\* A ramp may take over from another function at its rate: its first parabola is
\* then shifted in time, and turns back when the rate would overshoot the end.
RampCalc(f) ==
  LET delta == f.final - f.initial
      fastest == Sqrt(2 * Mag(f.deceleration) * Mag(delta))
      down == \/ delta >= 0 /\ f.initialRate > fastest
              \/ delta < 0 /\ f.initialRate >= -fastest
      a == IF down THEN -Mag(f.acceleration) ELSE Mag(f.acceleration)
      d == IF down THEN Mag(f.deceleration) ELSE -Mag(f.deceleration)
      shift == -f.initialRate \div a
      ref0 == f.initial + (f.initialRate * shift) \div 2
      end == Sqrt((2 * (f.final - ref0) * (d - a)) \div (d * a))
      m0 == SetMinMax(ResetMeta(f.initial), f.final)
  IN [type |-> "RAMP",
      meta |-> [(IF shift > 0 THEN SetMinMax(m0, ref0) ELSE m0)
                  EXCEPT !.start = f.start, !.final = f.final],
      up |-> ~down, pre |-> shift > 0, acceleration |-> a, deceleration |-> d,
      rate |-> Mag(f.rate), rateLimit |-> Mag(f.initialRate),
      ref |-> <<ref0, ref0 + ((f.final - ref0) * d) \div (d - a), f.final>>,
      time |-> <<(end * d) \div (d - a), end>>, shift |-> shift,
      prevRamp |-> f.initial, prevRef |-> f.initial, prevTime |-> f.start]

RampInit(f, c) ==
  LET r == RampCalc(f)
      p == [r EXCEPT !.meta = SetMeta(@, c, f.start + r.time[2] + r.shift)]
  IN IF f.acceleration = 0 \/ f.deceleration = 0 THEN Refused
     ELSE Armed(p, c, /\ CheckRef(p.meta, f.initial, 0, p.acceleration)
                      /\ CheckRef(p.meta, f.final, 0, p.deceleration))

\* A ramp that is taken for one that still has to turn, all along.
ShiftToTurn(p, ref) ==
  LET since == p.prevTime - p.meta.start
  IN IF (p.up /\ ref > p.ref[1]) \/ (~p.up /\ ref < p.ref[1])
     THEN since + Sqrt((2 * (ref - p.ref[1])) \div p.acceleration) ELSE p.shift

\* The time shift that puts the ramp at a reference which the application limited
\* since the last call: on the first parabola, before or after its turn, or on
\* the second.
ShiftTo(p, ref) ==
  LET beyond(i) == IF p.up THEN ref > p.ref[i] ELSE ref < p.ref[i]
      since == p.prevTime - p.meta.start
      onFirst == Sqrt((2 * (ref - p.ref[1])) \div p.acceleration)
      onSecond == Sqrt((2 * (ref - p.ref[3])) \div p.deceleration)
  IN CASE ~beyond(1) -> p.shift
       [] beyond(1) /\ p.pre -> since + onFirst
       [] beyond(1) /\ ~p.pre /\ ~beyond(2) -> since - onFirst
       [] beyond(2) /\ ~p.pre /\ ~beyond(3) -> since - (p.time[2] - onSecond)
       [] beyond(3) /\ ~p.pre -> p.shift

\* The reference at a time of the ramp.
RampRef(p, rt) ==
  CASE rt <= p.time[1] -> p.ref[1] + (p.acceleration * rt * rt) \div 2
    [] rt > p.time[1] /\ rt <= p.time[2] ->
         p.ref[3] + (p.deceleration * (rt - p.time[2]) * (rt - p.time[2])) \div 2
    [] rt > p.time[2] -> p.ref[3]

\* The reference r no further from ref than the rate limit allows in a period; a
\* limit above the user's is slowed down to it.
RateLimited(r, ref, limit, period) ==
  IF r > ref + limit * period THEN ref + limit * period
  ELSE IF r < ref - limit * period THEN ref - limit * period ELSE r
Slowed(p, limit, rt, period) ==
  IF limit <= p.rate THEN limit
  ELSE limit - period * Mag(IF rt <= p.time[2] THEN p.acceleration ELSE p.deceleration)

\* rt is measured from the end once the second parabola has begun, so the slowing
\* of the rate limit uses the acceleration until the ramp is over.
RampRT(p, t, ref) ==
  LET shift == IF ref # p.prevRamp /\ ref # p.prevRef THEN ShiftTo(p, ref) ELSE p.shift
      rt == t - p.meta.start - shift
      r == RampRef(p, rt)
      period == t - p.prevTime
      limiting == p.rate > 0 /\ period > 0
      limit == IF p.rateLimit < p.rate THEN p.rate ELSE p.rateLimit
  IN IF t < p.meta.start
     THEN Out([p EXCEPT !.prevRef = ref, !.prevTime = t], p.meta.initial, "PRE")
     ELSE Out([p EXCEPT !.shift = shift, !.prevRamp = r, !.prevRef = ref, !.prevTime = t,
                        !.pre = @ /\ ~(0 <= rt /\ rt <= p.time[1]),
                        !.rateLimit = IF limiting THEN Slowed(p, limit, rt, period) ELSE @],
              IF limiting THEN RateLimited(r, ref, limit, period) ELSE r,
              IF rt > p.time[2] THEN "POST" ELSE "DURING")

-----------------------------------------------------------------------------
(***************************************************************************)
(* A function armed, and called once an iteration by the real-time thread.   *)
(* An application that follows the cycle of its machine may call it at any   *)
(* time, except that the time of a ramp must not go backwards (ramp.h).      *)
(***************************************************************************)
CONSTANTS Functions,    \* the parameters of functions that may be armed
          Converters,   \* limits and polarity switches
          Period,       \* longest time between two calls of a ramp
          MaxTime,      \* bound: the latest time of a call
          MaxLimited    \* bound: how often the application limits a ramp

VARIABLES armed,        \* the armed parameters, or None
          with,         \* the converter they were checked for
          time,         \* time of the last call
          ref,          \* the reference
          status,       \* what the last call returned
          limited       \* how often the application limited the reference

vars == <<armed, with, time, ref, status, limited>>

None == [type |-> "NONE"]
NoConverter == [given |-> FALSE, auto |-> FALSE, neg |-> FALSE]

InitOf(f, c) ==
  CASE f.type = "TABLE" -> TableInit(f, c) [] f.type = "PULSE" -> PulseInit(f, c)
    [] f.type = "TRIM" -> TrimInit(f, c)   [] f.type = "TEST" -> TestInit(f, c)
    [] f.type = "PLEP" -> PlepInit(f, c)   [] f.type = "PPPL" -> PpplInit(f, c)
    [] f.type = "RAMP" -> RampInit(f, c)

RT(p, t, r) ==
  CASE p.type = "TABLE" -> TableRT(p, t) [] p.type = "PULSE" -> PulseRT(p, t)
    [] p.type = "TRIM" -> TrimRT(p, t)   [] p.type = "TEST" -> TestRT(p, t)
    [] p.type = "PLEP" -> PlepRT(p, t)   [] p.type = "PPPL" -> PpplRT(p, t)
    [] p.type = "RAMP" -> RampRT(p, t, r)

Init ==
  /\ armed = None /\ with = NoConverter /\ time = 0 /\ ref = 0 /\ status = "PRE" /\ limited = 0

Arm ==
  /\ armed = None
  /\ \E f \in Functions, c \in Converters :
       LET Take(x) == /\ x.ok
                      /\ armed' = x.pars /\ with' = c
                      /\ time' = x.pars.meta.start - 1
                      /\ ref' = x.pars.meta.initial
       IN Take(InitOf(f, c))
  /\ status' = "PRE" /\ limited' = 0

\* A ramp takes over in real time, at the rate of what it takes over from.
TakeOver ==
  /\ armed = None
  /\ \E f \in Functions, v \in { -4, 4 } :
       /\ f.type = "RAMP" /\ f.acceleration # 0 /\ f.deceleration # 0
       /\ armed' = LET r == RampCalc([f EXCEPT !.initialRate = v])
                   IN [r EXCEPT !.meta.end = f.start + r.time[2] + r.shift]
       /\ time' = f.start - 1 /\ ref' = f.initial
  /\ with' = NoConverter /\ status' = "PRE" /\ limited' = 0

Times == IF armed.type = "RAMP" THEN (time + 1) .. (time + Period)
         ELSE (armed.meta.start - 1) .. (armed.meta.end + 1)

Call ==
  /\ armed # None
  /\ \E t \in Times :
       /\ t <= MaxTime
       /\ LET Take(x) == armed' = x.pars /\ ref' = x.ref /\ status' = x.status
          IN Take(RT(armed, t, ref))
       /\ time' = t
  /\ UNCHANGED <<with, limited>>

\* The application clips or rate limits the reference the ramp returned.
Limit ==
  /\ armed.type = "RAMP" /\ limited < MaxLimited
  /\ ref # armed.prevRef
  /\ ref' \in { armed.prevRef, (armed.prevRef + ref) \div 2 }
  /\ limited' = limited + 1
  /\ UNCHANGED <<armed, with, time, status>>

Next == Arm \/ TakeOver \/ Call \/ Limit

Spec == Init /\ [][Next]_vars /\ WF_vars(Call)

-----------------------------------------------------------------------------
(***************************************************************************)
(* Properties.                                                              *)
(***************************************************************************)
Repeatable == armed.type \notin {"NONE", "RAMP"}

\* The function as it was armed, no call having moved its place in the segments.
Fresh(p) == CASE p.type = "TABLE" -> [p EXCEPT !.seg = 1, !.prevSeg = 1, !.grad = 0]
              [] p.type = "PPPL" -> [p EXCEPT !.seg = 1]
              [] OTHER -> p

\* The variables have their types.
TypeOK ==
  /\ armed.type \in {"NONE", "TABLE", "PULSE", "TRIM", "TEST", "PLEP", "PPPL", "RAMP"}
  /\ with \in Converters \cup {NoConverter}
  /\ time \in -10 .. MaxTime /\ ref \in Int /\ limited \in 0 .. MaxLimited
  /\ status \in {"PRE", "DURING", "POST"}
  /\ armed.type = "TABLE" => armed.seg \in 1 .. Len(armed.time)
  /\ armed.type = "PPPL" => armed.seg \in 1 .. Len(armed.segs)

\* What a function other than a ramp returns depends on the time only: calls
\* at other times before, forwards or back, leave no trace in the segment and
\* slope it remembers, and that segment is one of its own (fgTableRT, fgPpplRT).
HistoryFree ==
  /\ TypeOK
  /\ Repeatable /\ status # "PRE" => RT(Fresh(armed), time, 0).ref = ref

\* A function that was checked against limits, and starts within them, stays
\* within them at every time until its end, not only at the ends of segments that
\* are checked, whichever way up the limits are.  (The start of a PLEP or a PPPL
\* is not checked, it is where the reference is; fgTestInit does not
\* check a test function at all.)
Admits(r) == armed.meta.lo <= r /\ r <= armed.meta.hi
WithinLimits ==
  Repeatable /\ armed.type # "TEST" /\ with.given /\ time <= armed.meta.end =>
     (Admits(armed.meta.initial) => Admits(ref))

\* A ramp arrives: limited by its own rate, clipped, held for a while or turned
\* round from another function's rate, it ends at its final reference once the
\* application leaves it alone.
Arrived == status = "POST" /\ ref = armed.meta.final
RampArrives ==
  (<>(armed.type = "RAMP") /\ <>[][~Limit]_vars) => <>Arrived

=============================================================================
