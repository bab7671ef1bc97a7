---- MODULE MeasFilter ----
(***************************************************************************)
(* The measurement chain of libreg for one signal: an invalid input is     *)
(* replaced, then a two-stage box-car filter, the extrapolation that       *)
(* cancels its delay, and the estimate of the rate (regMeas.c and the part *)
(* of regMgrMeasSetRT that calls it). The background thread changes the    *)
(* filter with regMeasFilterInit, step by step, while the real-time thread *)
(* goes on; one iteration of the latter is atomic, as on one processor.    *)
(*                                                                         *)
(* Values are integers in units of 1/Scale, so that the divisions the runs *)
(* meet on a ramp are exact; the conversion to 32-bit integers is the      *)
(* identity at that scale, up to its clip. The input is a ramp that        *)
(* changes its slope now and then.                                         *)
(***************************************************************************)
EXTENDS FiniteSetsExt, Functions, Integers

CONSTANTS
    BufLen,      \* length of the buffer that the two stages and extrapolation share
    Lengths,     \* the lengths the two stages are set to
    Elens,       \* the lengths extrapolation_len_iters is set to
    MeasDelay,   \* meas_delay_iters
    Period,      \* reg_period_iters
    Steepest,    \* bound of the slope of the input, per iteration
    MaxMeas,     \* bound of the input
    MaxChanges,  \* bound: changes of slope
    MaxInits,    \* bound: calls of regMeasFilterInit
    MaxDuring    \* bound: iterations during one of them

ASSUME BufLenAssumption  == BufLen \in Nat \ {0}
ASSUME LengthsAssumption == Lengths \subseteq Nat \ {0} /\ Elens \subseteq Nat
ASSUME PeriodAssumption  == Period \in Nat \ {0} /\ MeasDelay \in Nat
ASSUME InputAssumption   ==
    {Steepest, MaxMeas, MaxChanges, MaxInits, MaxDuring} \subseteq Nat /\ MaxMeas > 0

Scale == 80

VARIABLES
    x, slope,      \* input.signal and how it changes
    u, filtered, extrapolated,   \* signal[]
    running,       \* is_running
    len, elen,     \* fir_length, extrapolation_len_iters
    fidx, eidx,    \* fir_index, extrapolation_index: never reset
    acc, buf,      \* fir_accumulator, the buffer
    rate,          \* REG_meas_rate: counter, history and estimate (times 10)
    bg,            \* where regMeasFilterInit is, calls still to make, iterations met
    changes, inits, steady   \* bounds; iterations with the same slope and filter

signals == <<u, filtered, extrapolated>>
filter  == <<running, len, elen, fidx, eidx, acc, buf>>
vars    == <<x, slope, signals, filter, rate, bg, changes, inits, steady>>

\* Iterations after which the filter, the extrapolation and the rate only
\* hold values of one ramp.
Enough == BufLen + 4 * Period

\* The input was measured before the filter is set up for the first time.
Init ==
    /\ x = Scale /\ slope = 0 /\ u = x /\ filtered = x /\ extrapolated = x
    /\ running = FALSE /\ len = <<0, 0>> /\ elen = 0 /\ fidx = <<0, 0>> /\ eidx = 0
    /\ acc = <<0, 0>> /\ buf = [i \in 0 .. BufLen - 1 |-> 0]
    /\ rate = [counter |-> 0, history |-> [i \in 0 .. 3 |-> 0], estimate |-> 0]
    /\ bg = [at |-> "idle", left |-> 0, met |-> 0] /\ changes = 0 /\ inits = 0 /\ steady = 0

----------------------------------------------------------------------------
(* regMeasFirFilterRT                                                      *)

Clip(v) == IF v > MaxMeas * Scale THEN MaxMeas * Scale
           ELSE IF v < -MaxMeas * Scale THEN -MaxMeas * Scale ELSE v

WrapLate(i, n) == IF i > n THEN 0 ELSE i
Wrap(i, n)     == IF i >= n THEN 0 ELSE i

\* Stage 1 is at the start of the buffer, stage 2 after it.
Stage1(v) ==
    [acc |-> acc[1] + v - buf[fidx[1]],
     buf |-> [buf EXCEPT ![fidx[1]] = v],
     idx |-> Wrap(fidx[1] + 1, len[1])]

Stage2(v, b) ==
    LET at == len[1] + fidx[2]
    IN  [acc |-> acc[2] + v - b[at],
         buf |-> [b EXCEPT ![at] = v],
         idx |-> Wrap(fidx[2] + 1, len[2])]

Fir(v) ==
    LET s1 == Stage1(Clip(v))
        s2 == Stage2(s1.acc \div len[1], s1.buf)
    IN  IF len[2] = 0
        THEN [acc |-> <<s1.acc, acc[2]>>, buf |-> s1.buf, fidx |-> <<s1.idx, fidx[2]>>,
              out |-> s1.acc \div len[1]]
        ELSE [acc |-> <<s1.acc, s2.acc>>, buf |-> s2.buf, fidx |-> <<s1.idx, s2.idx>>,
              out |-> s2.acc \div len[2]]

----------------------------------------------------------------------------
(* regMeasFilterInit, in the background                                    *)

Stop ==
    /\ bg.at = "idle" /\ inits < MaxInits /\ inits' = inits + 1
    /\ running' = FALSE /\ bg' = [at |-> "lengths", left |-> 0, met |-> 0] /\ steady' = 0
    /\ UNCHANGED <<x, slope, signals, len, elen, fidx, eidx, acc, buf, rate, changes>>

Fit(n, room) == Min({n, room})

FirstStage == len[1]
BothStages == len[1] + len[2]

\* Stages of length one are not used; the longest comes first; what does not
\* fit in the buffer is cut.
SetLengths ==
    /\ bg.at = "lengths"
    /\ \E a, b \in Lengths, e \in Elens :
        LET Used(n) == IF n = 1 THEN 0 ELSE n
            l1 == Max({Used(a), Used(b)})
            l2 == Min({Used(a), Used(b)})
            cut == Fit(e, BufLen)
            c1 == Fit(l1, BufLen - cut)
        IN  elen' = cut /\ len' = <<c1, Fit(l2, BufLen - cut - c1)>>
    /\ bg' = [bg EXCEPT !.at = IF len'[1] > 0 THEN "clear" ELSE "bypass"]
    /\ UNCHANGED <<x, slope, signals, running, fidx, eidx, acc, buf, rate, changes, inits, steady>>

Clear ==
    /\ bg.at = "clear" /\ acc' = <<0, 0>>
    /\ buf' = [i \in DOMAIN buf |-> IF i < len[1] + len[2] THEN 0 ELSE buf[i]]
    /\ bg' = [bg EXCEPT !.at = "fill", !.left = BothStages]
    /\ UNCHANGED <<x, slope, signals, running, len, elen, fidx, eidx, rate, changes, inits, steady>>

Fill ==
    /\ bg.at = "fill" /\ bg.left > 0
    /\ LET r == Fir(u)
       IN  acc' = r.acc /\ buf' = r.buf /\ fidx' = r.fidx /\ filtered' = r.out
    /\ bg' = [bg EXCEPT !.left = @ - 1]
    /\ UNCHANGED <<x, slope, u, extrapolated, running, len, elen, eidx, rate, changes, inits, steady>>

Bypass ==
    /\ bg.at = "bypass" /\ filtered' = u /\ bg' = [bg EXCEPT !.at = "fill"]
    /\ UNCHANGED <<x, slope, u, extrapolated, filter, rate, changes, inits, steady>>

\* The extrapolation buffer is filled and the filter restarted.
Restart ==
    /\ bg.at = "fill" /\ bg.left = 0
    /\ LET from == len[1] + len[2]
       IN  buf' = [i \in DOMAIN buf |-> IF i >= from /\ i < from + elen THEN filtered ELSE buf[i]]
    /\ extrapolated' = filtered /\ running' = TRUE /\ bg' = [at |-> "idle", left |-> 0, met |-> 0]
    /\ UNCHANGED <<x, slope, u, filtered, len, elen, fidx, eidx, acc, rate, changes, inits, steady>>

----------------------------------------------------------------------------
(* regMgrMeasSetRT, for one signal                                         *)

\* Twice the delay of the filtered measurement, in iterations.
Delay2OneStage == 2 * MeasDelay + (IF len[1] = 0 THEN 0 ELSE len[1] + len[2] - 1)
Delay2 == 2 * MeasDelay + (IF len[1] = 0 THEN 0 ELSE len[1] + len[2] - (IF len[2] > 0 THEN 2 ELSE 1))

\* regMeasFilterRT
FilterRT(v) ==
    IF ~running THEN /\ filtered' = v /\ extrapolated' = v /\ UNCHANGED filter
    ELSE LET r == IF len[1] > 0 THEN Fir(v) ELSE [acc |-> acc, buf |-> buf, fidx |-> fidx, out |-> v]
             at == len[1] + len[2] + eidx
         IN  /\ filtered' = r.out /\ acc' = r.acc /\ fidx' = r.fidx
             /\ IF elen = 0 THEN /\ extrapolated' = r.out /\ buf' = r.buf /\ eidx' = eidx
                ELSE /\ extrapolated' = r.out + (Delay2 * (r.out - r.buf[at])) \div (2 * elen)
                     /\ buf' = [r.buf EXCEPT ![at] = r.out]
                     /\ eidx' = Wrap(eidx + 1, elen)
             /\ UNCHANGED <<running, len, elen>>

\* regMeasRateRT; history[0] is the most recent sample.
Regression(h)    == 3 * (h[0] - h[3]) + (h[1] - h[2])

RateRT(f) ==
    IF rate.counter + 1 < Period THEN rate' = [rate EXCEPT !.counter = @ + 1]
    ELSE LET h == [i \in 0 .. 3 |-> IF i = 0 THEN f ELSE rate.history[i - 1]]
         IN  rate' = [counter |-> 0, history |-> h, estimate |-> Regression(h)]

Unfiltered(valid, signal) == IF valid THEN signal ELSE u + rate.estimate \div (10 * Period)

MeasSetRT ==
    \E s \in -Steepest .. Steepest, valid \in BOOLEAN :
        /\ s = slope \/ (changes < MaxChanges /\ steady \in {0, Enough})
        /\ slope' = s /\ changes' = IF s = slope THEN changes ELSE changes + 1
        /\ x + s * Scale \in 0 .. MaxMeas * Scale /\ x' = x + s * Scale
        /\ valid \/ (steady = Enough /\ s = slope)
        /\ u' = Unfiltered(valid, x')
        /\ FilterRT(u') /\ RateRT(filtered')
        /\ steady' = IF s # slope \/ ~running THEN 0 ELSE Min({steady + 1, Enough})
        /\ IF bg.at = "idle" THEN bg' = bg
           ELSE bg.met < MaxDuring /\ bg' = [bg EXCEPT !.met = @ + 1]
        /\ inits' = inits

Next == Stop \/ SetLengths \/ Clear \/ Fill \/ Bypass \/ Restart \/ MeasSetRT

Spec == Init /\ [][Next]_vars

----------------------------------------------------------------------------
(* Properties                                                              *)

\* Types, and while the filter runs its indexes are inside their parts of the buffer.
TypeOK ==
    /\ {u, filtered, extrapolated, x} \subseteq Int /\ running \in BOOLEAN
    /\ len[1] + len[2] + elen <= BufLen /\ rate.counter \in 0 .. Period - 1
    /\ running => /\ \A k \in {1, 2} : len[k] > 0 => fidx[k] \in 0 .. len[k] - 1
                  /\ elen > 0 => eidx \in 0 .. elen - 1

\* Each accumulator is the sum of its window, however often the filter was
\* set up again: it is only ever updated by differences, so that an error
\* would stay for ever, and each index within its stage.
WindowSum ==
    /\ TypeOK
    /\ running /\ len[1] > 0 =>
        /\ acc[1] = SumFunctionOnSet(buf, 0 .. len[1] - 1)
        /\ len[2] > 0 => acc[2] = SumFunctionOnSet(buf, len[1] .. len[1] + len[2] - 1)

\* "Initialise FIR filter stages to the value in signal[REG_MEAS_UNFILTERED]"
\* (regMeas.c:154): while the input never changes, nor does the filter's output.
StartsAtInput == running /\ changes = 0 => filtered = u

\* On a ramp, the extrapolation cancels the delay of the measurement and of the filter.
RampExtrapolated ==
    steady = Enough /\ elen > 0 => extrapolated = x + MeasDelay * slope * Scale

====
