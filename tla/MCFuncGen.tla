----------------------------- MODULE MCFuncGen -----------------------------
(***************************************************************************)
(* FuncGen with functions of every type, up and down, within the limits and  *)
(* beyond them, and with parameters that are refused.  References are in     *)
(* steps that make the quotients of the code whole.                          *)
(***************************************************************************)
EXTENDS FuncGen

Limits(pos, min, neg, rate, acceleration) ==
  [pos |-> pos, min |-> min, neg |-> neg, rate |-> rate, acceleration |-> acceleration]

Converter(given, lim, auto, neg) == [given |-> given, lim |-> lim, auto |-> auto, neg |-> neg]

MCConverters ==
  { Converter(FALSE, Limits(0, 0, 0, 0, 0), FALSE, FALSE),
    Converter(TRUE, Limits(32, 0, -32, 12, 12), FALSE, FALSE),
    Converter(TRUE, Limits(32, 2, 0, 4, 2), TRUE, FALSE),
    Converter(TRUE, Limits(16, 0, 0, 6, 2), FALSE, TRUE),
    Converter(TRUE, Limits(16, 0, -16, 4, 1), TRUE, TRUE) }

Tables ==
  { [type |-> "TABLE", ref |-> r, time |-> t, step |-> 1] :
      r \in { <<0, 12, 0, 12>>, <<-6, -12, 12, 6>>, <<12>>, <<24, 12, 12, 2>> },
      t \in { <<0, 1, 3, 6>>, <<1, 4, 5, 7>>, <<0, 2, 2, 3>> } }

Pulses ==
  { [type |-> "PULSE", initial |-> i, acceleration |-> a, rate |-> v, duration |-> 3] :
      i \in {0, 8, -8}, a \in {0, 2}, v \in {0, 4, -4} }

Trims ==
  { [type |-> "TRIM", cubic |-> k, initial |-> i, final |-> i + d, duration |-> n] :
      k \in BOOLEAN, i \in {-16, 0}, d \in {32}, n \in {0, 4} }
  \cup { [type |-> "TRIM", cubic |-> TRUE, initial |-> 16, final |-> -16, duration |-> 4] }

Tests ==
  { [type |-> "TEST", shape |-> s, initial |-> i, amplitude |-> 24, cycles |-> n,
     period |-> 4, window |-> w] :
      s \in {"STEPS", "SQUARE", "SINE", "COSINE"}, i \in {0, 4}, n \in {0, 2}, w \in BOOLEAN }

Pleps ==
  { [type |-> "PLEP", initial |-> x[1], final |-> x[2], finalRate |-> x[3],
     acceleration |-> x[4], rate |-> x[5]] :
      x \in { <<8, 0, 0, 2, 8>>, <<8, 0, 0, 2, 2>>, <<0, 8, 0, 2, 2>>, <<-8, 0, 0, 2, 8>>,
              <<17, 0, -2, 2, 4>>, <<7, 0, 2, 2, 2>>, <<8, 0, 0, 0, 2>>, <<24, 0, 0, 2, 4>> } }

Section(a1, a2, a3, rate2, rate4, ref4, duration) ==
  [a1 |-> a1, a2 |-> a2, a3 |-> a3, rate2 |-> rate2, rate4 |-> rate4, ref4 |-> ref4,
   duration |-> duration]

Pppls ==
  { [type |-> "PPPL", initial |-> 0, sections |-> s] :
      s \in { << >>,
              << Section(2, 0, -2, 4, 0, 12, 2) >>,
              << Section(2, 0, -2, 4, 0, 2, 1) >>,
              << Section(2, 0, -2, 4, 0, 12, 2), Section(-2, 0, 2, -4, 0, 0, 1) >>,
              << Section(2, 0, -2, 4, 0, 12, 2), Section(2, 0, -2, 0, 0, 12, 2) >>,
              << Section(-2, 0, 2, -4, 0, -12, 1), Section(2, 0, -2, 2, 2, -5, 1) >> } }

Ramps ==
  { [type |-> "RAMP", start |-> 0, initial |-> 0, final |-> x[1], acceleration |-> x[2],
     rate |-> x[3], deceleration |-> x[4], initialRate |-> 0] :
      x \in { <<18, 2, 0, 2>>, <<18, 2, 3, 2>>, <<-18, 2, 4, 2>>, <<32, 2, 2, 2>>, <<8, 2, 0, 0>> } }

MCFunctions == Tables \cup Pulses \cup Trims \cup Tests \cup Pleps \cup Pppls \cup Ramps
=============================================================================
