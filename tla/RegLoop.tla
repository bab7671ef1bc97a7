---- MODULE RegLoop ----
(***************************************************************************)
(* The real-time loop of libreg/src/regMgr.c over the RST histories and    *)
(* iteration counters of the regulated signals: regMgrMeasSetRT,           *)
(* regMgrRegulateRT and regMgrModeSetRT as a client calls them, once each  *)
(* an iteration, after regMgrSimInit.                                      *)
(*                                                                         *)
(* A history slot is represented by where its value comes from: "own", it  *)
(* was written for the period it stands for; "init", start-up gave it the  *)
(* value it would have had; "old", it is left over from a turn of the ring *)
(* buffer ago, or was never set. Slot 0 is the one at history_index, slot  *)
(* k the one k regulation periods before it.                               *)
(*                                                                         *)
(* PC ACTUATION is VOLTAGE_REF or FIRING_REF. The exchange of parameters   *)
(* is RstExchange's subject and the parameters of a signal stay the same.  *)
(***************************************************************************)
EXTENDS Naturals

CONSTANTS
    Enabled,        \* the signals whose regulation is REG_ENABLED, of {"i", "b"}
    Period,         \* Period[g]: reg_period_iters
    Order,          \* Order[g]: rst_order
    RefDelay,       \* RefDelay[g]: ref_delay_periods * reg_period_iters, in iterations
    ErrUnfiltered,  \* ErrUnfiltered[g]: what ModeSet gives is_delayed_ref_available
    H,              \* REG_RST_HISTORY_MASK + 1, 16 in the code
    Wrap,           \* iterations in the 12 s the synchronisation is modulo of
    Clients,        \* <<mode given to regMgrSimInit, whether real time is passed>>
    EveryIteration  \* regMgrRegulateRT is called every iteration (cctest), or
                    \* only when regMgrMeasSetRT returned 0 (ccrt)

Modes == {"NONE", "VOLTAGE"} \cup Enabled

ASSUME SignalsAssumption == Enabled \subseteq {"i", "b"}
ASSUME PeriodAssumption  == Period \in [Enabled -> Nat \ {0}] /\ Wrap \in Nat \ {0}
ASSUME HistoryAssumption == H \in Nat /\ H > 2 /\ Order \in [Enabled -> 0 .. H - 1]
ASSUME DelayAssumption   == RefDelay \in [Enabled -> Nat] /\ ErrUnfiltered \in [Enabled -> BOOLEAN]
ASSUME ClientAssumption  == Clients \subseteq Modes \X BOOLEAN /\ EveryIteration \in BOOLEAN

Age   == 0 .. H - 1
Marks == {"own", "init", "old"}

VARIABLES
    mode,        \* reg_mode
    clock,       \* whether the client passes the time, or always 0
    now,         \* the time passed; without it the iterations since the mode was NONE
    counter,     \* counter[g]: iteration_counter
    act, ref,    \* act[g], ref[g]: rst_vars.act and rst_vars.ref
    refDelayed,  \* refDelayed[g]: ref_delayed is "reset", "fresh" or interpolated from "stale" slots
    avail,       \* avail[g]: is_delayed_ref_available
    source,      \* source[g]: what meas.signal[REG_MEAS_UNFILTERED] was set from
    returned,    \* what regMgrMeasSetRT returned
    tripped,     \* is_pc_tripped
    pc           \* "start", "meas", "regulate", "mode" or "check"

hist == <<act, ref>>
vars == <<mode, clock, now, counter, hist, refDelayed, avail, source, returned, tripped, pc>>

----------------------------------------------------------------------------
(* The histories                                                           *)

All(mark) == [k \in Age |-> mark]

\* regRstIncHistoryIndexRT: the oldest slot becomes the newest. In a buffer
\* that was filled with one value it still has the value it should.
Push(h) == [k \in Age |-> IF k > 0 THEN h[k - 1]
                          ELSE IF h[H - 1] = "init" THEN "init" ELSE "old"]

WriteNewest(h) == [h EXCEPT ![0] = "own"]

\* MUTANT: only the newest reference is calculated.
InitRefNewest(h, g) == WriteNewest(h)

\* regRstInitRefRT: the references of the last rst_order + 1 periods are
\* calculated from the measurements.
InitRef(h, g) == [k \in Age |-> IF k <= Order[g] THEN "own" ELSE h[k]]

\* The slots regRstDelayedRefRT reads, c iterations into the period.
DelayedSlots(g, c) ==
    IF RefDelay[g] <= c THEN {0}
    ELSE LET delay == RefDelay[g] - c
             d     == delay \div Period[g]
         IN IF d >= H - 2 THEN {H - 1}
            ELSE IF delay % Period[g] = 0 THEN {d} ELSE {d, d + 1}

DelayedRef(h, g, c) ==
    IF \A k \in DelayedSlots(g, c) : h[k] # "old" THEN "fresh" ELSE "stale"

----------------------------------------------------------------------------
(* regMgrModeSetRT                                                         *)

\* The signal whose variables regMgrResetRegSignalRT clears on a change to mode m
ResetSignal(m) == mode

ModeSetRT(m) ==
    IF m = mode THEN UNCHANGED <<mode, act, ref, refDelayed, avail>>
    ELSE
        /\ mode' = m
        /\ ref' = [g \in Enabled |-> IF g = m THEN InitRef(ref[g], g) ELSE ref[g]]
        /\ avail' = [g \in Enabled |->
              IF g = m THEN ErrUnfiltered[g] ELSE avail[g] /\ g # ResetSignal(m)]
        /\ refDelayed' = [g \in Enabled |->
              IF g = m THEN DelayedRef(ref'[g], g, counter[g])
              ELSE IF g = ResetSignal(m) THEN "reset" ELSE refDelayed[g]]
        /\ UNCHANGED act

(***************************************************************************)
(* regMgrSimInit has initialised the histories of one signal, that of the  *)
(* mode or else the current, and set the mode. With REG_NONE everything,   *)
(* the other signal's histories too, is zero, as it should be. With        *)
(* REG_VOLTAGE the references of the current were set to a voltage.        *)
(***************************************************************************)
StartRef(m, g) == IF m = "NONE" \/ g = m THEN All("init") ELSE All("old")
StartAct(m, g) ==
    IF m = "NONE" \/ g = m \/ (m = "VOLTAGE" /\ g = "i") THEN All("init") ELSE All("old")

Init ==
    \E client \in Clients :
        /\ mode = client[1]
        /\ clock = client[2]
        /\ now \in IF clock THEN 0 .. Wrap - 1 ELSE {0}
        /\ counter = [g \in Enabled |-> 0]
        /\ act = [g \in Enabled |-> StartAct(mode, g)]
        /\ ref = [g \in Enabled |->
                    IF g = mode THEN InitRef(StartRef(mode, g), g) ELSE StartRef(mode, g)]
        /\ refDelayed = [g \in Enabled |-> IF g = mode THEN "fresh" ELSE "reset"]
        /\ avail = [g \in Enabled |-> g = mode /\ ErrUnfiltered[g]]
        /\ source = [g \in Enabled |-> "input"]
        /\ returned = 0 /\ tripped = FALSE
        /\ pc = IF EveryIteration THEN "start" ELSE "meas"

----------------------------------------------------------------------------
(* regMgrMeasSetRT                                                         *)

\* MUTANT: the counter runs freely in every mode.
CountedFree(g) == counter[g] + 1

\* regMgrSignalPrepareRT: the counter is set from the time in mode NONE
Counted(g) == IF mode = "NONE" THEN now' % Period[g] ELSE counter[g] + 1

Wrapped(g) == IF Counted(g) >= Period[g] THEN 0 ELSE Counted(g)

\* MUTANT: the delayed reference is taken after the counter was wrapped.
DelayCountWrapped(g) == Wrapped(g)

\* The delayed reference is taken before the counter is wrapped, while
\* history_index is that of the period that ends.
DelayCount(g) == Counted(g)

\* The measurements of the signals in invalid are invalid.
MeasSetRT(invalid) ==
    /\ pc \in {"start", "meas"}
    /\ pc = "start" => invalid = {}
    /\ now' = IF mode = "NONE" /\ ~clock THEN 0 ELSE (now + 1) % Wrap
    /\ refDelayed' = [g \in Enabled |->
          IF g = mode THEN DelayedRef(ref[g], g, DelayCount(g)) ELSE refDelayed[g]]
    /\ counter' = [g \in Enabled |-> Wrapped(g)]
    /\ returned' = IF mode \in Enabled THEN Wrapped(mode) ELSE 0
    /\ source' = [g \in Enabled |->
          IF g \notin invalid THEN "input" ELSE IF avail[g] THEN "delayed" ELSE "rate"]
    /\ act' = [g \in Enabled |-> IF Wrapped(g) = 0 THEN Push(act[g]) ELSE act[g]]
    /\ ref' = [g \in Enabled |-> IF Wrapped(g) = 0 THEN Push(ref[g]) ELSE ref[g]]
    /\ pc' = IF pc = "start" THEN "meas" ELSE "regulate"
    /\ UNCHANGED <<mode, clock, avail, tripped>>

----------------------------------------------------------------------------
(* regMgrRegulateRT                                                        *)

\* MUTANT: only the actuation history of the regulated signal is kept.
KeepsActOwn(g) == g = mode

\* Whether the actuation of the period is stored in the history of signal g:
\* by the RST calculation, or as the voltage reference of another mode.
KeepsAct(g) == mode # "NONE"

RegulateRT ==
    /\ act' = [g \in Enabled |->
          IF KeepsAct(g) /\ counter[g] = 0 THEN WriteNewest(act[g]) ELSE act[g]]
    /\ ref' = [g \in Enabled |->
          IF g = mode /\ counter[g] = 0 THEN WriteNewest(ref[g]) ELSE ref[g]]

\* The client's call of regMgrRegulateRT. A tripped converter is in mode NONE,
\* in which it does nothing.
Regulate ==
    /\ pc = "regulate"
    /\ IF EveryIteration \/ returned = 0 THEN RegulateRT ELSE UNCHANGED hist
    /\ pc' = "mode"
    /\ UNCHANGED <<mode, clock, now, counter, refDelayed, avail, source, returned, tripped>>

----------------------------------------------------------------------------
(* The client                                                              *)

\* A function ends and the next one, or the user, asks for mode m (cctest at
\* the start of a regulation period only), or the mode stays.
StartFunction(m) ==
    /\ pc = "mode"
    /\ m = mode \/ (~tripped /\ m # "NONE" /\ (returned = 0 \/ ~EveryIteration))
    /\ ModeSetRT(m)
    /\ pc' = "check"
    /\ UNCHANGED <<clock, now, counter, source, returned, tripped>>

\* The simulation of the converter, and cctest's trip on a fault
Check ==
    /\ pc = "check"
    /\ \/ /\ ModeSetRT(mode)
          /\ UNCHANGED tripped
       \/ /\ EveryIteration /\ ~tripped
          /\ ModeSetRT("NONE")
          /\ tripped' = TRUE
    /\ pc' = "meas"
    /\ UNCHANGED <<clock, now, counter, source, returned>>

Next ==
    \/ \E invalid \in SUBSET Enabled : MeasSetRT(invalid)
    \/ Regulate
    \/ \E m \in Modes : StartFunction(m)
    \/ Check

Spec == Init /\ [][Next]_vars

----------------------------------------------------------------------------
(* Properties                                                              *)

\* The counters stay below their periods, whatever the mode and its changes.
TypeOK ==
    /\ mode \in Modes /\ clock \in BOOLEAN /\ now \in 0 .. Wrap - 1
    /\ counter \in [Enabled -> Nat] /\ \A g \in Enabled : counter[g] < Period[g]
    /\ act \in [Enabled -> [Age -> Marks]] /\ ref \in [Enabled -> [Age -> Marks]]
    /\ refDelayed \in [Enabled -> {"reset", "fresh", "stale"}]
    /\ avail \in [Enabled -> BOOLEAN]
    /\ source \in [Enabled -> {"input", "delayed", "rate"}]
    /\ returned \in Nat /\ tripped \in BOOLEAN
    /\ pc \in {"start", "meas", "regulate", "mode", "check"}

\* The actuation histories of all the signals have no hole while a mode is on,
\* whatever mode it is: a change of mode starts from what was really applied
\* (regRstInitRefRT and regRstCalcActRT read act), however the periods of the
\* two signals interleave.
HistoryUnbroken ==
    pc = "mode" /\ mode # "NONE" =>
        \A g \in Enabled, k \in Age : act[g][k] # "old" => \A j \in 0 .. k : act[g][j] # "old"

\* The references regRstCalcActRT reads for a new actuation were calculated
\* for their own periods, from the first period after a change of mode on.
RefFresh ==
    pc = "regulate" /\ mode \in Enabled /\ returned = 0 =>
        \A k \in 1 .. Order[mode] : k < H => ref[mode][k] # "old"

\* The delayed reference the regulation error is measured against is one of
\* the references that were asked for since the mode was set, or that
\* regRstInitRefRT derived for the periods before; and an invalid measurement is
\* replaced by it only for the regulated signal, whose delayed reference is kept
\* up to date, and by an extrapolation otherwise.
DelayedRefFresh ==
    pc = "regulate" =>
        /\ mode \in Enabled => refDelayed[mode] # "stale"
        /\ \A g \in Enabled : source[g] = "delayed" => mode = g /\ refDelayed[g] = "fresh"

\* The counters keep in step with the time when a mode is on and they are no
\* longer set from it, if the periods divide into 12 s: systems that left NONE
\* at different times regulate at the same ones, and so do the two signals.
InStep ==
    /\ TypeOK
    /\ pc # "start" => \A g \in Enabled : counter[g] = now % Period[g]

====
