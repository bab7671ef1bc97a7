---- MODULE PcRun ----
(***************************************************************************)
(* ccrt's threads around libreg: the command thread, from the start-up in  *)
(* main (ccrt.c) to the parameters an operator sets; and the real-time     *)
(* thread, ccRun (ccRun.c) with the simulated converter and polarity       *)
(* switch (ccSim.c). They share ccpars_* without locks: every read of a    *)
(* shared parameter that another thread may change in between is a step.   *)
(*                                                                         *)
(* Faults of one kind are one: "meas" stands for those regMgrMeasSetRT     *)
(* evaluates every iteration (trips, RMS, invalid measurements, voltage    *)
(* error), "i_reg_err" for the regulation error of current or field, which *)
(* only regMgrRegulateRT evaluates. Time is counted in iterations.         *)
(***************************************************************************)
EXTENDS Integers, Sequences

CONSTANTS
    OnIters,     \* iterations in the 1.5 s of ccSimPcState
    FaultIters,  \* iterations in the 5 s of ccSimPolSwitch
    Timeouts,    \* values given to POLSWITCH TIMEOUT; 0 is no switch
    SimDelays,   \* values of POLSWITCH SIM_DELAY, read from the configuration
    Commands,    \* values given to POLSWITCH COMMAND
    RegLines     \* numbers of lines of configuration that set a parameter of libreg

ASSUME TimesAssumption == /\ OnIters \in Nat /\ FaultIters \in Nat
                          /\ Timeouts \subseteq Nat /\ SimDelays \subseteq Nat
ASSUME CommandsAssumption == Commands \subseteq {"AUTOMATIC", "POSITIVE", "NEGATIVE"}
ASSUME LinesAssumption == RegLines \subseteq Nat

PcStates  == {"OFF", "ON", "FAULT"}
Modes     == {"NONE", "VOLTAGE", "CURRENT"}
Polarity  == {"POSITIVE", "NEGATIVE"}
Faults    == <<"meas", "i_reg_err", "polswitch">>
FaultSet  == {Faults[n] : n \in 1 .. Len(Faults)}

VARIABLES
    main,      \* the command thread: "config", "simInit" or "commands"
    waiting,   \* it is in regMgrPars, before the structures it sets up
    lines,     \* lines of configuration still to be read
    pending,   \* RST parameters published and not yet accepted (is_next_ready)
    request,   \* ccpars_pc.state
    refMode,   \* ccpars_ref[0].reg_mode
    switch,    \* ccpars_polswitch: [command, timeout, simDelay]
    errLimit,  \* LIMITS I_ERR_FAULT is not zero
    rt,        \* the real-time thread: "meas" .. "mode", as in ccRun
    latching,  \* the next of Faults to be latched
    regFlags,  \* libreg's fault flags that are up
    latched,   \* ccpars_faults
    sum,       \* sum_of_faults, then ccrun.fault
    mode,      \* reg_mgr.reg_mode
    state,     \* ccpars_state.pc
    onTimer,   \* ccsim.pcstate.timer
    pol,       \* ccpars_state.polswitch
    target,    \* ccsim.polswitch.target_state
    polTimer,  \* ccsim.polswitch.timer
    acked      \* OFF was requested since the last iteration with a fault

cmdVars == <<main, waiting, lines, request, refMode, switch, errLimit>>
polVars == <<pol, target, polTimer>>
pcVars  == <<state, onTimer>>
vars    == <<cmdVars, pending, rt, latching, regFlags, latched, sum, mode, pcVars, polVars, acked>>

Init ==
    /\ main = "config" /\ waiting = FALSE /\ lines \in RegLines /\ pending = FALSE
    /\ request = "OFF" /\ refMode = "VOLTAGE" /\ errLimit = TRUE
    /\ switch \in [command : Commands, timeout : Timeouts, simDelay : SimDelays]
    /\ rt = "meas" /\ latching = 1 /\ regFlags = {} /\ latched = {} /\ sum = FALSE
    /\ mode = "NONE" /\ state = "OFF" /\ onTimer = 0
    /\ pol = "NONE" /\ target = "NONE" /\ polTimer = 0
    /\ acked = TRUE

----------------------------------------------------------------------------
(* The command thread                                                      *)

rtVars == <<rt, latching, latched, sum, mode, pcVars, polVars>>

\* ccFileReadAll runs ccCmdsPar on each line; the real-time thread does not
\* exist yet. Any line that sets a parameter of libreg calls regMgrPars. While
\* reg_mode is NONE its scan copies two elements of PERIOD_ITERS, the second
\* over the copy of PURE_DELAY, which the next step of the scan repairs: the
\* groups of both are set up on every call, whatever the line is about.
ReadConfig ==
    /\ main = "config" /\ ~waiting /\ lines > 0
    /\ waiting' = TRUE
    /\ UNCHANGED <<main, lines, request, refMode, switch, errLimit, pending, regFlags, acked, rtVars>>

\* Once the previous RST parameters are accepted new ones are set up, and
\* published unless regRstInit rejects them.
RegMgrPars ==
    /\ waiting /\ ~pending
    /\ waiting' = FALSE /\ pending' \in BOOLEAN
    /\ lines' = IF main = "config" THEN lines - 1 ELSE lines
    /\ UNCHANGED <<main, request, refMode, switch, errLimit, regFlags, acked, rtVars>>

\* StartRtThread, after which ccRun is called every period. main goes on with
\* regMgrSimInit, which sets every parameter of libreg up again: the flags of the
\* limits, which are still down, before it waits.
StartRtThread ==
    /\ main = "config" /\ ~waiting /\ lines = 0
    /\ main' = "simInit" /\ waiting' = TRUE
    /\ UNCHANGED <<lines, request, refMode, switch, errLimit, pending, regFlags, acked, rtVars>>

\* The rest of regMgrSimInit: the command thread itself accepts what it has
\* published, so nothing is pending when it publishes again, and accepts that for
\* the current but not for the field.
SimInit ==
    /\ main = "simInit" /\ ~waiting
    /\ main' = "commands" /\ mode' = "NONE"
    /\ pending' \in BOOLEAN
    /\ UNCHANGED <<waiting, lines, request, refMode, switch, errLimit, regFlags,
                   rt, latching, latched, sum, pcVars, polVars, acked>>

Command(what) ==
    /\ main = "commands" /\ ~waiting /\ what
    /\ UNCHANGED <<main, lines, pending, rtVars>>

\* PC STATE; FAULT is a read-only symbol.
SetState ==
    \E s \in {"OFF", "ON"} :
        Command(/\ request' = s /\ acked' = (acked \/ s = "OFF")
                /\ UNCHANGED <<waiting, refMode, switch, errLimit, regFlags>>)

\* REF REG_MODE; NONE is a read-only symbol.
SetRegMode ==
    \E m \in Modes \ {"NONE"} :
        Command(refMode' = m /\ UNCHANGED <<waiting, request, switch, errLimit, regFlags, acked>>)

\* POLSWITCH COMMAND and TIMEOUT.
SetPolSwitch ==
    \E c \in Commands, t \in Timeouts :
        Command(/\ switch' \in {[switch EXCEPT !.command = c], [switch EXCEPT !.timeout = t]}
                /\ UNCHANGED <<waiting, request, refMode, errLimit, regFlags, acked>>)

\* LIMITS I_ERR_FAULT; in regMgrPars regErrInitLimits clears the flag of a fault
\* that is disabled, before the RST parameters are set up if reg_mode is NONE.
SetErrLimit ==
    \E enabled \in BOOLEAN :
        Command(/\ errLimit' = enabled /\ waiting' = (mode = "NONE")
                /\ regFlags' = IF enabled THEN regFlags ELSE regFlags \ {"i_reg_err"}
                /\ UNCHANGED <<request, refMode, switch, acked>>)

----------------------------------------------------------------------------
(* The real-time thread                                                    *)

RtAfterSimInit(at) == main = "commands" /\ rt = at /\ UNCHANGED cmdVars

\* A step of ccRun: it is called from StartRtThread on, during regMgrSimInit too.
Rt(at) == main # "config" /\ rt = at /\ UNCHANGED cmdVars

\* An evaluation of the limits behind flag f: it may go up or down.
Evaluated(f, fs) == {fs \ {f}, fs \cup {f}}

\* regMgrMeasSetRT: accepts RST parameters and checks the measurements.
MeasSetRT ==
    /\ Rt("meas")
    /\ pending' = FALSE
    /\ regFlags' \in Evaluated("meas", regFlags)
    /\ rt' = "regulate"
    /\ UNCHANGED <<latching, latched, sum, mode, pcVars, polVars, acked>>

\* regMgrRegulateRT on regulation iterations with the converter on.
RegulateRT ==
    /\ Rt("regulate")
    /\ regFlags' \in IF state = "ON" /\ mode = "CURRENT" /\ errLimit
                  THEN Evaluated("i_reg_err", regFlags) ELSE {regFlags}
    /\ rt' = "latch" /\ latching' = 1 /\ sum' = FALSE
    /\ UNCHANGED <<pending, latched, mode, pcVars, polVars, acked>>

Up(f) == IF f = "polswitch" THEN pol = "FAULT" ELSE f \in regFlags

FaultHeldByState(f) == Up(f) \/ (state = "ON" /\ f \in latched)
FaultHeldForEver(f) == Up(f) \/ f \in latched

FaultHeld(f) == Up(f) \/ (request = "ON" /\ f \in latched)

\* ccRunFaultLatch for one fault of ccRunFaultsAndWarnings.
FaultLatch ==
    LET f == Faults[latching]
        held == FaultHeld(f)
    IN  /\ Rt("latch")
        /\ latched' = IF held THEN latched \cup {f} ELSE latched \ {f}
        /\ sum' = (sum \/ held)
        /\ IF latching < Len(Faults)
           THEN latching' = latching + 1 /\ UNCHANGED rt
           ELSE rt' = "pc" /\ UNCHANGED latching
        /\ UNCHANGED <<pending, regFlags, mode, pcVars, polVars, acked>>

\* ccSimPcState up to the assignment of the requested state.
PcState ==
    /\ Rt("pc")
    /\ IF sum
       THEN /\ state' = "FAULT" /\ rt' = "polswitch" /\ acked' = (request = "OFF")
            /\ UNCHANGED onTimer
       ELSE /\ IF request = state
               THEN rt' = "polswitch" /\ UNCHANGED onTimer
               ELSE /\ onTimer' = onTimer + 1
                    /\ rt' = IF request = "OFF" \/ onTimer' > OnIters THEN "switch" ELSE "polswitch"
            /\ UNCHANGED <<state, acked>>
    /\ UNCHANGED <<pending, latching, regFlags, latched, sum, mode, polVars>>

PcSwitchKeepingTimer ==
    /\ Rt("switch")
    /\ state' = request /\ rt' = "polswitch"
    /\ UNCHANGED <<onTimer, pending, latching, regFlags, latched, sum, mode, polVars, acked>>

\* The assignment reads the request again.
PcSwitch ==
    /\ Rt("switch")
    /\ state' = request /\ onTimer' = 0 /\ rt' = "polswitch"
    /\ UNCHANGED <<pending, latching, regFlags, latched, sum, mode, polVars, acked>>

\* A switch at rest at p: it goes away, starts to move, or stays.
Rest(p, other) ==
    /\ pol = p
    /\ IF switch.timeout = 0 THEN pol' = "NONE" /\ UNCHANGED target
       ELSE IF mode = "NONE" /\ (switch.command = other \/ target = other)
       THEN pol' = "MOVING" /\ target' = other
       ELSE UNCHANGED <<pol, target>>
    /\ UNCHANGED polTimer

NoSwitch ==
    /\ pol = "NONE"
    /\ polTimer' = 0
    /\ IF mode = "NONE" /\ switch.timeout > 0
       THEN LET p == IF switch.command = "NEGATIVE" THEN "NEGATIVE" ELSE "POSITIVE"
            IN  pol' = p /\ target' = p
       ELSE UNCHANGED <<pol, target>>

Moving ==
    LET t == polTimer + 1
    IN  /\ pol = "MOVING"
        /\ pol' = IF t > switch.timeout THEN "FAULT"
                  ELSE IF t > switch.simDelay THEN target ELSE "MOVING"
        /\ polTimer' = IF t > switch.timeout \/ t > switch.simDelay THEN 0 ELSE t
        /\ UNCHANGED target

ShowFault ==
    /\ pol = "FAULT"
    /\ polTimer' = polTimer + 1
    /\ pol' = IF polTimer' > FaultIters THEN "NONE" ELSE pol
    /\ UNCHANGED target

\* ccSimPolSwitch.
PolSwitch ==
    /\ Rt("polswitch")
    /\ \/ NoSwitch
       \/ Rest("POSITIVE", "NEGATIVE")
       \/ Rest("NEGATIVE", "POSITIVE")
       \/ Moving
       \/ ShowFault
    /\ rt' = "mode"
    /\ UNCHANGED <<pending, latching, regFlags, latched, sum, mode, pcVars, acked>>

\* The end of ccRun; regMgrModeSetRT resets the error of a mode it leaves.
ModeSetRT ==
    /\ Rt("mode")
    /\ IF state = "ON"
       THEN /\ mode' = refMode
            /\ regFlags' = IF mode = "CURRENT" /\ refMode # mode THEN regFlags \ {"i_reg_err"} ELSE regFlags
       ELSE UNCHANGED <<mode, regFlags>>
    /\ rt' = "meas"
    /\ UNCHANGED <<pending, latching, latched, sum, pcVars, polVars, acked>>

CommandThread == ReadConfig \/ RegMgrPars \/ StartRtThread \/ SimInit
RtNext == MeasSetRT \/ RegulateRT \/ FaultLatch \/ PcState \/ PcSwitch \/ PolSwitch \/ ModeSetRT
Operator == SetState \/ SetRegMode \/ SetPolSwitch \/ SetErrLimit

Next == CommandThread \/ Operator \/ RtNext

\* The timer calls ccRun for ever and main goes on whenever it can; nobody
\* has to give a command.
Spec == Init /\ [][Next]_vars /\ WF_vars(RtNext) /\ WF_vars(CommandThread)

----------------------------------------------------------------------------
(* Properties                                                              *)

\* How far the timer of the switch may have come: it is bounded by the delay read
\* from the configuration while the switch moves, though the timeout may be changed
\* meanwhile, and does not run in a position at rest.
PolLimit == CASE pol \in Polarity -> 0 [] pol = "MOVING" -> switch.simDelay
              [] pol = "FAULT" -> FaultIters [] pol = "NONE" -> FaultIters + 1

\* Types; and timers stay within the delays they are compared with.
TypeOK ==
    /\ main \in {"config", "simInit", "commands"} /\ waiting \in BOOLEAN /\ lines \in Nat /\ pending \in BOOLEAN
    /\ request \in {"OFF", "ON"} /\ refMode \in Modes \ {"NONE"} /\ errLimit \in BOOLEAN
    /\ switch \in [command : Commands, timeout : Timeouts, simDelay : SimDelays]
    /\ rt \in {"meas", "regulate", "latch", "pc", "switch", "polswitch", "mode"}
    /\ latching \in 1 .. Len(Faults) /\ regFlags \subseteq FaultSet /\ latched \subseteq FaultSet
    /\ sum \in BOOLEAN /\ mode \in Modes /\ state \in PcStates /\ acked \in BOOLEAN
    /\ pol \in Polarity \cup {"NONE", "MOVING", "FAULT"} /\ target \in Polarity \cup {"NONE"}
    /\ onTimer \in 0 .. IF rt = "switch" THEN OnIters + 1 ELSE OnIters
    /\ polTimer \in 0 .. PolLimit

\* A fault is kept until the operator has asked for OFF: the converter leaves
\* FAULT (ccSim.c) only if OFF was requested since the last iteration that saw
\* a fault, however the request changes while the faults are being latched.
FaultKeptTillOff == [][state = "FAULT" /\ state' # "FAULT" => acked]_vars

\* A converter without a fault obeys a request for OFF that stays, and with
\* LIMITS I_ERR_FAULT at zero the flags of libreg do not keep it in FAULT.
Recovers ==
    <>[](request = "OFF" /\ ~errLimit /\ regFlags = {} /\ pol # "FAULT") => <>[](state = "OFF")

\* ccrt gets to its commands if at most one line of configuration that sets any
\* parameter of libreg is still to be read and nothing is pending: what that line
\* publishes is accepted by the real-time thread while regMgrSimInit waits for it.
StartsUp == (lines <= 1 /\ ~pending) ~> main = "commands"

====
