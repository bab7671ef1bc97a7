---- MODULE ConverterProofs ----
(***************************************************************************)
(* Proofs about the three state machines of a power converter, for every   *)
(* value of their constants: PcRun, the simulated converter of ccrt, and   *)
(* the two that libref is derived from, StateClass and PcFsm. They are     *)
(* systems of their own; a theorem is about the one its specification is   *)
(* of (Spec: PcRun, StaSpec: StateClass, Fsm!Spec: PcFsm).                 *)
(***************************************************************************)
EXTENDS PcRun, StateClass, TLAPS

CONSTANTS DeviceCyc, DevicePpm, Blockable, Unipolar, HasSwitch, Settle

\* The variables of PcFsm; its pc, time and ref are declared in StateClass.
VARIABLES modePc, force, standby, noPermit, failure, permit, block, on, blocked, vs, removed

Fsm == INSTANCE PcFsm WITH mode <- modePc

----------------------------------------------------------------------------
(* PcRun                                                                   *)


\* The types the proof uses.
Types ==
    /\ request \in {"OFF", "ON"}
    /\ acked \in BOOLEAN /\ sum \in BOOLEAN
    /\ latching \in 1 .. 3
    /\ latched \subseteq FaultSet

\* While the faults are being latched, sum_of_faults says whether one of those
\* already done is; when they all are, whether any is.
SumSoFar ==
    /\ rt = "latch" => (sum <=> \E n \in 1 .. latching - 1 : Faults[n] \in latched)
    /\ rt = "pc" => (sum <=> latched # {})

\* The requested state is assigned in an iteration without a fault only.
SwitchWithoutFault == rt = "switch" => latched = {}

\* As long as nobody asks for OFF, a fault that was seen stays latched.
LatchedTillOff == ~acked => request = "ON" /\ latched # {}

IInv == Types /\ SumSoFar /\ SwitchWithoutFault /\ LatchedTillOff

\* The faults in the order ccRunFaultsAndWarnings latches them.
LEMMA FaultList ==
    /\ Len(Faults) = 3
    /\ Faults[1] = "meas" /\ Faults[2] = "i_reg_err" /\ Faults[3] = "polswitch"
    /\ FaultSet = {"meas", "i_reg_err", "polswitch"}
<1>1. /\ Len(Faults) = 3
      /\ Faults[1] = "meas" /\ Faults[2] = "i_reg_err" /\ Faults[3] = "polswitch"
  BY DEF Faults
<1>2. 1 .. 3 = {1, 2, 3}
  OBVIOUS
<1>3. FaultSet = {Faults[n] : n \in {1, 2, 3}}
  BY <1>1, <1>2 DEF FaultSet
<1> QED
  BY <1>1, <1>3

LEMMA InitIInv == Init => IInv
<1> SUFFICES ASSUME Init PROVE IInv
  OBVIOUS
<1>1. Types
  <2>1. request = "OFF" /\ acked = TRUE /\ sum = FALSE /\ latching = 1 /\ latched = {}
    BY DEF Init
  <2>2. request \in {"OFF", "ON"} /\ latching \in 1 .. 3
    BY <2>1
  <2>3. acked \in BOOLEAN /\ sum \in BOOLEAN /\ latched \subseteq FaultSet
    BY <2>1, Zenon
  <2> QED
    BY <2>2, <2>3 DEF Types
<1>2. SumSoFar /\ SwitchWithoutFault /\ LatchedTillOff
  <2>1. rt = "meas" /\ acked
    BY DEF Init
  <2> QED
    BY <2>1 DEF SumSoFar, SwitchWithoutFault, LatchedTillOff
<1> QED
  BY <1>1, <1>2 DEF IInv

\* Latching one fault keeps the sum right: the fault at hand is none of those
\* done before.
LEMMA FaultLatchStep == IInv /\ FaultLatch => IInv'
<1> SUFFICES ASSUME IInv, FaultLatch PROVE IInv'
  OBVIOUS
<1> DEFINE f == Faults[latching]
           held == FaultHeld(f)
<1> USE FaultList
<1>0. /\ rt = "latch" /\ latching \in {1, 2, 3} /\ f \in FaultSet
      /\ latched \subseteq FaultSet /\ acked' = acked /\ request' = request
      /\ held \in BOOLEAN
  BY DEF IInv, Types, FaultLatch, Rt, cmdVars, FaultHeld, Up
<1>1. /\ latched' = IF held THEN latched \cup {f} ELSE latched \ {f}
      /\ sum' = (sum \/ held)
  BY DEF FaultLatch
<1>2. \/ latching < 3 /\ latching' = latching + 1 /\ rt' = "latch"
      \/ latching = 3 /\ latching' = 3 /\ rt' = "pc"
  BY <1>0 DEF FaultLatch, Rt
<1>3. Types'
  <2>1. sum' \in BOOLEAN
    BY <1>0, <1>1 DEF IInv, Types
  <2>2. latching' \in 1 .. 3
    BY <1>0, <1>2
  <2>3. latched' \subseteq FaultSet
    BY <1>0, <1>1
  <2> QED
    BY <1>0, <2>1, <2>2, <2>3 DEF IInv, Types
<1>4. (request = "ON" /\ f \in latched) => held
  BY DEF FaultHeld
<1>5. held <=> f \in latched'
  BY <1>1
<1>6. \A g \in FaultSet \ {f} : g \in latched' <=> g \in latched
  BY <1>1
<1>7. sum <=> \E n \in 1 .. latching - 1 : Faults[n] \in latched
  BY <1>0 DEF IInv, SumSoFar
<1>8. \A n \in 1 .. latching - 1 : Faults[n] \in FaultSet \ {f}
  BY <1>0
<1>9. sum' <=> \E n \in 1 .. latching : Faults[n] \in latched'
  <2>1. \A n \in 1 .. latching : n = latching \/ n \in 1 .. latching - 1
    BY <1>0
  <2>2. \A n \in 1 .. latching - 1 : n \in 1 .. latching
    BY <1>0
  <2>3. latching \in 1 .. latching
    BY <1>0
  <2>4. \A n \in 1 .. latching - 1 : Faults[n] \in latched' <=> Faults[n] \in latched
    BY <1>6, <1>8
  <2> QED
    BY <1>1, <1>5, <1>7, <2>1, <2>2, <2>3, <2>4
<1>10. SumSoFar'
  <2>1. CASE latching < 3 /\ latching' = latching + 1 /\ rt' = "latch"
    <3>1. latching' - 1 = latching
      BY <1>0, <2>1
    <3> QED
      BY <1>9, <2>1, <3>1 DEF SumSoFar
  <2>2. CASE latching = 3 /\ latching' = 3 /\ rt' = "pc"
    <3>1. 1 .. 3 = {1, 2, 3}
      OBVIOUS
    <3>2. sum' <=> \E n \in {1, 2, 3} : Faults[n] \in latched'
      BY <1>9, <2>2, <3>1
    <3>3. latched' \subseteq FaultSet
      BY <1>3 DEF Types
    <3>4. sum' <=> latched' # {}
      BY <3>2, <3>3
    <3> QED
      BY <2>2, <3>4 DEF SumSoFar
  <2> QED
    BY <1>2, <2>1, <2>2
<1>11. SwitchWithoutFault'
  BY <1>2 DEF SwitchWithoutFault
<1>12. LatchedTillOff'
  <2>1. ASSUME ~acked PROVE request = "ON" /\ latched' # {}
    <3>1. request = "ON" /\ latched # {}
      BY <2>1 DEF IInv, LatchedTillOff
    <3>2. PICK g \in latched : TRUE
      BY <3>1
    <3>3. g \in latched'
      BY <1>0, <1>4, <1>5, <1>6, <3>1, <3>2
    <3> QED
      BY <3>1, <3>3
  <2> QED
    BY <1>0, <2>1 DEF LatchedTillOff
<1> QED
  BY <1>3, <1>10, <1>11, <1>12 DEF IInv

\* Every step keeps the invariant.
LEMMA StepIInv == IInv /\ [Next]_vars => IInv'
<1> SUFFICES ASSUME IInv, [Next]_vars PROVE IInv'
  OBVIOUS
<1> USE FaultList DEF IInv, Types, SumSoFar, SwitchWithoutFault, LatchedTillOff
<1>1. CASE CommandThread
  <2>1. UNCHANGED <<rt, request, acked, latching, latched, sum>>
    BY <1>1 DEF CommandThread, ReadConfig, RegMgrPars, StartRtThread, SimInit, rtVars
  <2> QED
    BY <2>1
<1>2. CASE Operator
  <2>1. UNCHANGED <<rt, latching, latched, sum>>
    BY <1>2 DEF Operator, SetState, SetRegMode, SetPolSwitch, SetErrLimit, Command, rtVars
  <2>2. \/ UNCHANGED <<request, acked>>
        \/ request' = "ON" /\ (acked' <=> acked) /\ acked' \in BOOLEAN
        \/ request' = "OFF" /\ acked' /\ acked' \in BOOLEAN
    <3>1. CASE SetState
      <4>1. PICK s \in {"OFF", "ON"} : request' = s /\ acked' = (acked \/ s = "OFF")
        BY <3>1 DEF SetState, Command
      <4> QED
        BY <4>1
    <3>2. CASE SetRegMode \/ SetPolSwitch \/ SetErrLimit
      BY <3>2 DEF SetRegMode, SetPolSwitch, SetErrLimit, Command
    <3> QED
      BY <1>2, <3>1, <3>2 DEF Operator
  <2>3. request' \in {"OFF", "ON"} /\ acked' \in BOOLEAN
    BY <2>2
  <2>4. Types' /\ SumSoFar' /\ SwitchWithoutFault'
    BY <2>1, <2>3
  <2>5. LatchedTillOff'
    BY <2>1, <2>2
  <2> QED
    BY <2>4, <2>5
<1>3. CASE MeasSetRT
  <2>1. rt' = "regulate" /\ UNCHANGED <<request, acked, latching, latched, sum>>
    BY <1>3 DEF MeasSetRT, Rt, cmdVars
  <2> QED
    BY <2>1
<1>4. CASE RegulateRT
  <2>1. /\ rt' = "latch" /\ latching' = 1 /\ sum' = FALSE
        /\ UNCHANGED <<request, acked, latched>>
    BY <1>4 DEF RegulateRT, Rt, cmdVars
  <2>2. 1 .. latching' - 1 = {}
    BY <2>1
  <2>3. SumSoFar'
    BY <2>1, <2>2
  <2>4. Types'
    <3>1. latching' \in 1 .. 3
      BY <2>1
    <3>2. sum' \in BOOLEAN
      BY <2>1, Zenon
    <3> QED
      BY <2>1, <3>1, <3>2
  <2> QED
    BY <2>1, <2>3, <2>4
<1>5. CASE FaultLatch
  BY <1>5, FaultLatchStep
<1>6. CASE PcState
  <2>1. sum <=> latched # {}
    BY <1>6 DEF PcState, Rt
  <2>2. rt' \in {"polswitch", "switch"} /\ (rt' = "switch" => ~sum)
    BY <1>6 DEF PcState
  <2>3. /\ sum => acked' = (request = "OFF")
        /\ ~sum => acked' = acked
        /\ UNCHANGED <<request, latching, latched, sum>>
    BY <1>6 DEF PcState, Rt, cmdVars
  <2>4. acked' \in BOOLEAN
    BY <2>3
  <2>5. LatchedTillOff'
    <3>1. CASE sum
      <4>1. acked' <=> request = "OFF"
        BY <2>3, <3>1
      <4> QED
        BY <2>1, <2>3, <3>1, <4>1
    <3>2. CASE ~sum
      BY <2>3, <3>2
    <3> QED
      BY <3>1, <3>2
  <2>6. Types' /\ SumSoFar' /\ SwitchWithoutFault'
    BY <2>1, <2>2, <2>3, <2>4
  <2> QED
    BY <2>5, <2>6
<1>7. CASE PcSwitch
  <2>1. rt' = "polswitch" /\ UNCHANGED <<request, acked, latching, latched, sum>>
    BY <1>7 DEF PcSwitch, Rt, cmdVars
  <2> QED
    BY <2>1
<1>8. CASE PolSwitch
  <2>1. rt' = "mode" /\ UNCHANGED <<request, latching, latched, sum, acked>>
    BY <1>8 DEF PolSwitch, Rt, cmdVars
  <2> QED
    BY <2>1
<1>9. CASE ModeSetRT
  <2>1. rt' = "meas" /\ UNCHANGED <<request, latching, latched, sum, acked>>
    BY <1>9 DEF ModeSetRT, Rt, cmdVars
  <2> QED
    BY <2>1
<1>10. CASE UNCHANGED vars
  <2>1. UNCHANGED <<rt, request, latching, latched, sum, acked>>
    BY <1>10 DEF vars, cmdVars
  <2> QED
    BY <2>1
<1> QED
  BY <1>1, <1>2, <1>3, <1>4, <1>5, <1>6, <1>7, <1>8, <1>9, <1>10 DEF Next, RtNext

\* The invariant of the latching holds in every state, whatever the operator
\* asks for between two of its steps.
THEOREM IInvHolds == Spec => []IInv
<1> QED
  BY InitIInv, StepIInv, PTL DEF Spec

\* Whatever the timing of the requests and of the faults, ccSimPcState leaves
\* FAULT only after OFF was asked for since the last iteration with a fault.
THEOREM FaultKeptTillOffHolds == Spec => FaultKeptTillOff
<1> DEFINE A == state = "FAULT" /\ state' # "FAULT" => acked
<1>1. IInv /\ [Next]_vars => [A]_vars
  <2> SUFFICES ASSUME IInv, Next PROVE A
    OBVIOUS
  <2>1. CASE PcSwitch
    BY <2>1 DEF PcSwitch, Rt, IInv, SwitchWithoutFault, LatchedTillOff
  <2>2. CASE PcState
    BY <2>2 DEF PcState
  <2>3. CASE CommandThread \/ Operator
    BY <2>3 DEF CommandThread, ReadConfig, RegMgrPars, StartRtThread, SimInit, Operator, SetState,
        SetRegMode, SetPolSwitch, SetErrLimit, Command, rtVars, pcVars
  <2>4. CASE MeasSetRT \/ RegulateRT \/ FaultLatch \/ PolSwitch \/ ModeSetRT
    BY <2>4 DEF MeasSetRT, RegulateRT, FaultLatch, PolSwitch, ModeSetRT, pcVars
  <2> QED
    BY <2>1, <2>2, <2>3, <2>4 DEF Next, RtNext
<1> QED
  BY <1>1, IInvHolds, PTL DEF Spec, FaultKeptTillOff

----------------------------------------------------------------------------
(* Types, and the bounds of the timers                                     *)

CommandTypes ==
    /\ main \in {"config", "simInit", "commands"} /\ lines \in Nat
    /\ main = "config" /\ waiting => lines > 0
    /\ refMode \in Modes \ {"NONE"}
    /\ switch \in [command : Commands, timeout : Timeouts, simDelay : SimDelays]

RegFlags == pending \in BOOLEAN /\ waiting \in BOOLEAN /\ errLimit \in BOOLEAN /\ regFlags \subseteq FaultSet

PcTypes ==
    /\ rt \in {"meas", "regulate", "latch", "pc", "switch", "polswitch", "mode"}
    /\ mode \in Modes /\ state \in PcStates
    /\ onTimer \in Nat /\ onTimer <= OnIters + 1 /\ (rt # "switch" => onTimer <= OnIters)

PolTypes ==
    /\ pol \in Polarity \cup {"NONE", "MOVING", "FAULT"} /\ target \in Polarity \cup {"NONE"}
    /\ pol = "MOVING" => target \in Polarity
    /\ polTimer \in Nat
    /\ pol \in Polarity => polTimer = 0
    /\ pol = "MOVING" => polTimer <= switch.simDelay
    /\ pol = "FAULT" => polTimer <= FaultIters
    /\ pol = "NONE" => polTimer <= FaultIters + 1

TInv == CommandTypes /\ RegFlags /\ PcTypes /\ PolTypes

LEMMA InitTInv == Init => TInv
<1> SUFFICES ASSUME Init PROVE TInv
  OBVIOUS
<1> USE TimesAssumption, LinesAssumption
<1>1. CommandTypes BY DEF Init, CommandTypes, Modes
<1>2. RegFlags
  <2>1. pending = FALSE /\ waiting = FALSE /\ errLimit = TRUE /\ regFlags = {} BY DEF Init
  <2> QED BY <2>1, Zenon DEF RegFlags
<1>3. PcTypes BY DEF Init, PcTypes, Modes, PcStates
<1>4. PolTypes BY DEF Init, PolTypes, Polarity
<1> QED BY <1>1, <1>2, <1>3, <1>4 DEF TInv

\* The background thread: the parameters an operator sets are of their types.
LEMMA CommandStep ==
  ASSUME CommandTypes, [Next]_vars PROVE CommandTypes' /\ (switch' = switch \/ switch'.simDelay = switch.simDelay)
<1> USE DEF CommandTypes
<1>1. CASE CommandThread
  <2>1. CASE ReadConfig BY <2>1, LinesAssumption DEF ReadConfig
  <2>2. CASE RegMgrPars BY <2>2 DEF RegMgrPars
  <2>3. CASE StartRtThread BY <2>3 DEF StartRtThread
  <2>4. CASE SimInit BY <2>4 DEF SimInit
  <2> QED BY <1>1, <2>1, <2>2, <2>3, <2>4 DEF CommandThread
<1>2. CASE Operator
  <2>1. CASE SetState \/ SetErrLimit
    <3>1. main = "commands" /\ UNCHANGED <<main, lines, refMode, switch>>
      BY <2>1 DEF SetState, SetErrLimit, Command
    <3> QED BY <3>1
  <2>2. CASE SetRegMode
    BY <2>2 DEF SetRegMode, Command
  <2>3. CASE SetPolSwitch
    <3>1. PICK c \in Commands, t \in Timeouts :
            /\ switch' \in {[switch EXCEPT !.command = c], [switch EXCEPT !.timeout = t]}
            /\ UNCHANGED <<main, waiting, lines, refMode>>
      BY <2>3 DEF SetPolSwitch, Command
    <3> QED BY <3>1
  <2> QED BY <1>2, <2>1, <2>2, <2>3 DEF Operator
<1>3. CASE RtNext
  <2>1. UNCHANGED <<main, waiting, lines, refMode, switch>>
    BY <1>3 DEF RtNext, MeasSetRT, RegulateRT, FaultLatch, PcState, PcSwitch, PolSwitch, ModeSetRT, Rt, cmdVars
  <2> QED BY <2>1
<1>4. CASE UNCHANGED vars
  <2>1. UNCHANGED <<main, waiting, lines, refMode, switch>> BY <1>4 DEF vars, cmdVars
  <2> QED BY <2>1
<1> QED BY <1>1, <1>2, <1>3, <1>4 DEF Next

LEMMA FlagsStep == ASSUME RegFlags, [Next]_vars PROVE RegFlags'
<1>1. pending' \in BOOLEAN
  <2>1. CASE RegMgrPars \/ SimInit BY <2>1 DEF RegMgrPars, SimInit
  <2>2. CASE ~(RegMgrPars \/ SimInit)
    <3>1. pending' = pending \/ pending' = FALSE
      BY <2>2 DEF Next, vars, CommandThread, ReadConfig, StartRtThread, Operator, SetState, SetRegMode,
             SetPolSwitch, SetErrLimit, Command, RtNext, MeasSetRT, RegulateRT, FaultLatch, PcState, PcSwitch,
             PolSwitch, ModeSetRT
    <3> QED BY <3>1, Zenon DEF RegFlags
  <2> QED BY <2>1, <2>2
<1>4. waiting' \in BOOLEAN
  <2>1. CASE CommandThread
    <3>1. waiting' = waiting \/ waiting' = TRUE \/ waiting' = FALSE
      BY <2>1 DEF CommandThread, ReadConfig, RegMgrPars, StartRtThread, SimInit
    <3> QED BY <3>1, Zenon DEF RegFlags
  <2>2. CASE SetErrLimit
    <3>1. waiting' = (mode = "NONE") BY <2>2 DEF SetErrLimit, Command
    <3> QED BY <3>1, Zenon
  <2>3. CASE ~(CommandThread \/ SetErrLimit)
    <3>1. waiting' = waiting
      BY <2>3 DEF Next, vars, cmdVars, Operator, SetState, SetRegMode, SetPolSwitch, Command, RtNext, MeasSetRT,
             RegulateRT, FaultLatch, PcState, PcSwitch, PolSwitch, ModeSetRT, Rt
    <3> QED BY <3>1 DEF RegFlags
  <2> QED BY <2>1, <2>2, <2>3
<1>2. errLimit' \in BOOLEAN
  <2>1. CASE SetErrLimit
    <3>1. \E enabled \in BOOLEAN : errLimit' = enabled BY <2>1 DEF SetErrLimit, Command
    <3> QED BY <3>1
  <2>2. CASE ~SetErrLimit
    <3>1. errLimit' = errLimit
      BY <2>2 DEF Next, vars, cmdVars, CommandThread, ReadConfig, RegMgrPars, StartRtThread, SimInit, Operator, SetState,
             SetRegMode, SetPolSwitch, Command, RtNext, MeasSetRT, RegulateRT, FaultLatch, PcState, PcSwitch,
             PolSwitch, ModeSetRT, Rt
    <3> QED BY <3>1 DEF RegFlags
  <2> QED BY <2>1, <2>2
<1>3. regFlags' \subseteq FaultSet
  <2>1. CASE MeasSetRT BY <2>1, FaultList DEF MeasSetRT, Evaluated, RegFlags
  <2>2. CASE RegulateRT
    <3>1. regFlags' \in Evaluated("i_reg_err", regFlags) \cup {regFlags} BY <2>2 DEF RegulateRT
    <3> QED BY <3>1, FaultList DEF Evaluated, RegFlags
  <2>3. CASE ModeSetRT BY <2>3 DEF ModeSetRT, RegFlags
  <2>4. CASE SetErrLimit BY <2>4 DEF SetErrLimit, Command, RegFlags
  <2>5. CASE ~(MeasSetRT \/ RegulateRT \/ ModeSetRT \/ SetErrLimit)
    <3>1. regFlags' = regFlags
      BY <2>5 DEF Next, vars, cmdVars, CommandThread, ReadConfig, RegMgrPars, StartRtThread, SimInit, Operator, SetState,
             SetRegMode, SetPolSwitch, Command, RtNext, FaultLatch, PcState, PcSwitch, PolSwitch
    <3> QED BY <3>1 DEF RegFlags
  <2> QED BY <2>1, <2>2, <2>3, <2>4, <2>5
<1> QED BY <1>1, <1>2, <1>3, <1>4 DEF RegFlags

\* The delay of switching on: its timer goes past the limit only on the way to the switch.
LEMMA PcStep == ASSUME IInv, CommandTypes, PcTypes, [Next]_vars PROVE PcTypes'
<1> USE TimesAssumption DEF PcTypes
<1>1. request \in PcStates /\ refMode \in Modes BY DEF IInv, Types, CommandTypes, PcStates
<1>2. CASE CommandThread \/ Operator \/ UNCHANGED vars
  <2>1. UNCHANGED <<rt, state, onTimer>> /\ mode' \in {mode, "NONE"}
    BY <1>2 DEF CommandThread, ReadConfig, RegMgrPars, StartRtThread, SimInit, Operator, SetState, SetRegMode, SetPolSwitch,
        SetErrLimit, Command, rtVars, pcVars, vars
  <2> QED BY <2>1 DEF Modes
<1>3. CASE MeasSetRT
  <2>1. UNCHANGED <<mode, state, onTimer>> /\ rt = "meas" /\ rt' = "regulate" BY <1>3 DEF MeasSetRT, Rt, pcVars
  <2> QED BY <2>1
<1>4. CASE RegulateRT
  <2>1. UNCHANGED <<mode, state, onTimer>> /\ rt = "regulate" /\ rt' = "latch" BY <1>4 DEF RegulateRT, Rt, pcVars
  <2> QED BY <2>1
<1>5. CASE FaultLatch
  <2>1. UNCHANGED <<mode, state, onTimer>> /\ rt = "latch" /\ rt' \in {"latch", "pc"}
    BY <1>5 DEF FaultLatch, Rt, pcVars
  <2> QED BY <2>1
<1>6. CASE PcState
  <2>1. /\ rt = "pc" /\ mode' = mode /\ state' \in {state, "FAULT"}
        /\ \/ rt' = "polswitch" /\ onTimer' = onTimer
           \/ rt' = "switch" /\ onTimer' = onTimer + 1
           \/ rt' = "polswitch" /\ onTimer' = onTimer + 1 /\ ~(onTimer' > OnIters)
    BY <1>6 DEF PcState, Rt
  <2> QED BY <2>1 DEF PcStates
<1>7. CASE PcSwitch
  <2>1. state' = request /\ onTimer' = 0 /\ rt' = "polswitch" /\ mode' = mode BY <1>7 DEF PcSwitch
  <2> QED BY <1>1, <2>1
<1>8. CASE PolSwitch
  <2>1. UNCHANGED <<mode, state, onTimer>> /\ rt = "polswitch" /\ rt' = "mode" BY <1>8 DEF PolSwitch, Rt, pcVars
  <2> QED BY <2>1
<1>9. CASE ModeSetRT
  <2>1. UNCHANGED <<state, onTimer>> /\ rt = "mode" /\ rt' = "meas" /\ mode' \in {mode, refMode}
    BY <1>9 DEF ModeSetRT, Rt, pcVars
  <2> QED BY <1>1, <2>1
<1> QED BY <1>2, <1>3, <1>4, <1>5, <1>6, <1>7, <1>8, <1>9 DEF Next, RtNext

\* The polarity switch: its timer is restarted by what ends a movement.
LEMMA PolStep == ASSUME CommandTypes, PolTypes, [Next]_vars PROVE PolTypes'
<1> USE TimesAssumption DEF PolTypes, Polarity
<1>1. switch.simDelay \in Nat /\ switch.timeout \in Nat BY DEF CommandTypes
<1>2. CASE PolSwitch
  <2>1. switch' = switch BY <1>2 DEF PolSwitch, Rt, cmdVars
  <2>2. CASE NoSwitch BY <2>1, <2>2 DEF NoSwitch
  <2>3. ASSUME NEW p \in Polarity, NEW other \in Polarity, Rest(p, other) PROVE PolTypes'
    BY <1>1, <2>1, <2>3 DEF Rest
  <2>4. CASE Moving BY <1>1, <2>1, <2>4 DEF Moving
  <2>5. CASE ShowFault BY <2>1, <2>5 DEF ShowFault
  <2> QED BY <1>2, <2>2, <2>3, <2>4, <2>5 DEF PolSwitch
<1>3. CASE ~PolSwitch
  <2>1. UNCHANGED <<pol, target, polTimer>>
    BY <1>3 DEF Next, vars, CommandThread, ReadConfig, RegMgrPars, StartRtThread, SimInit, Operator, SetState, SetRegMode,
        SetPolSwitch, SetErrLimit, Command, rtVars, RtNext, MeasSetRT, RegulateRT, FaultLatch, PcState, PcSwitch,
        ModeSetRT, polVars
  <2>2. switch'.simDelay = switch.simDelay BY CommandStep
  <2> QED BY <2>1, <2>2
<1> QED BY <1>2, <1>3

LEMMA StepTInv == IInv /\ TInv /\ [Next]_vars => TInv'
BY CommandStep, FlagsStep, PcStep, PolStep DEF TInv

LEMMA TypesTogether == IInv /\ TInv => TypeOK
<1> SUFFICES ASSUME IInv, TInv PROVE TypeOK
  OBVIOUS
<1>1. switch.simDelay \in Nat BY TimesAssumption DEF TInv, CommandTypes
<1>2. polTimer \in 0 .. PolLimit
  <2>1. CASE pol \in Polarity BY <2>1 DEF TInv, PolTypes, PolLimit, Polarity
  <2>2. CASE pol = "MOVING" BY <1>1, <2>2 DEF TInv, PolTypes, PolLimit, Polarity
  <2>3. CASE pol = "FAULT" BY <2>3, TimesAssumption DEF TInv, PolTypes, PolLimit, Polarity
  <2>4. CASE pol = "NONE" BY <2>4, TimesAssumption DEF TInv, PolTypes, PolLimit, Polarity
  <2> QED BY <2>1, <2>2, <2>3, <2>4 DEF TInv, PolTypes
<1>3. onTimer \in 0 .. IF rt = "switch" THEN OnIters + 1 ELSE OnIters
  BY TimesAssumption DEF TInv, PcTypes
<1>4. latching \in 1 .. Len(Faults) BY FaultList DEF IInv, Types
<1> QED BY <1>2, <1>3, <1>4 DEF IInv, Types, TInv, CommandTypes, RegFlags, PcTypes, PolTypes, TypeOK

\* The variables of both threads keep their types, and the timers of the converter and of the
\* polarity switch the delays they are compared with, for any delays, also when the timeout is
\* changed while the switch moves.
THEOREM TypeCorrect == Spec => []TypeOK
<1> QED BY InitIInv, StepIInv, InitTInv, StepTInv, TypesTogether, PTL DEF Spec

----------------------------------------------------------------------------
(* StateClass                                                              *)


\* A flag START that is set was set by the operator since FAULT_OFF, whose
\* state function clears it.
StartAsked == "START" \in flags => asked

StartInv == StaTypeOK /\ StartAsked

----------------------------------------------------------------------------
(* The table and the state functions                                       *)

\* Every transition of the table leads to a state.
LEMMA TableClosed ==
    ASSUME NEW p \in States, NEW t \in Transitions[p]
    PROVE  t[2] \in States
<1>1. CASE p \in {"FO", "OF", "FS", "SP", "ST", "SA", "TS"}
  BY <1>1 DEF Transitions, States, Leave, Drop
<1>2. CASE p \in {"SB", "IL", "TC", "AR", "RN", "AB", "CY"}
  BY <1>2 DEF Transitions, States, Leave, Drop, Fall
<1> QED
  BY <1>1, <1>2 DEF States

LEMMA NextIsState == StaTypeOK => \A s \in NextStates : s \in States
  BY TableClosed DEF StaTypeOK, NextStates

\* The functions of the states set no flag but the table's, and never START.
LEMMA EnterFlagsType ==
    ASSUME StaTypeOK, NEW s \in States
    PROVE  /\ EnterFlags(s) \subseteq Flags
           /\ "START" \in EnterFlags(s) => "START" \in flags /\ s # "FO"
<1>1. "STOP" \in Flags /\ "TO_STANDBY" \in Flags
  BY DEF Flags
<1> QED
  BY <1>1 DEF EnterFlags, FaultOffClears, SlowAbortClears, StaTypeOK

LEMMA EveryCallType ==
    ASSUME NEW s \in States, NEW t, NEW f \in SUBSET Flags
    PROVE  /\ EveryCall(s, f, t) \subseteq Flags
           /\ "START" \in EveryCall(s, f, t) => "START" \in f
<1>1. {"IDLE", "RUNNING", "ABORTING", "CYCLING"} \subseteq Flags
  BY DEF Flags
<1>2. "START" \notin {"IDLE", "RUNNING", "ABORTING", "CYCLING"}
  OBVIOUS
<1> QED
  BY <1>1, <1>2 DEF EveryCall

LEMMA StayingType ==
    ASSUME NEW s \in States, NEW f \in SUBSET Flags, NEW iMin, NEW calibrating
    PROVE  /\ Staying(s, f, iMin, calibrating) \subseteq Flags
           /\ "START" \in Staying(s, f, iMin, calibrating) => "START" \in f
<1>1. "ARMED" \in Flags
  BY DEF Flags
<1> QED
  BY <1>1 DEF Staying

\* What STOPPING waits for only takes flags away.
LEMMA StoppingType ==
    ASSUME StaTypeOK, NEW t, NEW f \in SUBSET Flags, Stopping(t, f)
    PROVE  /\ cmd' \in {"ON", "OFF"} /\ log' \in BOOLEAN /\ flags' \subseteq Flags
           /\ "START" \in flags' => "START" \in f
<1>1. cmd' \in {"ON", "OFF"}
  BY DEF Stopping, StaTypeOK
<1>2. log' \in BOOLEAN
  <2>1. log \in BOOLEAN
    BY DEF StaTypeOK
  <2> QED
    BY <2>1 DEF Stopping
<1>3. flags' = f \/ flags' = f \ {"STOP"}
  BY DEF Stopping
<1> QED
  BY <1>1, <1>2, <1>3

----------------------------------------------------------------------------
(* The invariant                                                           *)

LEMMA InitStartInv == StaInit => StartInv
<1> SUFFICES ASSUME StaInit PROVE StartInv
  OBVIOUS
<1>1. /\ pc = "OF" /\ time = "SHORT" /\ flags = {} /\ inputs = {} /\ cmd = "OFF" /\ ref = "NONE"
      /\ faults = FALSE /\ first = FALSE /\ log = FALSE /\ asked = FALSE
  BY DEF StaInit
<1>2. {faults, first, log, asked} \subseteq BOOLEAN
  BY <1>1, Zenon
<1>3. StaTypeOK
  BY <1>1, <1>2 DEF StaTypeOK, States, Times, Refs
<1> QED
  BY <1>1, <1>3 DEF StartInv, StartAsked

LEMMA EnterStartInv ==
    ASSUME StartInv, NEW s \in States, Enter(s), UNCHANGED <<inputs, faults>>
    PROVE  StartInv'
<1> DEFINE f == EveryCall(s, EnterFlags(s), "SHORT")
<1>0. StaTypeOK
  BY DEF StartInv
<1>1. f \subseteq Flags /\ ("START" \in f => "START" \in flags /\ s # "FO")
  BY <1>0, EnterFlagsType, EveryCallType
<1>2. /\ cmd' \in {"ON", "OFF"} /\ log' \in BOOLEAN /\ flags' \subseteq Flags
      /\ "START" \in flags' => "START" \in f
  <2>1. CASE s = "SP"
    <3>1. Stopping("SHORT", f)
      BY <2>1 DEF Enter
    <3> HIDE DEF f
    <3> QED
      BY <1>0, <1>1, <3>1, StoppingType
  <2>2. CASE s # "SP"
    <3>1. /\ flags' = f /\ cmd' = (IF s = "FS" /\ "VSRUN" \in inputs THEN "OFF" ELSE cmd)
          /\ log' = (s = "ST" \/ log)
      BY <2>2 DEF Enter
    <3>2. cmd' \in {"ON", "OFF"}
      BY <1>0, <3>1 DEF StaTypeOK
    <3>3. log' \in BOOLEAN
      BY <3>1, Zenon
    <3> HIDE DEF f
    <3> QED
      BY <1>1, <3>1, <3>2, <3>3
  <2> QED
    BY <2>1, <2>2
<1>3. pc' = s /\ time' = "SHORT" /\ asked' = (s # "FO" /\ asked)
  BY DEF Enter
<1>4. first' \in BOOLEAN
  BY <1>0, Zenon DEF Enter, StaTypeOK
<1>5. ref' \in Refs
  BY <1>0 DEF Enter, StaTypeOK, Refs
<1>6. asked' \in BOOLEAN
  BY <1>3, Zenon
<1>7. {faults, first, log, asked}' \subseteq BOOLEAN
  BY <1>0, <1>2, <1>4, <1>6, Zenon DEF StaTypeOK
<1>8. StaTypeOK'
  <2>1. inputs' = inputs /\ faults' = faults /\ inputs \subseteq Inputs
    BY <1>0 DEF StaTypeOK
  <2> HIDE DEF f
  <2> QED
    BY <1>2, <1>3, <1>5, <1>7, <2>1 DEF StaTypeOK, Times
<1>9. StartAsked'
  <2>1. "START" \in flags' => asked /\ s # "FO"
    BY <1>1, <1>2 DEF StartInv, StartAsked
  <2> HIDE DEF f
  <2> QED
    BY <1>3, <2>1, Zenon DEF StartAsked
<1> QED
  BY <1>8, <1>9 DEF StartInv

LEMMA StayStartInv ==
    ASSUME StartInv, NEW iMin, NEW calibrating, Stay(iMin, calibrating),
           UNCHANGED <<inputs, faults>>
    PROVE  StartInv'
<1> DEFINE g == Staying(pc, flags, iMin, calibrating)
           f == EveryCall(pc, g, time)
<1>0. StaTypeOK /\ pc \in States /\ flags \subseteq Flags
  BY DEF StartInv, StaTypeOK
<1>1. f \subseteq Flags /\ ("START" \in f => "START" \in flags)
  <2>1. g \subseteq Flags /\ ("START" \in g => "START" \in flags)
    BY <1>0, StayingType
  <2> HIDE DEF g
  <2> QED
    BY <1>0, <2>1, EveryCallType
<1>2. /\ cmd' \in {"ON", "OFF"} /\ log' \in BOOLEAN /\ flags' \subseteq Flags
      /\ "START" \in flags' => "START" \in f
  <2>1. CASE pc = "SP"
    <3>1. Stopping(time, f)
      BY <2>1 DEF Stay
    <3> HIDE DEF f
    <3> QED
      BY <1>0, <1>1, <3>1, StoppingType
  <2>2. CASE pc # "SP"
    <3>1. flags' = f /\ log' = log /\ cmd' \in {"ON", "OFF", cmd}
      BY <2>2 DEF Stay
    <3>2. cmd' \in {"ON", "OFF"} /\ log' \in BOOLEAN
      BY <1>0, <3>1 DEF StaTypeOK
    <3> HIDE DEF f
    <3> QED
      BY <1>1, <3>1, <3>2
  <2> QED
    BY <2>1, <2>2
<1>3. UNCHANGED <<pc, ref, asked, inputs, faults>> /\ time' \in Times
  BY DEF Stay, Times
<1>4. first' \in BOOLEAN
  BY Zenon DEF Stay
<1>5. {faults, first, log, asked}' \subseteq BOOLEAN
  BY <1>0, <1>2, <1>3, <1>4, Zenon DEF StaTypeOK
<1>6. StaTypeOK'
  <2> HIDE DEF f
  <2> QED
    BY <1>0, <1>2, <1>3, <1>5 DEF StaTypeOK
<1>7. StartAsked'
  <2> HIDE DEF f
  <2> QED
    BY <1>1, <1>2, <1>3 DEF StartInv, StartAsked
<1> QED
  BY <1>6, <1>7 DEF StartInv

\* Only the operator sets START, and is remembered to have done so.
LEMMA OutsideStartInv ==
    ASSUME StartInv, Outside \/ FunctionEnds \/ Obey
    PROVE  StartInv'
<1>0. StaTypeOK /\ StartAsked
  BY DEF StartInv
<1>1. CASE Request
  <2>1. UNCHANGED <<pc, time, inputs, cmd, faults, first, log, ref>>
    BY <1>1 DEF Request
  <2>2. \/ flags' = flags \cup {"START"} /\ asked' = TRUE
        \/ asked' = asked /\ \E x \in Orders : flags' = flags \cup {x}
    BY <1>1 DEF Request
  <2>3. Orders \subseteq Flags \ {"START"} /\ "START" \in Flags
    BY DEF Orders, Flags
  <2>4. flags' \subseteq Flags
    BY <1>0, <2>2, <2>3 DEF StaTypeOK
  <2>5. {faults, first, log, asked}' \subseteq BOOLEAN
    BY <1>0, <2>1, <2>2, Zenon DEF StaTypeOK
  <2>6. StaTypeOK'
    BY <1>0, <2>1, <2>4, <2>5 DEF StaTypeOK
  <2>7. StartAsked'
    BY <1>0, <2>2, <2>3 DEF StartAsked
  <2> QED
    BY <2>6, <2>7 DEF StartInv
<1>2. CASE Arm \/ FunctionEnds
  <2>1. UNCHANGED <<pc, time, flags, inputs, cmd, faults, first, log, asked>> /\ ref' \in Refs
    BY <1>2 DEF Arm, FunctionEnds, Refs
  <2> QED
    BY <1>0, <2>1 DEF StartInv, StaTypeOK, StartAsked
<1>3. CASE Obey
  <2>1. UNCHANGED <<pc, time, flags, cmd, faults, first, log, ref, asked>>
    BY <1>3 DEF Obey
  <2>2. inputs' \subseteq Inputs
    BY <1>0, <1>3 DEF Obey, StaTypeOK, Inputs, Vs
  <2> QED
    BY <1>0, <2>1, <2>2 DEF StartInv, StaTypeOK, StartAsked
<1>4. CASE Fail \/ Reset
  <2>1. UNCHANGED <<pc, time, flags, cmd, first, log, ref, asked>>
    BY <1>4 DEF Fail, Reset
  <2>2. inputs' \subseteq Inputs
    BY <1>0, <1>4 DEF Fail, Reset, StaTypeOK, Inputs
  <2>3. faults' = TRUE \/ faults' = FALSE
    BY <1>4 DEF Fail, Reset
  <2>4. {faults, first, log, asked}' \subseteq BOOLEAN
    BY <1>0, <2>1, <2>3, Zenon DEF StaTypeOK
  <2> QED
    BY <1>0, <2>1, <2>2, <2>4 DEF StartInv, StaTypeOK, StartAsked
<1>5. CASE Interlock
  <2>1. UNCHANGED <<pc, time, flags, cmd, faults, first, log, ref, asked>>
    BY <1>5 DEF Interlock
  <2>2. inputs' \subseteq Inputs
    BY <1>0, <1>5 DEF Interlock, StaTypeOK, Inputs
  <2> QED
    BY <1>0, <2>1, <2>2 DEF StartInv, StaTypeOK, StartAsked
<1> QED
  BY <1>1, <1>2, <1>3, <1>4, <1>5 DEF Outside

LEMMA StepStartInv == StartInv /\ [StaNext]_staVars => StartInv'
<1> SUFFICES ASSUME StartInv, [StaNext]_staVars PROVE StartInv'
  OBVIOUS
<1>1. CASE Process
  <2>1. CASE \E iMin, calibrating \in BOOLEAN : Stay(iMin, calibrating)
    BY <1>1, <2>1, StayStartInv DEF Process
  <2>2. CASE \E s \in NextStates : Enter(s)
    BY <1>1, <2>2, EnterStartInv, NextIsState DEF Process, StartInv
  <2> QED
    BY <1>1, <2>1, <2>2 DEF Process
<1>2. CASE Outside \/ FunctionEnds \/ Obey
  BY <1>2, OutsideStartInv
<1>3. CASE UNCHANGED staVars
  BY <1>3 DEF staVars, StartInv, StaTypeOK, StartAsked
<1> QED
  BY <1>1, <1>2, <1>3 DEF StaNext, Outside

\* Every variable keeps its type: no state function sets a flag, nor the table
\* leads to a state, that does not exist.
THEOREM StaTypeCorrect == StaSpec => []StaTypeOK
<1>1. StartInv => StaTypeOK
  BY DEF StartInv
<1> QED
  BY <1>1, InitStartInv, StepStartInv, PTL DEF StaSpec

\* A converter leaves OFF for STARTING only if the operator asked for it since
\* it was last in FAULT_OFF, whatever flags were still set when it failed.
THEOREM NoSelfRestartHolds == StaSpec => NoSelfRestart
<1> DEFINE A == pc = "OF" /\ pc' = "ST" => asked
<1>1. StartInv /\ [StaNext]_staVars => [A]_staVars
  <2> SUFFICES ASSUME StartInv, StaNext, pc = "OF", pc' = "ST" PROVE asked
    OBVIOUS
  <2>1. pc' # pc
    OBVIOUS
  <2>2. PICK s \in NextStates : Enter(s)
    BY <2>1 DEF StaNext, Process, Stay, Request, Arm,
         FunctionEnds, Obey, Fail, Interlock, Reset
  <2>3. s = "ST"
    BY <2>2 DEF Enter
  <2>4. Transitions["OF"] = {<<"OFtoFO", "FO">>, <<"OFtoST", "ST">>}
    BY DEF Transitions
  <2>5. Condition["OFtoST"]
    BY <2>3, <2>4 DEF NextStates
  <2>6. "START" \in flags
    BY <2>5 DEF Condition
  <2> QED
    BY <2>6 DEF StartInv, StartAsked
<1>2. StaSpec => []StartInv
  BY InitStartInv, StepStartInv, PTL DEF StaSpec
<1> QED
  BY <1>1, <1>2, PTL DEF StaSpec, NoSelfRestart

----------------------------------------------------------------------------
(* PcFsm                                                                   *)

\* The states a call goes to are states, whichever of the conditions hold.
LEMMA FsmNextStates ==
    ASSUME NEW f, NEW iMin, NEW moving, pc \in Fsm!States
    PROVE  Fsm!NextStates(f, iMin, moving) \subseteq Fsm!States
<1>1. {"FS", "SA", "TS"} \subseteq Fsm!States
  BY DEF Fsm!States, Fsm!Above
<1>2. Fsm!Others(iMin, moving) \subseteq Fsm!States
  <2> DEFINE When(cond, to) == IF cond THEN {to} ELSE {}
  <2>1. {"FO", "OF", "ST", "PL", "BK", "SP", "TS", "AB", "SB", "IL", "TC", "DT", "AR", "CY", "RN"}
           \subseteq Fsm!States
    BY DEF Fsm!States, Fsm!Above
  <2>2. CASE pc \in {"FO", "OF", "FS", "SP", "ST", "BK"}
    BY <2>1, <2>2 DEF Fsm!Others
  <2>3. CASE pc \in {"SA", "TS", "SB", "IL", "TC", "AR"}
    BY <2>1, <2>3 DEF Fsm!Others
  <2>4. CASE pc \in {"RN", "AB", "CY", "PL", "DT"}
    BY <2>1, <2>4 DEF Fsm!Others
  <2> QED
    BY <2>2, <2>3, <2>4 DEF Fsm!States, Fsm!Above
<1> QED
  BY <1>1, <1>2 DEF Fsm!NextStates

\* FsmTypeOK, with a line for each of the flags.
FsmTypes ==
    /\ pc \in Fsm!States /\ time \in 0 .. Settle /\ modePc \in Fsm!Modes
    /\ ref \in {"NONE", "ARMED", "RUNNING", "ABORTING"}
    /\ force \in BOOLEAN /\ standby \in BOOLEAN /\ noPermit \in BOOLEAN /\ failure \in BOOLEAN
    /\ permit \in BOOLEAN /\ block \in BOOLEAN /\ on \in BOOLEAN /\ blocked \in BOOLEAN
    /\ vs \in BOOLEAN /\ removed \in BOOLEAN

LEMMA FsmInit == ASSUME Settle \in Nat \ {0} PROVE Fsm!Init => FsmTypes
<1>1. "OF" \in Fsm!States /\ "OF" \in Fsm!Modes /\ 0 \in 0 .. Settle
  BY DEF Fsm!States, Fsm!Above, Fsm!Modes
<1> QED
  BY <1>1 DEF Fsm!Init, FsmTypes

LEMMA FsmProcess == ASSUME Settle \in Nat \ {0}, FsmTypes, Fsm!ProcessState PROVE FsmTypes'
<1>1. PICK iMin \in BOOLEAN, access \in BOOLEAN, req \in BOOLEAN, moving \in {FALSE, HasSwitch} :
        LET f == Fsm!ForceSlowAbort
            next == Fsm!NextStates(f, iMin, moving)
        IN  /\ standby' = Fsm!ToStandby(access, req)
            /\ IF next = {}
               THEN /\ Fsm!StayInState(f) /\ pc' = pc
                    /\ time' = IF Fsm!Settled THEN time ELSE time + 1
               ELSE /\ pc' \in next /\ time' = 0
                    /\ Fsm!EnterState(pc', f)
            /\ removed' = (~permit \/ (removed /\ pc' # "OF"))
            /\ UNCHANGED <<modePc, failure, Fsm!hard>>
  BY DEF Fsm!ProcessState
<1> DEFINE f == Fsm!ForceSlowAbort
           next == Fsm!NextStates(f, iMin, moving)
<1>2. f \in BOOLEAN
  BY Zenon DEF Fsm!ForceSlowAbort
<1>3. next \subseteq Fsm!States
  BY FsmNextStates DEF FsmTypes
<1>4. /\ standby' \in BOOLEAN /\ removed' \in BOOLEAN
      /\ UNCHANGED <<modePc, failure, permit, blocked, vs>>
  BY <1>1, Zenon DEF Fsm!ToStandby, Fsm!hard
<1>5. /\ standby' \in BOOLEAN /\ removed' \in BOOLEAN /\ modePc' = modePc /\ failure' = failure
      /\ permit' = permit /\ blocked' = blocked /\ vs' = vs
  BY <1>4
<1>6. CASE next = {}
  <2>1. Fsm!StayInState(f) /\ pc' = pc /\ time' = IF Fsm!Settled THEN time ELSE time + 1
    BY <1>1, <1>6
  <2>2. time' \in 0 .. Settle
    BY <2>1 DEF Fsm!Settled, FsmTypes
  <2> HIDE DEF f, next
  <2>3. block' \in BOOLEAN
    BY <2>1, Zenon DEF Fsm!StayInState, FsmTypes
  <2>4. on' \in BOOLEAN /\ noPermit' \in BOOLEAN
    BY <2>1, Zenon DEF Fsm!StayInState
  <2>5. force' = f /\ ref' = ref
    BY <2>1 DEF Fsm!StayInState
  <2> QED
    BY <1>2, <1>5, <2>1, <2>2, <2>3, <2>4, <2>5 DEF FsmTypes
<1>7. CASE next # {}
  <2>1. pc' \in next /\ time' = 0 /\ Fsm!EnterState(pc', f)
    BY <1>1, <1>7
  <2>2. pc' \in Fsm!States /\ time' \in 0 .. Settle
    BY <1>3, <2>1
  <2> HIDE DEF f, next
  <2>3. block' \in BOOLEAN /\ on' \in BOOLEAN /\ noPermit' \in BOOLEAN /\ force' \in BOOLEAN
    BY <2>1, Zenon DEF Fsm!EnterState
  <2>4. ref' \in {"RUNNING", "NONE", ref}
    BY <2>1 DEF Fsm!EnterState
  <2> QED
    BY <1>5, <2>2, <2>3, <2>4 DEF FsmTypes
<1> QED
  BY <1>6, <1>7

LEMMA FsmStep == ASSUME Settle \in Nat \ {0} PROVE FsmTypes /\ [Fsm!Next]_Fsm!vars => FsmTypes'
<1> SUFFICES ASSUME FsmTypes, [Fsm!Next]_Fsm!vars PROVE FsmTypes'
  OBVIOUS
<1> USE DEF Fsm!soft, Fsm!hard
<1>1. CASE Fsm!SetState
  <2>1. PICK t \in Fsm!Targets, cause \in BOOLEAN :
          /\ force' = (t = "SA" \/ (force /\ pc # "SA"))
          /\ modePc' = Fsm!ModeAskedFor(t)
          /\ IF t = "OF" /\ pc \in {"FO", "OF"}
             THEN noPermit' = FALSE /\ failure' = (failure /\ cause)
             ELSE UNCHANGED <<noPermit, failure>>
          /\ ref' = IF t # "IL" THEN ref
                    ELSE IF pc \in {"SA", "TS", "RN"} THEN "ABORTING"
                    ELSE IF pc = "AR" THEN "NONE" ELSE ref
          /\ UNCHANGED <<pc, time, standby, permit, blocked, vs, block, on, removed>>
    BY <1>1 DEF Fsm!SetState
  <2>2. force' \in BOOLEAN
    BY <2>1, Zenon
  <2>3. modePc' \in Fsm!Modes
    BY <2>1 DEF Fsm!ModeAskedFor, Fsm!Targets, Fsm!Modes
  <2>4. noPermit' \in BOOLEAN /\ failure' \in BOOLEAN
    <3>1. CASE t = "OF" /\ pc \in {"FO", "OF"}
      BY <2>1, <3>1, Zenon
    <3>2. CASE ~(t = "OF" /\ pc \in {"FO", "OF"})
      BY <2>1, <3>2 DEF FsmTypes
    <3> QED
      BY <3>1, <3>2
  <2>5. ref' \in {"NONE", "ABORTING", ref}
    BY <2>1
  <2> QED
    BY <2>1, <2>2, <2>3, <2>4, <2>5 DEF FsmTypes
<1>2. CASE Fsm!ProcessState
  BY <1>2, FsmProcess
<1>3. CASE Fsm!Permit
  <2>1. permit' \in BOOLEAN /\ removed' \in BOOLEAN
    BY <1>3, Zenon DEF Fsm!Permit
  <2> QED
    BY <1>3, <2>1 DEF Fsm!Permit, FsmTypes
<1>4. CASE Fsm!Fail
  BY <1>4 DEF Fsm!Fail, FsmTypes
<1>5. CASE Fsm!Obey
  <2>1. vs' \in BOOLEAN
    BY <1>5, Zenon DEF Fsm!Obey
  <2> QED
    BY <1>5, <2>1 DEF Fsm!Obey, FsmTypes
<1>6. CASE Fsm!Arm
  BY <1>6 DEF Fsm!Arm, FsmTypes
<1>7. CASE Fsm!FunctionEnds
  BY <1>7 DEF Fsm!FunctionEnds, FsmTypes
<1>8. CASE UNCHANGED Fsm!vars
  BY <1>8 DEF Fsm!vars, FsmTypes
<1> QED
  BY <1>1, <1>2, <1>3, <1>4, <1>5, <1>6, <1>7, <1>8 DEF Fsm!Next

\* Every variable keeps its type: among others, the requested mode is never
\* SLOW_ABORT, which PcFsmSetState turns into OFF, and no condition leads to a
\* state that does not exist.
THEOREM FsmTypeCorrect == ASSUME Settle \in Nat \ {0} PROVE Fsm!Spec => []Fsm!FsmTypeOK
<1>1. FsmTypes => Fsm!FsmTypeOK
  BY DEF FsmTypes, Fsm!FsmTypeOK
<1> QED
  BY <1>1, FsmInit, FsmStep, PTL DEF Fsm!Spec
====
