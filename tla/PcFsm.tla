---- MODULE PcFsm ----
(***************************************************************************)
(* The state machine of a power converter that libref is derived from      *)
(* (libref/resources/pc_fsm.c, pc_fsm_transitions.c, pc_fsm_states.c): the *)
(* operator's requests, validated by PcFsmSetState at any time, and        *)
(* PcFsmProcessState, called again and again, against a voltage source,    *)
(* interlocks and a DSP. States have the two letters the functions are     *)
(* named with.                                                             *)
(*                                                                         *)
(* The table of the transitions (fgc_pc_fsm_transitions.h) is not in the   *)
(* repository. The functions say in which states they are used; XXtoFS is  *)
(* tried first (pc_fsm_transitions.c:218), then XXtoSA and XXtoTS as in    *)
(* transitions_class.h; any order of the others is allowed. Logging is     *)
(* left out; ECONOMY is never entered (CYtoEC is FALSE). The timeouts of   *)
(* STARTING and CYCLING set faults that no condition tests; the hardware   *)
(* reports them as a power failure, which Fail may do at any time.         *)
(***************************************************************************)
EXTENDS Naturals

CONSTANTS
    DeviceCyc,   \* DEVICE_CYC: the device can cycle
    DevicePpm,   \* DEVICE_PPM
    Blockable,   \* vs.blockable
    Unipolar,    \* dpcls.dsp.unipolar_f
    HasSwitch,   \* there is a polarity switch, which may move
    Settle       \* calls after which sta.time_ms is past every settling time

ASSUME ClassAssumption  == {DeviceCyc, DevicePpm, Blockable, Unipolar, HasSwitch} \subseteq BOOLEAN
ASSUME SettleAssumption == Settle \in Nat \ {0}

\* Above SLOW_ABORT in the sense of PcStateAbove.
Above   == {"TS", "SB", "IL", "TC", "AR", "RN", "AB", "CY", "DT"}
States  == Above \cup {"FO", "OF", "FS", "SP", "ST", "SA", "BK", "PL"}
Modes   == {"OF", "BK", "SB", "IL", "CY", "DT"}
Targets == Modes \cup {"SA"}

VARIABLES
    pc,        \* STATE_PC
    time,      \* sta.time_ms: calls since the state was entered
    mode,      \* sta.mode_pc
    force,     \* sta.force_slow_abort_f
    standby,   \* sta.force_to_standby_f
    noPermit,  \* FGC_FLT_NO_PC_PERMIT is latched in FAULTS
    failure,   \* a power failure or fast abort is latched
    permit,    \* PC_PERMIT
    block, on, \* sta.cmd: the last of BLOCKING and UNBLOCK, of ON and OFF
    blocked,   \* OPBLOCKED
    vs,        \* VSPOWERON, VSREADY and VSRUN
    ref,       \* REF_FUNC_TYPE: "NONE", "ARMED", "RUNNING" or "ABORTING"
    removed    \* PC_PERMIT was missing since the converter was last off

soft == <<pc, time, mode, force, standby, noPermit>>
hard == <<permit, blocked, vs>>
vars == <<soft, failure, hard, block, on, ref, removed>>

Init ==
    /\ pc = "OF" /\ time = 0 /\ mode = "OF" /\ force = FALSE /\ standby = FALSE
    /\ noPermit = FALSE /\ failure = FALSE /\ permit = TRUE /\ removed = FALSE
    /\ block = TRUE /\ on = FALSE /\ blocked = TRUE /\ vs = FALSE /\ ref = "NONE"

----------------------------------------------------------------------------
(* PcFsmSetState                                                           *)

CheckNoPPMNoRef0 == DevicePpm \/ ref = "NONE"
CheckPCPermit    == permit

ValidateFO(t) == t = "OF"

\* RestartIfPossible for a target OFF, CheckPostMortemActive (pm: no
\* post-mortem is waited for) for the others.
ValidateOF(t, pm) ==
    \/ t = "OF"
    \/ t \in {"BK", "SB", "DT"} /\ pm
    \/ t = "IL" /\ CheckNoPPMNoRef0 /\ pm
    \/ t = "CY" /\ DeviceCyc /\ pm

ValidateSA(t) ==
    \/ t \in {"BK", "SB"} /\ CheckPCPermit
    \/ t = "IL" /\ CheckNoPPMNoRef0 /\ CheckPCPermit
    \/ t \in {"OF", "SA"}

ValidateSB(t, pm) ==
    \/ t \in {"BK", "IL", "DT"} /\ pm
    \/ t = "CY" /\ DeviceCyc /\ pm
    \/ t \in {"OF", "SA", "SB"}

\* Starting, blocking, to standby and direct.
ValidateRef0(t) == (t = "CY" => DeviceCyc) /\ (t = "IL" => CheckNoPPMNoRef0)

\* Idle, armed, running and aborting.
ValidateIL(t) == t = "CY" => DeviceCyc

ValidState(t, pm) ==
    \/ pc = "FO" /\ ValidateFO(t)
    \/ pc = "OF" /\ ValidateOF(t, pm)
    \/ pc = "SP" /\ t = "OF"
    \/ pc = "ST" /\ t # "SA" /\ (t = "IL" => CheckNoPPMNoRef0)
    \/ pc \in {"BK", "TS", "DT"} /\ ValidateRef0(t)
    \/ pc = "SA" /\ ValidateSA(t)
    \/ pc = "SB" /\ ValidateSB(t, pm)
    \/ pc \in {"IL", "AR", "RN", "AB"} /\ ValidateIL(t)
    \/ pc = "TC" /\ t # "IL"
    \/ pc = "CY"
    \/ pc = "PL" /\ t \in {"OF", "BK", "CY"}

\* PcFsmValidteState; access: the sector access interlock is active.
Validated(t, pm, access) ==
    /\ t = "BK" => Blockable
    /\ t \notin {"OF", "SA", "BK"} => ~access
    /\ ValidState(t, pm)

\* SLOW_ABORT is a way to OFF.
RequestKept(t) == t
ModeAskedFor(t) == IF t = "SA" THEN "OF" ELSE t

\* A request in OFF or FAULT_OFF resets the latched faults, unless there is
\* still a cause; IDLE has the DSP run an abort function, or disarms.
SetState ==
    \E t \in Targets, pm, access, cause \in BOOLEAN :
        /\ Validated(t, pm, access)
        /\ force' = (t = "SA" \/ (force /\ pc # "SA"))
        /\ mode' = ModeAskedFor(t)
        /\ IF t = "OF" /\ pc \in {"FO", "OF"}
           THEN noPermit' = FALSE /\ failure' = (failure /\ cause)
           ELSE UNCHANGED <<noPermit, failure>>
        /\ ref' = IF t # "IL" THEN ref
                  ELSE IF pc \in {"SA", "TS", "RN"} THEN "ABORTING"
                  ELSE IF pc = "AR" THEN "NONE" ELSE ref
        /\ UNCHANGED <<pc, time, standby, hard, block, on, removed>>

----------------------------------------------------------------------------
(* The conditions of the transitions                                       *)

Settled         == time >= Settle
DeviceBlocked   == ~Blockable \/ blocked
DeviceUnblocked == ~Blockable \/ ~blocked

FOtoOF == ~failure /\ ~noPermit
OFtoFO == failure \/ noPermit
OFtoST == mode # "OF"
FStoFO == ~vs
SPtoOF == ~vs /\ Settled
STtoBK == vs /\ DeviceBlocked
STtoSP == mode = "OF"
BKtoSP == mode = "OF"
BKtoTS == DeviceUnblocked /\ mode \in {"IL", "CY", "DT", "SB"}
SAtoBKForced == DeviceBlocked /\ mode = "OF" /\ ~force
SAtoBK == DeviceBlocked /\ ((mode = "OF" /\ ~force) \/ ref = "NONE")
SAtoTS == mode = "SB" /\ ~force
SAtoAB == mode = "IL" /\ ~force
TStoSB == ref = "NONE" /\ Settled
TStoAB(iMin) == mode = "IL" /\ (iMin \/ ~Unipolar)
SBtoIL == mode = "IL" /\ ~standby'
SBtoTC == mode = "CY" /\ ~standby'
ILtoTC == mode = "CY"
ILtoAR == ref = "ARMED"
TCtoIL == mode = "IL"
TCtoCY == mode = "CY" /\ Settled
ARtoIL == ref = "NONE"
ARtoRN == ref \notin {"ARMED", "NONE"}
RNtoIL == ref = "NONE"
RNtoAB == ref = "ABORTING"
ABtoTS(iMin) == ~iMin /\ Unipolar /\ ref = "NONE"
ABtoIL == mode = "IL" /\ ref = "NONE"
CYtoIL == mode = "IL"
PLtoOF(moving) == ~moving /\ mode = "OF"
PLtoBK(moving) == ~moving /\ mode = "BK"

XXtoFS == failure \/ noPermit
XXtoSA(f) == f \/ mode \in {"BK", "OF"}
XXtoTS == mode = "SB" \/ standby' \/ (pc = "DT" /\ mode \in {"IL", "CY"})
XXtoTC == mode = "CY"
XXtoDT == mode = "DT"

\* The transitions of a state that come after XXtoFS, XXtoSA and XXtoTS.
Others(iMin, moving) ==
    LET When(cond, to) == IF cond THEN {to} ELSE {}
    IN  CASE pc = "FO" -> When(FOtoOF, "OF")
          [] pc = "OF" -> When(OFtoFO, "FO") \cup When(~OFtoFO /\ OFtoST, "ST")
                              \cup When(~OFtoFO /\ moving, "PL")
          [] pc = "FS" -> When(FStoFO, "FO")
          [] pc = "SP" -> When(SPtoOF, "OF")
          [] pc = "ST" -> When(STtoBK, "BK") \cup When(STtoSP, "SP")
          [] pc = "BK" -> When(BKtoSP, "SP") \cup When(BKtoTS, "TS") \cup When(moving, "PL")
          [] pc = "SA" -> When(SAtoBK, "BK") \cup When(SAtoTS, "TS") \cup When(SAtoAB, "AB")
          [] pc = "TS" -> When(TStoSB, "SB") \cup When(TStoAB(iMin), "AB")
          [] pc = "SB" -> When(SBtoIL, "IL") \cup When(SBtoTC, "TC") \cup When(XXtoDT, "DT")
          [] pc = "IL" -> When(ILtoTC, "TC") \cup When(ILtoAR, "AR") \cup When(XXtoDT, "DT")
          [] pc = "TC" -> When(TCtoIL, "IL") \cup When(TCtoCY, "CY") \cup When(XXtoDT, "DT")
                              \cup When(moving, "PL")
          [] pc = "AR" -> When(ARtoIL, "IL") \cup When(ARtoRN, "RN") \cup When(XXtoTC, "TC")
                              \cup When(XXtoDT, "DT")
          [] pc = "RN" -> When(RNtoIL, "IL") \cup When(RNtoAB, "AB") \cup When(XXtoTC, "TC")
                              \cup When(XXtoDT, "DT")
          [] pc = "AB" -> When(ABtoTS(iMin), "TS") \cup When(ABtoIL, "IL") \cup When(XXtoTC, "TC")
                              \cup When(XXtoDT, "DT")
          [] pc = "CY" -> When(CYtoIL, "IL") \cup When(XXtoDT, "DT") \cup When(moving, "PL")
          [] pc = "PL" -> When(PLtoOF(moving), "OF") \cup When(PLtoBK(moving), "BK")
          [] pc = "DT" -> {}

\* The states a call may go to; f is force_slow_abort_f.
NextStates(f, iMin, moving) ==
    IF pc \notin {"FO", "OF", "FS", "SA"} /\ XXtoFS THEN {"FS"}
    ELSE IF pc \in Above /\ XXtoSA(f) THEN {"SA"}
    ELSE IF pc \in Above \ {"TS", "SB"} /\ XXtoTS THEN {"TS"}
    ELSE Others(iMin, moving)

----------------------------------------------------------------------------
(* PcFsmProcessState                                                       *)

\* The state functions, on entering s, or staying in it.
EnterState(s, f) ==
    /\ block' = (s \in {"OF", "SP"} \/ (s = "FS" /\ failure) \/ block)
    /\ on' = (s \notin {"OF", "SP"} /\ (s = "FS" => ~vs) /\ on)
    /\ noPermit' = (noPermit \/ (s = "BK" /\ mode # "OF" /\ f))
    /\ force' = (s # "BK" /\ f)
    /\ ref' = IF s \in {"SA", "TS"} THEN "RUNNING" ELSE IF s = "FS" THEN "NONE" ELSE ref

StayInState(f) ==
    /\ block' = CASE pc \in {"OF", "ST"} -> TRUE
                  [] pc = "SA" /\ Blockable /\ (~f \/ (Settled /\ ref = "NONE")) -> TRUE
                  [] pc = "BK" /\ mode # "OF" /\ mode # "BK" -> FALSE
                  [] OTHER -> block
    /\ on' = (pc # "OF" /\ (on \/ pc = "ST"))
    /\ noPermit' = (noPermit \/ (pc \in {"ST", "BK"} /\ ~permit))
    /\ force' = f /\ ref' = ref

\* The DSP asks to go to standby (req) for reasons of its own.
ToStandby(access, req) ==
    IF req /\ pc = "CY" THEN TRUE ELSE IF req /\ pc = "SB" THEN FALSE ELSE access

ForceSlowAbortIgnored == force
ForceSlowAbort == force \/ (~permit /\ pc \in Above)

ProcessState ==
    \E iMin, access, req \in BOOLEAN, moving \in {FALSE, HasSwitch} :
        LET f == ForceSlowAbort
            next == NextStates(f, iMin, moving)
        IN  /\ standby' = ToStandby(access, req)
            /\ IF next = {}
               THEN /\ StayInState(f) /\ pc' = pc
                    /\ time' = IF Settled THEN time ELSE time + 1
               ELSE /\ pc' \in next /\ time' = 0
                    /\ EnterState(pc', f)
            /\ removed' = (~permit \/ (removed /\ pc' # "OF"))
            /\ UNCHANGED <<mode, failure, hard>>

----------------------------------------------------------------------------
(* The hardware and the DSP                                                *)

Permit ==
    /\ permit' = ~permit /\ removed' = (removed \/ permit)
    /\ UNCHANGED <<soft, failure, blocked, vs, block, on, ref>>

Fail ==
    /\ ~failure /\ failure' = TRUE
    /\ UNCHANGED <<soft, hard, block, on, ref, removed>>

\* The power stage obeys; it cannot be switched on without PC_PERMIT, and a
\* failure switches it off (pc_fsm_states.c:140-149).
Obey ==
    /\ blocked' = block /\ vs' = (on /\ ~failure /\ (vs \/ permit))
    /\ UNCHANGED <<soft, failure, permit, block, on, ref, removed>>

\* A reference is armed in IDLE and then started; functions end.
Arm ==
    /\ \/ pc = "IL" /\ ref = "NONE" /\ ref' = "ARMED"
       \/ pc = "AR" /\ ref = "ARMED" /\ ref' = "RUNNING"
    /\ UNCHANGED <<soft, failure, hard, block, on, removed>>

FunctionEnds ==
    /\ ref \in {"RUNNING", "ABORTING"} /\ ref' = "NONE"
    /\ UNCHANGED <<soft, failure, hard, block, on, removed>>

Next == SetState \/ ProcessState \/ Permit \/ Fail \/ Obey \/ Arm \/ FunctionEnds

\* The state machine is run for ever, the power stage obeys and functions end.
Spec == Init /\ [][Next]_vars /\ WF_vars(ProcessState) /\ WF_vars(Obey) /\ SF_vars(FunctionEnds)

----------------------------------------------------------------------------
(* Properties                                                              *)

\* Types: among others, a request for SLOW_ABORT never stays in mode_pc.
FsmTypeOK ==
    /\ pc \in States /\ time \in 0 .. Settle /\ mode \in Modes
    /\ {force, standby, noPermit, failure, permit, block, on, blocked, vs, removed} \subseteq BOOLEAN
    /\ ref \in {"NONE", "ARMED", "RUNNING", "ABORTING"}

\* The operator asks for nothing more.
Quiet == <>[][~SetState]_vars

\* Without PC_PERMIT the converter does not stay above SLOW_ABORT, whatever
\* the operator asked for before (pc_fsm.c:407): the flag outlives the request.
NoPermitNoPower == Quiet /\ <>[]~permit => <>[](pc \notin Above)

\* A slow abort comes to an end, whether it was asked for or is forced, and
\* with or without the device being blocked on the way in.
SlowAbortEnds == Quiet => (pc = "SA" ~> pc # "SA")

\* "PC_PERMIT was removed at some point" (pc_fsm_states.c:292) when
\* NO_PC_PERMIT is latched.
PermitFaultTrue == noPermit => removed \/ pc \in {"OF", "FO"}
====
