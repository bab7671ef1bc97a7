---- MODULE StateClass ----
(***************************************************************************)
(* The state machine of the converter classes 51 and 53 that libref is     *)
(* derived from (libref/resources/state_class.c, transitions_class.c and   *)
(* the table in transitions_class.h), driven by flags: some are set by the *)
(* operator, some by the state functions for a transition to read at the   *)
(* next call.                                                              *)
(*                                                                         *)
(* The engine that scans the table (sta.c) is not in the repository, and   *)
(* the table says that it is read from the right, while faults are on the  *)
(* left: here any condition that is true may be the one taken. The voltage *)
(* source, the DSP and the operator are external. The calibration of the   *)
(* DAC, the post-mortem and what is reported are left out; a timeout in    *)
(* STARTING sets a fault no condition tests, unless it comes back as a     *)
(* power failure (Fail).                                                   *)
(***************************************************************************)
EXTENDS FiniteSets, Naturals

CONSTANTS
    Class,     \* FGC_CLASS_ID
    MaxAsked   \* bound: flags of the operator that are set at a time

ASSUME ClassAssumption == Class \in {51, 53}
ASSUME MaxAskedAssumption == MaxAsked \in Nat

\* sta.time_ms: SHORT is at most 200 ms, LONG more than 1 s.
Times  == {"SHORT", "LONG"}
States == {"FO", "OF", "FS", "SP", "ST", "SA", "TS", "SB", "IL", "TC", "AR", "RN", "AB", "CY"}
Flags  == {"START", "STOP", "IDLE", "TO_STANDBY", "SLOW_ABORT", "ABORTING", "TO_CYCLING",
           "CYCLING", "ARMED", "RUNNING"}
Inputs == {"PWRFAILURE", "INTLKSPARE", "VSRUN", "VSPOWERON"}
Refs   == {"NONE", "STARTING", "ARMED", "PLAYING", "ABORTING"}

VARIABLES
    pc,       \* STATE_PC
    time,     \* sta.time_ms
    flags,    \* sta.flags
    inputs,   \* sta.inputs; VSREADY follows VSPOWERON
    cmd,      \* the last of DDOP_CMD_ON and DDOP_CMD_OFF
    faults,   \* FAULTS is not empty
    first,    \* sta.first_faults is not empty
    log,      \* FGC_LAST_LOG.run_f
    ref,      \* REF_FUNC_TYPE
    asked     \* STAF_START was set by the operator since FAULT_OFF

staVars == <<pc, time, flags, inputs, cmd, faults, first, log, ref, asked>>

StaInit ==
    /\ pc = "OF" /\ time = "SHORT" /\ flags = {} /\ inputs = {} /\ cmd = "OFF"
    /\ faults = FALSE /\ first = FALSE /\ log = FALSE /\ ref = "NONE" /\ asked = FALSE

----------------------------------------------------------------------------
(* The transitions                                                         *)

Vs == {"VSRUN", "VSPOWERON"}
Failed == "PWRFAILURE" \in inputs \/ faults

Condition ==
    [OFtoFO |-> Failed,
     FOtoOF |-> ~Failed,
     STtoFS |-> Failed,
     XXtoFS |-> "PWRFAILURE" \in inputs \/ (faults /\ "VSPOWERON" \notin inputs),
     FStoFO |-> "VSPOWERON" \notin inputs /\ first,
     SPtoOF |-> "STOP" \notin flags /\ "VSPOWERON" \notin inputs,
     STtoSP |-> "STOP" \in flags \/ {"START", "VSRUN"} \cap (flags \cup inputs) = {},
     XXtoSP |-> "STOP" \in flags \/ ~(Vs \subseteq inputs),
     OFtoST |-> "START" \in flags,
     XXtoSA |-> "INTLKSPARE" \in inputs \/ "SLOW_ABORT" \in flags,
     STtoTS |-> "VSPOWERON" \in inputs,
     XXtoTS |-> "TO_STANDBY" \in flags /\ "CYCLING" \notin flags,
     TStoSB |-> "TO_STANDBY" \notin flags,
     TStoAB |-> "ABORTING" \in flags,
     SBtoIL |-> "IDLE" \in flags,
     ARtoIL |-> "IDLE" \in flags,
     RNtoIL |-> "RUNNING" \notin flags,
     ABtoIL |-> "ABORTING" \notin flags,
     SAtoAB |-> "ABORTING" \in flags,
     ILtoTC |-> "TO_CYCLING" \in flags,
     ILtoAR |-> "ARMED" \in flags,
     ARtoRN |-> "RUNNING" \in flags,
     RNtoAB |-> "ABORTING" \in flags,
     SBtoTC |-> "TO_CYCLING" \in flags,
     TCtoCY |-> "CYCLING" \in flags]

\* trans_FO .. trans_CY, with the state each goes to.
LeaveToFlag == {<<"XXtoFS", "FS">>, <<"XXtoSP", "STOP">>}
Leave == {<<"XXtoFS", "FS">>, <<"XXtoSP", "SP">>}
Drop  == Leave \cup {<<"XXtoSA", "SA">>}
Fall  == Drop \cup {<<"XXtoTS", "TS">>}

Transitions ==
    [FO |-> {<<"FOtoOF", "OF">>},
     OF |-> {<<"OFtoFO", "FO">>, <<"OFtoST", "ST">>},
     FS |-> {<<"FStoFO", "FO">>},
     SP |-> {<<"XXtoFS", "FS">>, <<"SPtoOF", "OF">>},
     ST |-> {<<"STtoFS", "FS">>, <<"STtoSP", "SP">>, <<"STtoTS", "TS">>},
     SA |-> Leave \cup {<<"SAtoAB", "AB">>},
     TS |-> Drop \cup {<<"TStoAB", "AB">>, <<"TStoSB", "SB">>},
     SB |-> Drop \cup {<<"SBtoIL", "IL">>, <<"SBtoTC", "TC">>},
     IL |-> Fall \cup {<<"ILtoAR", "AR">>, <<"ILtoTC", "TC">>},
     TC |-> Fall \cup {<<"TCtoCY", "CY">>},
     AR |-> Fall \cup {<<"ARtoIL", "IL">>, <<"ARtoRN", "RN">>},
     RN |-> Fall \cup {<<"RNtoIL", "IL">>, <<"RNtoAB", "AB">>},
     AB |-> Fall \cup {<<"ABtoIL", "IL">>},
     CY |-> Fall]

NextStates == {t[2] : t \in {u \in Transitions[pc] : Condition[u[1]]}}

----------------------------------------------------------------------------
(* The state functions: what a call with first_f (enter), or without, does *)
(* to the flags; t is the time in the state                                *)

FaultOffKeeping == {"SLOW_ABORT", "ABORTING", "TO_CYCLING"}
FaultOffClears  == {"START", "SLOW_ABORT", "ABORTING", "TO_CYCLING"}

SlowAbortKeeping == {"IDLE", "TO_CYCLING"}
SlowAbortClears  == {"IDLE", "TO_CYCLING", "SLOW_ABORT"}

EnterFlags(s) ==
    CASE s = "FO" -> flags \ FaultOffClears
      [] s = "SP" -> flags \cup {"STOP"}
      [] s = "ST" -> flags \ {"STOP"}
      [] s = "SA" -> flags \ SlowAbortClears
      [] s = "TS" -> (flags \cup {"TO_STANDBY"}) \ {"ABORTING"}
      [] s = "SB" -> flags \ {"TO_STANDBY", "TO_CYCLING"}
      [] s = "IL" -> flags \ {"IDLE", "TO_STANDBY", "ARMED", "RUNNING", "ABORTING"}
      [] s = "CY" /\ Class = 53 -> flags \ {"TO_CYCLING"}
      [] s = "RN" -> flags \ {"ARMED"}
      [] s = "AB" -> flags \ {"RUNNING", "TO_STANDBY"}
      [] OTHER -> flags

\* What the function of s does to the flags f at every call, the first included.
EveryCall(s, f, t) ==
    CASE s = "AR" -> f \cup (IF ref = "NONE" THEN {"IDLE"} ELSE IF ref # "ARMED" THEN {"RUNNING"} ELSE {})
      [] s = "RN" -> IF ref = "ABORTING" THEN f \cup {"ABORTING"}
                     ELSE IF ref = "NONE" THEN f \ {"RUNNING"} ELSE f
      [] s = "AB" -> IF ref = "NONE" THEN f \ {"ABORTING"} ELSE f
      [] s = "TC" -> IF t = "LONG" THEN f \cup {"CYCLING"} ELSE f
      [] s = "CY" /\ Class = 53 -> IF "TO_STANDBY" \in f /\ ref = "NONE" THEN f \ {"CYCLING"} ELSE f
      [] OTHER -> f

\* What it only does while the state lasts; iMin: I >= IMIN.
Staying(s, f, iMin, calibrating) ==
    CASE s = "IL" /\ ref = "ARMED" -> f \cup {"ARMED"}
      [] s = "TS" /\ time = "LONG" /\ (ref = "NONE" \/ (iMin /\ "IDLE" \in f /\ ref # "STARTING"))
             -> f \ {"TO_STANDBY"}
      [] s = "ST" /\ ~calibrating /\ "VSRUN" \notin inputs -> f \ {"START"}
      [] OTHER -> f

StopNow(t) == t = "LONG" /\ "VSRUN" \in inputs /\ ref = "NONE"

\* The command and the end of the logging that STOPPING waits for.
Stopping(t, f) ==
    /\ cmd' = IF StopNow(t) THEN "OFF" ELSE cmd
    /\ LET stop == log /\ ("VSRUN" \notin inputs \/ cmd' = "OFF")
       IN  /\ log' = (log /\ ~stop)
           /\ flags' = IF stop THEN f \ {"STOP"} ELSE f

\* The first call in s. The DSP plays a reference of its own in some states;
\* the logs are started when OFF is left.
Enter(s) ==
    LET f == EveryCall(s, EnterFlags(s), "SHORT")
    IN  /\ pc' = s /\ time' = "SHORT"
        /\ IF s = "SP" THEN Stopping("SHORT", f)
           ELSE /\ flags' = f
                /\ cmd' = IF s = "FS" /\ "VSRUN" \in inputs THEN "OFF" ELSE cmd
                /\ log' = (s = "ST" \/ log)
        /\ first' = IF s = "FS" THEN first \/ faults ELSE s # "ST" /\ first
        /\ ref' = CASE s = "TS" -> IF pc = "ST" THEN "STARTING" ELSE "PLAYING"
                    [] s \in {"SA", "SP", "CY"} -> "PLAYING"
                    [] s \in {"AB"} -> "ABORTING"
                    [] s \in {"FS", "IL", "SB"} -> "NONE"
                    [] OTHER -> ref
        /\ asked' = (s # "FO" /\ asked)

Stay(iMin, calibrating) ==
    LET f == EveryCall(pc, Staying(pc, flags, iMin, calibrating), time)
    IN  /\ time' = IF pc = "SP" /\ StopNow(time) THEN "SHORT" ELSE "LONG"
        /\ IF pc = "SP" THEN Stopping(time, f)
           ELSE /\ flags' = f /\ log' = log
                /\ cmd' = IF pc = "ST" /\ ~calibrating /\ "VSRUN" \notin inputs THEN "ON"
                          ELSE IF pc = "SA" /\ time = "LONG" /\ ref = "NONE" THEN "OFF" ELSE cmd
        /\ first' = (first \/ (pc = "FS" /\ faults))
        /\ UNCHANGED <<pc, ref, asked>>

Process ==
    /\ IF NextStates = {} THEN \E iMin, calibrating \in BOOLEAN : Stay(iMin, calibrating)
       ELSE \E s \in NextStates : Enter(s)
    /\ UNCHANGED <<inputs, faults>>

----------------------------------------------------------------------------
(* The operator, the DSP and the hardware                                  *)

Orders == {"STOP", "IDLE", "TO_STANDBY", "SLOW_ABORT", "ABORTING"}
              \cup (IF Class = 53 THEN {"TO_CYCLING"} ELSE {})

\* START is only accepted in OFF, and no request while the converter is off.
Request ==
    /\ IF pc = "OF" THEN flags' = flags \cup {"START"} /\ asked' = TRUE
       ELSE /\ pc \notin {"FO", "FS", "SP"} /\ asked' = asked
            /\ Cardinality(flags \cap Orders) < MaxAsked
            /\ \E f \in Orders : flags' = flags \cup {f}
    /\ UNCHANGED <<pc, time, inputs, cmd, faults, first, log, ref>>

\* A reference is armed in IDLE, or disarmed; an armed one starts.
Arm ==
    /\ \/ pc = "IL" /\ ref = "NONE" /\ ref' = "ARMED"
       \/ pc \in {"IL", "AR"} /\ ref = "ARMED" /\ ref' \in {"NONE", "PLAYING"}
       \/ pc = "RN" /\ ref = "PLAYING" /\ ref' = "ABORTING"
    /\ UNCHANGED <<pc, time, flags, inputs, cmd, faults, first, log, asked>>

FunctionEnds ==
    /\ ref \in {"STARTING", "PLAYING", "ABORTING"}
    /\ ref' = IF ref = "STARTING" THEN "PLAYING" ELSE "NONE"
    /\ UNCHANGED <<pc, time, flags, inputs, cmd, faults, first, log, asked>>

\* The voltage source follows the command, and stops on a failure.
Obey ==
    /\ inputs' = IF cmd = "ON" /\ "PWRFAILURE" \notin inputs THEN inputs \cup Vs ELSE inputs \ Vs
    /\ UNCHANGED <<pc, time, flags, cmd, faults, first, log, ref, asked>>

Fail ==
    /\ "PWRFAILURE" \notin inputs /\ inputs' = inputs \cup {"PWRFAILURE"} /\ faults' = TRUE
    /\ UNCHANGED <<pc, time, flags, cmd, first, log, ref, asked>>

Interlock ==
    /\ inputs' = (inputs \ {"INTLKSPARE"}) \cup ({"INTLKSPARE"} \ inputs)
    /\ UNCHANGED <<pc, time, flags, cmd, faults, first, log, ref, asked>>

Reset ==
    /\ pc \in {"FO", "OF"} /\ faults /\ faults' = FALSE /\ inputs' = inputs \ {"PWRFAILURE"}
    /\ UNCHANGED <<pc, time, flags, cmd, first, log, ref, asked>>

Outside == Request \/ Arm \/ Fail \/ Interlock \/ Reset

StaNext == Process \/ Request \/ Arm \/ FunctionEnds \/ Obey \/ Fail \/ Interlock \/ Reset

StaSpec ==
    StaInit /\ [][StaNext]_staVars /\ WF_staVars(Process) /\ WF_staVars(Obey) /\ WF_staVars(FunctionEnds)

----------------------------------------------------------------------------
(* Properties                                                              *)

\* Types.
StaTypeOK ==
    /\ pc \in States /\ time \in Times /\ flags \subseteq Flags /\ inputs \subseteq Inputs
    /\ cmd \in {"ON", "OFF"} /\ ref \in Refs /\ {faults, first, log, asked} \subseteq BOOLEAN

\* After a fault the converter starts only when the operator asked again.
NoSelfRestart == [][pc = "OF" /\ pc' = "ST" => asked]_staVars

\* Nothing happens outside any more.
Quiet == <>[][~Outside]_staVars

\* "to avoid toggling between states AB <--> TS" (state_class.c:271, :375):
\* it ends in one state. Not while the spare interlock is active: with
\* STAF_ABORTING set each call goes from SLOW_ABORT to ABORTING or back, before
\* StateAB has had a call to clear the flag.
Settles == Quiet /\ <>[]("INTLKSPARE" \notin inputs) => <>[][pc' = pc]_staVars

====
