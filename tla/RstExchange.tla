---- MODULE RstExchange ----
(***************************************************************************)
(* The exchange of RST parameters in libreg/src/regMgr.c between           *)
(*   - the background thread, which runs regMgrPars: it goes through the   *)
(*     RST groups whose parameters changed, waits until the previous set   *)
(*     of that group was accepted, computes the new set in place and       *)
(*     raises is_next_ready;                                               *)
(*   - the real-time thread, which runs regMgrMeasSetRT once an iteration: *)
(*     it swaps the next and active pointers of each set that is ready,    *)
(*     lowers the flag, binds rst_pars, and regulates with it.             *)
(* Each step below is one access to the memory the two threads share, so   *)
(* every interleaving of the two is explored.                              *)
(*                                                                         *)
(* A slot is one struct REG_mgr_rst_pars: a signal (current i or field b)  *)
(* with its operational or its test parameters.                            *)
(***************************************************************************)
EXTENDS Naturals

CONSTANTS
    Signals,      \* the signals modelled: a subset of {"i", "b"}
    Regulated,    \* the signals whose regulation option is REG_ENABLED
    Actuation,    \* PC ACTUATION: "CURRENT_REF", or "VOLTAGE_REF" for VOLTAGE_REF and FIRING_REF
    Periods,      \* values of IREG/BREG PERIOD_ITERS
    CanFault,     \* whether regRstInit may return REG_FAULT
    Reload,       \* TRUE: the wait loop reads is_next_ready every time round
    MaxCalls      \* bound: calls of regMgrPars

ASSUME SignalsAssumption   == Signals \subseteq {"i", "b"} /\ Signals # {} /\ Regulated \subseteq Signals
ASSUME ActuationAssumption == Actuation \in {"CURRENT_REF", "VOLTAGE_REF"}
ASSUME PeriodsAssumption   == Periods \subseteq Nat \ {0} /\ Periods # {}
ASSUME FlagsAssumption     == CanFault \in BOOLEAN /\ Reload \in BOOLEAN
ASSUME MaxCallsAssumption  == MaxCalls \in Nat \ {0}

Sources == {"op", "test"}
Slots   == Signals \X Sources
Idx     == {0, 1}

VARIABLES
    \* struct REG_mgr_rst_pars, for each slot
    pars,        \* pars[s][k]: the structure pars[k]
    next,        \* next[s]: the index the next pointer points to
    active,      \* active[s]: the index the active pointer points to
    ready,       \* ready[s]: is_next_ready
    \* struct REG_mgr_signal and struct REG_mgr
    last,        \* last[s]: last_op_rst_pars or last_test_rst_pars
    period,      \* period[g]: reg_period_iters of signal g
    use,         \* use[g]: rst_pars of signal g, as the slot's source and index
    mode,        \* reg_mode: "NONE" or the signal that is regulated
    \* the background thread
    bgpc, todo, slot, dst, call, newPeriod,
    \* the real-time thread
    rtpc, rtTodo, cur, tmp, rstSource

shared == <<pars, next, active, ready, last, period, use, mode>>
bg     == <<bgpc, todo, slot, dst, call, newPeriod>>
rt     == <<rtpc, rtTodo, cur, tmp, rstSource>>
vars   == <<shared, bg, rt>>

(***************************************************************************)
(* A struct REG_rst_pars: the call that computed it, the period it is for, *)
(* and its status. UNSET is the zeroed structure of start-up, TORN one     *)
(* that regRstInit is writing.                                             *)
(***************************************************************************)
Structs == [ver : Nat, period : Nat, status : {"UNSET", "TORN", "OK", "FAULT"}]
Unset   == [ver |-> 0, period |-> 0, status |-> "UNSET"]

\* The order in which regMgrParsWithMask tests the groups: IREG, BREG, IREG_TEST, BREG_TEST.
GroupRank(s) == (IF s[2] = "op" THEN 0 ELSE 2) + (IF s[1] = "i" THEN 0 ELSE 1)

\* The order in which regMgrMeasSetRT prepares the signals: field, then current.
SignalRank(g) == IF g = "b" THEN 0 ELSE 1

AnySlot == CHOOSE s \in Slots : TRUE   \* a local not yet assigned

\* regMgrInit has set up the structures, and regMgrSimInit, the first call,
\* is about to initialise every group (mask 0xFFFFFFFF).
Init ==
    /\ pars   = [s \in Slots |-> [k \in Idx |-> Unset]]
    /\ next   = [s \in Slots |-> 0]
    /\ active = [s \in Slots |-> 1]
    /\ ready  = [s \in Slots |-> FALSE]
    /\ last   = [s \in Slots |-> Unset]
    /\ period = [g \in Signals |-> 0]
    /\ use    = [g \in Signals |-> <<"op", 1>>]
    /\ mode   = "NONE"
    /\ bgpc = "groups" /\ todo = Slots /\ slot = AnySlot /\ dst = 0 /\ call = 1
    /\ newPeriod \in [Signals -> Periods]
    /\ rtpc = "idle" /\ rtTodo = {} /\ cur = AnySlot /\ tmp = 0 /\ rstSource = "op"

----------------------------------------------------------------------------
(* The background thread                                                   *)

\* regMgrPars: the scan finds changes in the parameters of the groups G. A
\* period is accepted only while reg_mode is NONE (MODE_NONE_ONLY), and a
\* changed period concerns at least the operational group of its signal.
RegMgrPars(G, p) ==
    /\ bgpc = "idle"
    /\ call < MaxCalls
    /\ mode = "NONE" \/ p = period
    /\ \A g \in Signals : p[g] # period[g] => <<g, "op">> \in G
    /\ bgpc' = "groups"
    /\ todo' = G
    /\ newPeriod' = p
    /\ call' = call + 1
    /\ UNCHANGED <<shared, slot, dst, rt>>

\* regMgrPars returns. regMgrSimInit goes on to call regMgrSignalPrepareRT itself.
RegMgrParsReturn ==
    /\ bgpc = "groups"
    /\ todo = {}
    /\ bgpc' = IF call = 1 THEN "prepare" ELSE "idle"
    /\ slot' = AnySlot
    /\ UNCHANGED <<shared, todo, dst, call, newPeriod, rt>>

\* The next group to initialise is that of slot s.
NextGroup(s) ==
    /\ bgpc = "groups"
    /\ s \in todo
    /\ \A t \in todo : GroupRank(s) <= GroupRank(t)

\* MUTANT: the wait for the previous set is left out.
WaitAcceptedNoWait(s) ==
    /\ NextGroup(s)
    /\ slot' = s
    /\ bgpc' = "init"
    /\ UNCHANGED <<shared, todo, dst, call, newPeriod, rt>>

\* while(is_next_ready == true);
WaitAccepted(s) ==
    /\ NextGroup(s)
    /\ ~ready[s]
    /\ slot' = s
    /\ bgpc' = "init"
    /\ UNCHANGED <<shared, todo, dst, call, newPeriod, rt>>

\* is_next_ready is not volatile and is written by the other thread without
\* synchronisation: the build may read it once, before the loop, and a loop
\* entered with the flag up then never ends.
WaitForEver(s) ==
    /\ NextGroup(s)
    /\ ready[s]
    /\ ~Reload
    /\ bgpc' = "stuck"
    /\ UNCHANGED <<shared, todo, slot, dst, call, newPeriod, rt>>

\* The head of regMgrRstInit: the pointer to the next structure is saved,
\* the periods of the signal are set, and the structure starts to be written
\* unless regulation of the signal is disabled.
RstInitBegin ==
    /\ bgpc = "init"
    /\ period' = [period EXCEPT ![slot[1]] = newPeriod[slot[1]]]
    /\ \/ /\ Actuation = "CURRENT_REF" \/ slot[1] \in Regulated
          /\ dst' = next[slot]
          /\ pars' = [pars EXCEPT ![slot][dst'].status = "TORN"]
          /\ bgpc' = "fill"
          /\ UNCHANGED todo
       \/ /\ Actuation # "CURRENT_REF" /\ slot[1] \notin Regulated
          /\ todo' = todo \ {slot}
          /\ bgpc' = "groups"
          /\ dst' = 0
          /\ UNCHANGED pars
    /\ UNCHANGED <<next, active, ready, last, use, mode, slot, call, newPeriod, rt>>

\* MUTANT: is_next_ready is raised whatever regRstInit returned.
RstInitEndPublishFault(status) ==
    /\ bgpc = "fill"
    /\ status = "FAULT" => CanFault /\ Actuation # "CURRENT_REF"
    /\ pars' = [pars EXCEPT ![slot][dst] =
                  [ver |-> call, period |-> newPeriod[slot[1]], status |-> status]]
    /\ bgpc' = "publish"
    /\ UNCHANGED <<next, active, ready, last, period, use, mode,
                   todo, slot, dst, call, newPeriod, rt>>

\* The structure is complete; with CURRENT_REF its status is always REG_OK.
RstInitEnd(status) ==
    /\ bgpc = "fill"
    /\ status = "FAULT" => CanFault /\ Actuation # "CURRENT_REF"
    /\ pars' = [pars EXCEPT ![slot][dst] =
                  [ver |-> call, period |-> newPeriod[slot[1]], status |-> status]]
    /\ bgpc' = IF status = "FAULT" THEN "copy" ELSE "publish"
    /\ UNCHANGED <<next, active, ready, last, period, use, mode,
                   todo, slot, dst, call, newPeriod, rt>>

\* is_next_ready = true
Publish ==
    /\ bgpc = "publish"
    /\ ready' = [ready EXCEPT ![slot] = TRUE]
    /\ bgpc' = "copy"
    /\ UNCHANGED <<pars, next, active, last, period, use, mode,
                   todo, slot, dst, call, newPeriod, rt>>

\* MUTANT: the copy is taken through the next pointer, which may have moved.
CopyLastThroughNext ==
    /\ bgpc = "copy"
    /\ last' = [last EXCEPT ![slot] = pars[slot][next[slot]]]
    /\ todo' = todo \ {slot}
    /\ dst' = 0
    /\ bgpc' = "groups"
    /\ UNCHANGED <<pars, next, active, ready, period, use, mode,
                   slot, call, newPeriod, rt>>

\* *reg_signal_last_rst_pars = *rst_pars, through the saved pointer
CopyLast ==
    /\ bgpc = "copy"
    /\ last' = [last EXCEPT ![slot] = pars[slot][dst]]
    /\ todo' = todo \ {slot}
    /\ dst' = 0                                  \* out of scope
    /\ bgpc' = "groups"
    /\ UNCHANGED <<pars, next, active, ready, period, use, mode,
                   slot, call, newPeriod, rt>>

BgStep ==
    \/ RegMgrParsReturn
    \/ \E s \in Slots : WaitAccepted(s) \/ WaitForEver(s)
    \/ RstInitBegin
    \/ \E status \in {"OK", "FAULT"} : RstInitEnd(status)
    \/ Publish
    \/ CopyLast

----------------------------------------------------------------------------
(* The real-time thread                                                    *)

\* regMgrMeasSetRT starts an iteration with the RST source of its caller. The
\* first comes after regMgrSimInit (in ccrt the timer expires a second after it
\* is created), whose own preparation of the signals, with the source set by
\* regMgrInit, stands before it.
RtBegin(source) ==
    /\ rtpc = "idle"
    /\ call > 1 \/ bgpc = "idle" \/ (bgpc = "prepare" /\ source = "op")
    /\ rstSource' = source
    /\ rtTodo' = Signals
    /\ rtpc' = "signal"
    /\ UNCHANGED <<shared, bg, cur, tmp>>

\* regMgrSignalPrepareRT does nothing for a signal that is not regulated.
RtSignal(g) ==
    /\ rtpc = "signal"
    /\ g \in rtTodo
    /\ \A h \in rtTodo : SignalRank(g) <= SignalRank(h)
    /\ \/ /\ g \in Regulated
          /\ cur' = <<g, "op">>
          /\ rtpc' = "check"
          /\ UNCHANGED rtTodo
       \/ /\ g \notin Regulated
          /\ rtTodo' = rtTodo \ {g}
          /\ UNCHANGED <<cur, rtpc>>
    /\ UNCHANGED <<shared, bg, tmp, rstSource>>

\* After the operational slot of a signal comes its test slot, then the binding.
NextSlot ==
    /\ cur'  = IF cur[2] = "op" THEN <<cur[1], "test">> ELSE cur
    /\ rtpc' = IF cur[2] = "op" THEN "check" ELSE "bind"

\* MUTANT: the flag is lowered before the pointers are swapped.
RtCheckClearFirst ==
    /\ rtpc = "check"
    /\ IF ready[cur] THEN rtpc' = "take" /\ UNCHANGED cur ELSE NextSlot
    /\ ready' = [ready EXCEPT ![cur] = FALSE]
    /\ UNCHANGED <<pars, next, active, last, period, use, mode, bg, rtTodo, tmp, rstSource>>

\* MUTANT: only the set of the current RST source is checked.
RtCheckSourceOnly ==
    /\ rtpc = "check"
    /\ IF ready[cur] /\ cur[2] = rstSource THEN rtpc' = "take" /\ UNCHANGED cur ELSE NextSlot
    /\ UNCHANGED <<shared, bg, rtTodo, tmp, rstSource>>

RtCheck ==
    /\ rtpc = "check"
    /\ IF ready[cur] THEN rtpc' = "take" /\ UNCHANGED cur ELSE NextSlot
    /\ UNCHANGED <<shared, bg, rtTodo, tmp, rstSource>>

\* rst_pars = next; next = active
RtTake ==
    /\ rtpc = "take"
    /\ tmp' = next[cur]
    /\ next' = [next EXCEPT ![cur] = active[cur]]
    /\ rtpc' = "install"
    /\ UNCHANGED <<pars, active, ready, last, period, use, mode, bg, rtTodo, cur, rstSource>>

\* MUTANT: the active pointer is not moved.
RtInstallNothing ==
    /\ rtpc = "install"
    /\ rtpc' = "clear"
    /\ UNCHANGED <<shared, bg, rtTodo, cur, tmp, rstSource>>

\* active = rst_pars
RtInstall ==
    /\ rtpc = "install"
    /\ active' = [active EXCEPT ![cur] = tmp]
    /\ rtpc' = "clear"
    /\ UNCHANGED <<pars, next, ready, last, period, use, mode, bg, rtTodo, cur, tmp, rstSource>>

\* MUTANT: the flag stays up.
RtClearNothing ==
    /\ rtpc = "clear"
    /\ tmp' = 0
    /\ NextSlot
    /\ UNCHANGED <<shared, bg, rtTodo, rstSource>>

\* is_next_ready = false
RtClear ==
    /\ rtpc = "clear"
    /\ ready' = [ready EXCEPT ![cur] = FALSE]
    /\ tmp' = 0                                  \* out of scope
    /\ NextSlot
    /\ UNCHANGED <<pars, next, active, last, period, use, mode, bg, rtTodo, rstSource>>

\* rst_pars of the signal points to the active structure of the RST source
RtBind ==
    /\ rtpc = "bind"
    /\ use' = [use EXCEPT ![cur[1]] = <<rstSource, active[<<cur[1], rstSource>>]>>]
    /\ rtTodo' = rtTodo \ {cur[1]}
    /\ rtpc' = "signal"
    /\ UNCHANGED <<pars, next, active, ready, last, period, mode, bg, cur, tmp, rstSource>>

\* The rest of the iteration uses rst_pars of the signals. In regMgrSimInit
\* the preparation is the whole of it, and it returns.
RtRun ==
    /\ rtpc = "signal"
    /\ rtTodo = {}
    /\ rtpc' = IF bgpc = "prepare" THEN "idle" ELSE "run"
    /\ bgpc' = IF bgpc = "prepare" THEN "idle" ELSE bgpc
    /\ cur' = AnySlot
    /\ UNCHANGED <<shared, todo, slot, dst, call, newPeriod, rtTodo, tmp, rstSource>>

\* regMgrModeSetRT, called by the real-time thread within an iteration
ModeSetRT(m) ==
    /\ rtpc = "run"
    /\ m # mode
    /\ mode' = m
    /\ UNCHANGED <<pars, next, active, ready, last, period, use, bg, rt>>

RtEnd ==
    /\ rtpc = "run"
    /\ rtpc' = "idle"
    /\ UNCHANGED <<shared, bg, rtTodo, cur, tmp, rstSource>>

RtStep ==
    \/ \E source \in Sources : RtBegin(source)
    \/ \E g \in Signals : RtSignal(g)
    \/ RtCheck \/ RtTake \/ RtInstall \/ RtClear \/ RtBind \/ RtRun \/ RtEnd

----------------------------------------------------------------------------

Next ==
    \/ \E G \in SUBSET Slots, p \in [Signals -> Periods] : RegMgrPars(G, p)
    \/ BgStep
    \/ RtStep
    \/ \E m \in {"NONE"} \cup Regulated : ModeSetRT(m)

Spec == Init /\ [][Next]_vars

\* The background thread runs on while it can, and the real-time thread is
\* started every iteration period. Nothing obliges the application to call
\* regMgrPars or to change the mode.
FairSpec == Spec /\ WF_vars(BgStep) /\ WF_vars(RtStep)

----------------------------------------------------------------------------
(* Properties                                                              *)

\* The pointers point to one of the two structures of their slot, the mode is
\* one of a regulated signal, and a scan finds only groups that exist.
TypeOK ==
    /\ pars \in [Slots -> [Idx -> Structs]]
    /\ next \in [Slots -> Idx] /\ active \in [Slots -> Idx]
    /\ ready \in [Slots -> BOOLEAN]
    /\ last \in [Slots -> Structs]
    /\ period \in [Signals -> Periods \cup {0}]
    /\ use \in [Signals -> Sources \X Idx]
    /\ mode \in {"NONE"} \cup Regulated
    /\ bgpc \in {"idle", "groups", "stuck", "init", "fill", "publish", "copy", "prepare"}
    /\ todo \subseteq Slots /\ slot \in Slots /\ dst \in Idx /\ call \in Nat
    /\ newPeriod \in [Signals -> Periods]
    /\ rtpc \in {"idle", "signal", "check", "take", "install", "clear", "bind", "run"}
    /\ rtTodo \subseteq Signals /\ cur \in Slots /\ tmp \in Idx /\ rstSource \in Sources

UsedSlot(g) == <<g, use[g][1]>>
Used(g)     == pars[UsedSlot(g)][use[g][2]]

\* The real-time thread is within the part of an iteration that uses rst_pars.
Using(g) == g \in Regulated /\ rtpc = "run"

\* While the real-time thread regulates with a structure, the background
\* thread is not writing it, although the two may overlap anywhere: what
\* rst_pars points to is whole, or has never been initialised.
NoTornUse == \A g \in Signals : Using(g) => Used(g).status \in {"OK", "UNSET"}

\* The same over time: what an iteration works with does not change under it
\* (regMgrRstInit writes into next, regMgrSignalPrepareRT swaps only at the
\* head of an iteration).
UsedParsStable == [][\A g \in Signals : Using(g) => Used(g)' = Used(g)]_vars

\* Parameters regRstInit rejected, or is still writing, are never made active, and
\* the pointers point to one of the two structures of their slot.
ActiveValid == TypeOK /\ \A s \in Slots : pars[s][active[s]].status \in {"OK", "UNSET"}

\* When regMgrPars has returned, the copy kept for debugging is the set the
\* background thread computed last, whether or not it was accepted meanwhile.
LastParsMatch ==
    bgpc = "idle" =>
        \A s \in Slots : \E k \in Idx :
            /\ last[s] = pars[s][k]
            /\ pars[s][1 - k].ver <= pars[s][k].ver

\* The operational and test parameters of a signal share one period: the set
\* a signal is regulated with was computed for the period its iteration
\* counter wraps at (comment in regMgrRstInit).
OnePeriod ==
    \A g \in Signals : Using(g) /\ mode = g /\ Used(g).status = "OK" =>
        Used(g).period = period[g]

\* regMgrPars returns: the wait for the previous set ends, in about one
\* iteration period (comment in regMgrParsWithMask).
ParsReturns == bgpc # "idle" ~> bgpc = "idle"

(***************************************************************************)
(* The exchange implements the mailbox of ParHandover. A set is in the box *)
(* from the moment the flag goes up until the active pointer is moved to   *)
(* it; between the two writes of the swap the real-time thread's own       *)
(* pointer is the only one to it.                                          *)
(***************************************************************************)
Swapping(s, pc) == rtpc = pc /\ cur = s

Posted(s) ==
    IF ~ready[s] \/ Swapping(s, "clear") THEN {}
    ELSE {pars[s][IF Swapping(s, "install") THEN tmp ELSE next[s]].ver}

Handover == INSTANCE ParHandover WITH
    Versions <- 0 .. MaxCalls,
    box      <- [s \in Slots |-> Posted(s)],
    inUse    <- [s \in Slots |-> pars[s][active[s]].ver]

\* Nothing published is lost, overwritten before it is accepted, accepted
\* twice or accepted out of order, and all of it is accepted in the end.
HandsOver     == Handover!HSpec
HandsOverFair == Handover!HFairSpec

====
