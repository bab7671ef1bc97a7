---- MODULE RstExchangeProofs ----
(***************************************************************************)
(* Proofs about RstExchange, for any signals, any set of regulated ones,   *)
(* either actuation, any periods, any number of calls, with or without     *)
(* faults, and whether or not the build reloads the flag.                  *)
(***************************************************************************)
EXTENDS RstExchange, TLAPS

USE SignalsAssumption, ActuationAssumption, PeriodsAssumption, FlagsAssumption, MaxCallsAssumption
    DEF SignalsAssumption, ActuationAssumption, PeriodsAssumption, FlagsAssumption, MaxCallsAssumption

\* There is a slot, since there is a signal: the locals have a value from the start.
LEMMA AnySlotType == AnySlot \in Slots
<1>1. PICK g \in Signals : TRUE
  OBVIOUS
<1>2. <<g, "op">> \in Slots
  BY DEF Slots, Sources
<1> QED
  BY <1>2 DEF AnySlot

\* The pointers and locals regMgrInit sets up have their types.
LEMMA InitTypeOK == Init => TypeOK
  BY AnySlotType DEF Init, TypeOK, Slots, Sources, Idx, Unset, Structs

\* No step of either thread takes a variable out of its type.
LEMMA NextTypeOK == TypeOK /\ [Next]_vars => TypeOK'
<1> SUFFICES ASSUME TypeOK, [Next]_vars PROVE TypeOK'
  OBVIOUS
<1> USE AnySlotType DEF TypeOK
<1>1. ASSUME NEW G \in SUBSET Slots, NEW p \in [Signals -> Periods], RegMgrPars(G, p) PROVE TypeOK'
  BY <1>1 DEF RegMgrPars, shared, rt
<1>2. CASE RegMgrParsReturn
  BY <1>2 DEF RegMgrParsReturn, shared, rt
<1>3. ASSUME NEW s \in Slots, WaitAccepted(s) \/ WaitForEver(s) PROVE TypeOK'
  BY <1>3 DEF WaitAccepted, WaitForEver, NextGroup, shared, rt
<1>4. CASE RstInitBegin
  <2>1. pars' \in [Slots -> [Idx -> Structs]]
    <3>1. next[slot] \in Idx /\ pars[slot] \in [Idx -> Structs] /\ pars[slot][next[slot]] \in Structs
      OBVIOUS
    <3>2. [pars[slot][next[slot]] EXCEPT !.status = "TORN"] \in Structs
      BY <3>1 DEF Structs
    <3>3. [pars[slot] EXCEPT ![next[slot]].status = "TORN"] \in [Idx -> Structs]
      BY <3>1, <3>2
    <3>4. CASE pars' = pars
      BY <3>4
    <3>5. CASE pars' = [pars EXCEPT ![slot][next[slot]].status = "TORN"]
      BY <3>3, <3>5
    <3> QED BY <1>4, <3>4, <3>5 DEF RstInitBegin
  <2>2. period' \in [Signals -> Periods \cup {0}]
    BY <1>4 DEF RstInitBegin, Slots
  <2> QED BY <1>4, <2>1, <2>2 DEF RstInitBegin, rt, Idx
<1>5. ASSUME NEW status \in {"OK", "FAULT"}, RstInitEnd(status) PROVE TypeOK'
  <2>1. newPeriod[slot[1]] \in Nat
    BY DEF Slots
  <2>2. pars' \in [Slots -> [Idx -> Structs]]
    BY <1>5, <2>1 DEF RstInitEnd, Structs, Idx
  <2> QED BY <1>5, <2>2 DEF RstInitEnd, rt
<1>6. CASE Publish
  BY <1>6 DEF Publish, rt
<1>7. CASE CopyLast
  BY <1>7 DEF CopyLast, rt, Idx
<1>8. ASSUME NEW source \in Sources, RtBegin(source) PROVE TypeOK'
  BY <1>8 DEF RtBegin, shared, bg
<1>9. ASSUME NEW g \in Signals, RtSignal(g) PROVE TypeOK'
  BY <1>9 DEF RtSignal, shared, bg, Slots, Sources
<1>10. CASE RtCheck
  BY <1>10 DEF RtCheck, NextSlot, shared, bg, Slots, Sources
<1>11. CASE RtTake
  BY <1>11 DEF RtTake, bg
<1>12. CASE RtInstall
  BY <1>12 DEF RtInstall, bg
<1>13. CASE RtClear
  BY <1>13 DEF RtClear, NextSlot, bg, Slots, Sources, Idx
<1>14. CASE RtBind
  BY <1>14 DEF RtBind, bg, Slots, Sources
<1>15. CASE RtRun
  BY <1>15 DEF RtRun, shared
<1>16. CASE RtEnd
  BY <1>16 DEF RtEnd, shared, bg
<1>17. ASSUME NEW m \in {"NONE"} \cup Regulated, ModeSetRT(m) PROVE TypeOK'
  BY <1>17 DEF ModeSetRT, bg, rt
<1>18. CASE UNCHANGED vars
  BY <1>18 DEF vars, shared, bg, rt
<1> QED
  BY <1>1, <1>2, <1>3, <1>4, <1>5, <1>6, <1>7, <1>8, <1>9, <1>10, <1>11, <1>12, <1>13,
     <1>14, <1>15, <1>16, <1>17, <1>18 DEF Next, BgStep, RtStep

\* Every variable keeps its type: in particular the pointers always point to
\* one of the two structures of their slot.
THEOREM TypeCorrect == Spec => []TypeOK
<1> QED BY InitTypeOK, NextTypeOK, PTL DEF Spec

----------------------------------------------------------------------------
(* The inductive invariant                                                 *)

\* The structure a raised flag stands for: the one published and not installed.
PostedIdx(s) == IF Swapping(s, "install") THEN tmp
                ELSE IF Swapping(s, "clear") THEN active[s] ELSE next[s]

\* Outside the swap the two pointers differ; between its two writes next has
\* already moved and the real-time thread holds the other structure.
PointersApart ==
    \A s \in Slots : IF Swapping(s, "install") THEN next[s] = active[s] /\ tmp # active[s]
                     ELSE next[s] # active[s]

\* The swap takes place with the flag up.
SwapUnderFlag == rtpc \in {"take", "install", "clear"} => ready[cur]

\* The background thread works on a structure with the flag down, and through
\* a pointer that is still the next pointer.
BgOwnsNext ==
    /\ bgpc \in {"init", "fill", "publish"} => ~ready[slot]
    /\ bgpc \in {"fill", "publish"} => dst = next[slot]

\* What is published is complete and newer than what is in use.
PostedGood ==
    /\ \A s \in Slots : ready[s] => pars[s][PostedIdx(s)].status = "OK"
    /\ bgpc = "publish" => pars[slot][dst].status = "OK"

\* Each signal the iteration has prepared is bound to an active structure.
BoundToActive ==
    /\ \A g \in Regulated \ rtTodo : use[g] = <<rstSource, active[<<g, rstSource>>]>>
    /\ rtpc \in {"check", "take", "install", "clear", "bind"} => cur[1] \in rtTodo
    /\ rtpc = "run" => rtTodo = {}

IInv ==
    /\ TypeOK
    /\ PointersApart
    /\ SwapUnderFlag
    /\ BgOwnsNext
    /\ ActiveValid
    /\ PostedGood
    /\ BoundToActive

\* Versions: a structure not yet reached by the current call was computed by
\* an earlier one, and a posted set is newer than the active one.
VersionsGrow ==
    /\ call \in 1 .. MaxCalls
    /\ bgpc \in {"init", "fill", "publish", "copy"} => slot \in todo
    /\ \A s \in Slots, k \in Idx : pars[s][k].ver <= call
    /\ \A s \in todo, k \in Idx :
          (s = slot /\ bgpc \in {"publish", "copy"}) \/ pars[s][k].ver < call
    /\ bgpc = "publish" => /\ pars[slot][dst].ver = call
                           /\ pars[slot][active[slot]].ver < call
    /\ \A s \in Slots : Posted(s) # {} =>
          pars[s][PostedIdx(s)].ver > pars[s][active[s]].ver

----------------------------------------------------------------------------
(* The invariant holds                                                     *)

\* At start-up all the flags are down and nothing has been published.
LEMMA InitIInv == Init => IInv
<1> SUFFICES ASSUME Init PROVE IInv
  OBVIOUS
<1>1. TypeOK
  BY InitTypeOK
<1>2. ActiveValid
  BY <1>1 DEF Init, ActiveValid, Unset, Idx
<1>3. BoundToActive
  BY DEF Init, BoundToActive, Slots, Sources
<1>4. PointersApart /\ SwapUnderFlag /\ BgOwnsNext /\ PostedGood
  BY DEF Init, PointersApart, SwapUnderFlag, BgOwnsNext, PostedGood, Swapping
<1> QED
  BY <1>1, <1>2, <1>3, <1>4 DEF IInv

\* Every step of the two threads preserves the inductive invariant.
LEMMA NextIInv == IInv /\ [Next]_vars => IInv'
<1> SUFFICES ASSUME IInv, [Next]_vars PROVE IInv'
  OBVIOUS
<1>0. TypeOK'
  BY NextTypeOK DEF IInv
<1> USE <1>0 DEF IInv
<1> USE DEF PointersApart, SwapUnderFlag, BgOwnsNext, ActiveValid, PostedGood, BoundToActive,
            PostedIdx, Swapping
<1>1. ASSUME NEW G \in SUBSET Slots, NEW p \in [Signals -> Periods], RegMgrPars(G, p) PROVE IInv'
  BY <1>1 DEF RegMgrPars, shared, rt
<1>2. CASE RegMgrParsReturn
  BY <1>2 DEF RegMgrParsReturn, shared, rt
<1>3. ASSUME NEW s \in Slots, WaitAccepted(s) \/ WaitForEver(s) PROVE IInv'
  BY <1>3 DEF WaitAccepted, WaitForEver, NextGroup, shared, rt
<1>4. CASE RstInitBegin
  <2>2. \A s \in Slots, k \in Idx :
           pars'[s][k].status = pars[s][k].status \/ (s = slot /\ k = next[slot])
    BY <1>4 DEF RstInitBegin, TypeOK
  <2>3. UNCHANGED <<next, active, ready, slot, use, rt>> /\ bgpc' \in {"fill", "groups"}
    BY <1>4 DEF RstInitBegin
  <2>4. ~ready[slot] /\ next[slot] # active[slot]
    BY <1>4 DEF RstInitBegin, TypeOK
  <2>5. ActiveValid'
    <3>1. ASSUME NEW s \in Slots PROVE pars'[s][active[s]].status = pars[s][active[s]].status
      BY <2>2, <2>4 DEF TypeOK
    <3> QED BY <2>3, <3>1
  <2>6. PostedGood'
    <3>1. ASSUME NEW s \in Slots, ready[s] PROVE pars'[s][PostedIdx(s)].status = pars[s][PostedIdx(s)].status
      <4>1. s # slot
        BY <2>4, <3>1
      <4>2. PostedIdx(s) \in Idx
        BY DEF TypeOK
      <4> QED BY <2>2, <4>1, <4>2
    <3> QED BY <2>3, <3>1 DEF rt
  <2>7. PointersApart' /\ SwapUnderFlag' /\ BoundToActive'
    BY <2>3 DEF rt
  <2>8. BgOwnsNext'
    BY <1>4, <2>4 DEF RstInitBegin
  <2> QED BY <2>5, <2>6, <2>7, <2>8
<1>5. ASSUME NEW status \in {"OK", "FAULT"}, RstInitEnd(status) PROVE IInv'
  BY <1>5 DEF RstInitEnd, rt, TypeOK, Idx, Structs
<1>6. CASE Publish
  BY <1>6 DEF Publish, rt, TypeOK
<1>7. CASE CopyLast
  BY <1>7 DEF CopyLast, rt
<1>8. ASSUME NEW source \in Sources, RtBegin(source) PROVE IInv'
  BY <1>8 DEF RtBegin, shared, bg
<1>9. ASSUME NEW g \in Signals, RtSignal(g) PROVE IInv'
  BY <1>9 DEF RtSignal, shared, bg
<1>10. CASE RtCheck
  BY <1>10 DEF RtCheck, NextSlot, shared, bg
<1>11. CASE RtTake
  BY <1>11 DEF RtTake, bg, TypeOK, Idx
<1>12. CASE RtInstall
  BY <1>12 DEF RtInstall, bg, TypeOK, Idx
<1>13. CASE RtClear
  BY <1>13 DEF RtClear, NextSlot, bg, TypeOK
<1>14. CASE RtBind
  BY <1>14 DEF RtBind, bg, TypeOK, Slots, Sources
<1>15. CASE RtRun
  BY <1>15 DEF RtRun, shared
<1>16. CASE RtEnd
  BY <1>16 DEF RtEnd, shared, bg
<1>17. ASSUME NEW m \in {"NONE"} \cup Regulated, ModeSetRT(m) PROVE IInv'
  BY <1>17 DEF ModeSetRT, bg, rt
<1>18. CASE UNCHANGED vars
  BY <1>18 DEF vars, shared, bg, rt
<1> QED
  BY <1>1, <1>2, <1>3, <1>4, <1>5, <1>6, <1>7, <1>8, <1>9, <1>10, <1>11, <1>12, <1>13,
     <1>14, <1>15, <1>16, <1>17, <1>18 DEF Next, BgStep, RtStep

\* IInv holds in every reachable state.
THEOREM IInvHolds == Spec => []IInv
<1> QED BY InitIInv, NextIInv, PTL DEF Spec

----------------------------------------------------------------------------
(* What follows from it                                                    *)

\* Within an iteration rst_pars still points to the active structure it was bound to.
LEMMA UsedIsActive == IInv => \A g \in Signals : Using(g) =>
    /\ UsedSlot(g) \in Slots
    /\ use[g][2] = active[UsedSlot(g)]
<1> SUFFICES ASSUME IInv, NEW g \in Signals, Using(g)
             PROVE  UsedSlot(g) \in Slots /\ use[g][2] = active[UsedSlot(g)]
  OBVIOUS
<1>1. use[g] = <<rstSource, active[<<g, rstSource>>]>>
  BY DEF IInv, BoundToActive, Using
<1> QED BY <1>1 DEF UsedSlot, IInv, TypeOK, Slots

\* Mutual exclusion on the structures: regMgrRegulateRT and the functions it
\* calls never read a structure regMgrRstInit is writing.
THEOREM NoTornUseHolds == Spec => []NoTornUse
<1>1. IInv => NoTornUse
  BY UsedIsActive DEF NoTornUse, Used, IInv, ActiveValid
<1> QED BY <1>1, IInvHolds, PTL

\* Rejected or unfinished parameters are never active.
THEOREM ActiveValidHolds == Spec => []ActiveValid
<1>1. IInv => ActiveValid
  BY DEF IInv
<1> QED BY <1>1, IInvHolds, PTL

\* What an iteration works with does not change before the iteration ends.
THEOREM UsedParsStableHolds == Spec => UsedParsStable
<1>1. ASSUME IInv, [Next]_vars PROVE [\A g \in Signals : Using(g) => Used(g)' = Used(g)]_vars
  <2> SUFFICES ASSUME NEW g \in Signals, Using(g), Next PROVE Used(g)' = Used(g)
    BY <1>1
  <2>1. UsedSlot(g) \in Slots /\ use[g][2] = active[UsedSlot(g)]
    BY <1>1, UsedIsActive
  <2>2. use' = use
    BY <1>1 DEF Next, BgStep, RtStep, RegMgrPars, RegMgrParsReturn, WaitAccepted, WaitForEver,
      RstInitBegin, RstInitEnd, Publish, CopyLast, RtBegin, RtSignal, RtCheck, RtTake, RtInstall,
      RtClear, RtBind, RtRun, RtEnd, ModeSetRT, Using, shared
  <2>3. pars'[UsedSlot(g)][active[UsedSlot(g)]] = pars[UsedSlot(g)][active[UsedSlot(g)]]
    <3>1. CASE RstInitBegin
      BY <1>1, <2>1, <3>1 DEF RstInitBegin, IInv, TypeOK, PointersApart, Swapping, Using
    <3>2. ASSUME NEW status \in {"OK", "FAULT"}, RstInitEnd(status)
          PROVE  pars'[UsedSlot(g)][active[UsedSlot(g)]] = pars[UsedSlot(g)][active[UsedSlot(g)]]
      BY <1>1, <2>1, <3>2 DEF RstInitEnd, IInv, TypeOK, PointersApart, BgOwnsNext, Swapping, Using
    <3>3. \/ RstInitBegin
          \/ \E status \in {"OK", "FAULT"} : RstInitEnd(status)
          \/ UNCHANGED pars
      BY DEF Next, BgStep, RtStep, RegMgrPars, RegMgrParsReturn, WaitAccepted, WaitForEver,
        Publish, CopyLast, RtBegin, RtSignal, RtCheck, RtTake, RtInstall,
        RtClear, RtBind, RtRun, RtEnd, ModeSetRT, shared
    <3> QED BY <3>1, <3>2, <3>3
  <2> QED BY <2>1, <2>2, <2>3 DEF Used, UsedSlot
<1> QED BY <1>1, IInvHolds, PTL DEF Spec, UsedParsStable

----------------------------------------------------------------------------
(* The exchange implements the mailbox                                     *)

\* At start-up all structures have version 0.
LEMMA InitVersions == Init => VersionsGrow
  BY DEF Init, VersionsGrow, Posted, Unset, Idx

\* What is published is newer than what is active, and stays so.
LEMMA NextVersions == IInv /\ VersionsGrow /\ [Next]_vars => VersionsGrow'
<1> SUFFICES ASSUME IInv, VersionsGrow, [Next]_vars PROVE VersionsGrow'
  OBVIOUS
<1> TypeOK /\ PointersApart /\ SwapUnderFlag /\ BgOwnsNext
  BY DEF IInv
<1> USE DEF VersionsGrow, Posted, PostedIdx, Swapping, PointersApart, SwapUnderFlag, BgOwnsNext
<1>1. ASSUME NEW G \in SUBSET Slots, NEW p \in [Signals -> Periods], RegMgrPars(G, p)
      PROVE  VersionsGrow'
  BY <1>1 DEF RegMgrPars, shared, rt, TypeOK, Structs
<1>2. CASE RegMgrParsReturn
  BY <1>2 DEF RegMgrParsReturn, shared, rt
<1>3. ASSUME NEW s \in Slots, WaitAccepted(s) \/ WaitForEver(s) PROVE VersionsGrow'
  BY <1>3 DEF WaitAccepted, WaitForEver, NextGroup, shared, rt
<1>4. CASE RstInitBegin
  <2>1. ASSUME NEW s \in Slots, NEW k \in Idx PROVE pars'[s][k].ver = pars[s][k].ver
    <3>1. pars[s][k] \in Structs /\ pars[s] \in [Idx -> Structs]
      BY DEF TypeOK
    <3>2. [pars[s][k] EXCEPT !.status = "TORN"].ver = pars[s][k].ver
      BY <3>1 DEF Structs
    <3>3. pars'[s][k] \in {pars[s][k], [pars[s][k] EXCEPT !.status = "TORN"]}
      <4>1. pars' = pars \/ pars' = [pars EXCEPT ![slot][next[slot]].status = "TORN"]
        BY <1>4 DEF RstInitBegin
      <4>2. pars \in [Slots -> [Idx -> Structs]]
        BY DEF TypeOK
      <4>3. CASE pars' = [pars EXCEPT ![slot][next[slot]].status = "TORN"]
        <5>1. CASE s = slot /\ k = next[slot]
          BY <3>1, <4>2, <4>3, <5>1
        <5>2. CASE s = slot /\ k # next[slot]
          BY <3>1, <4>2, <4>3, <5>2
        <5>3. CASE s # slot
          BY <4>2, <4>3, <5>3
        <5> QED BY <5>1, <5>2, <5>3
      <4> QED BY <4>1, <4>3
    <3> QED BY <3>2, <3>3
  <2>2. UNCHANGED <<next, active, ready, slot, call, rtpc, cur, tmp>>
    BY <1>4 DEF RstInitBegin, rt
  <2>3. todo' \subseteq todo /\ (bgpc' = "fill" => todo' = todo) /\ bgpc' \in {"fill", "groups"}
        /\ bgpc = "init"
    BY <1>4 DEF RstInitBegin
  <2>4. ASSUME NEW s \in Slots
        PROVE  Posted(s)' = Posted(s) /\ PostedIdx(s)' = PostedIdx(s) /\ PostedIdx(s) \in Idx
    BY <2>1, <2>2 DEF TypeOK
  <2>5. \A s \in Slots : Posted(s)' # {} =>
           pars'[s][PostedIdx(s)'].ver > pars'[s][active'[s]].ver
    <3> SUFFICES ASSUME NEW s \in Slots, Posted(s)' # {}
                 PROVE  pars'[s][PostedIdx(s)'].ver > pars'[s][active'[s]].ver
      OBVIOUS
    <3>1. Posted(s) # {} /\ PostedIdx(s)' = PostedIdx(s) /\ PostedIdx(s) \in Idx /\ active[s] \in Idx
      BY <2>4 DEF TypeOK
    <3>2. pars[s][PostedIdx(s)].ver > pars[s][active[s]].ver
      BY <3>1
    <3> HIDE DEF PostedIdx
    <3> QED BY <2>1, <2>2, <3>1, <3>2
  <2>6. \A s \in Slots, k \in Idx : pars'[s][k].ver <= call
    BY <2>1
  <2>7. \A s \in todo, k \in Idx : pars'[s][k].ver < call
    BY <2>1, <2>3 DEF TypeOK
  <2> QED BY <2>2, <2>3, <2>5, <2>6, <2>7 DEF TypeOK
<1>5. ASSUME NEW status \in {"OK", "FAULT"}, RstInitEnd(status) PROVE VersionsGrow'
  <2>1. \A s \in Slots, k \in Idx :
           pars'[s][k].ver = IF s = slot /\ k = dst THEN call ELSE pars[s][k].ver
    BY <1>5 DEF RstInitEnd, TypeOK
  <2>2. UNCHANGED <<next, active, ready, slot, dst, call, todo, rtpc, cur, tmp>>
    BY <1>5 DEF RstInitEnd, rt
  <2>3. slot \in todo /\ bgpc' \in {"copy", "publish"} /\ ~ready[slot] /\ dst # active[slot]
    BY <1>5 DEF RstInitEnd, TypeOK
  <2>4. \A s \in Slots, k \in Idx : pars[s][k].ver \in Nat
    BY DEF TypeOK, Structs
  <2>5. \A k \in Idx : pars[slot][k].ver < call
    BY <1>5, <2>3 DEF RstInitEnd, TypeOK
  <2>6. ASSUME NEW s \in Slots, Posted(s)' # {}
        PROVE  (pars[s][PostedIdx(s)].ver > pars[s][active[s]].ver)'
    <3>1. s # slot /\ Posted(s) # {} /\ PostedIdx(s)' = PostedIdx(s)
          /\ PostedIdx(s) \in Idx /\ active[s] \in Idx
      BY <2>2, <2>3, <2>6 DEF TypeOK
    <3>2. pars[s][PostedIdx(s)].ver > pars[s][active[s]].ver
      BY <3>1
    <3> HIDE DEF PostedIdx
    <3> QED BY <2>1, <2>2, <3>1, <3>2
  <2>7. \A s \in Slots, k \in Idx : pars'[s][k].ver <= call
    BY <2>1, <2>4
  <2>8. \A s \in todo, k \in Idx : s = slot \/ pars'[s][k].ver < call
    BY <1>5, <2>1 DEF RstInitEnd, TypeOK
  <2>9. pars'[slot][dst].ver = call /\ pars'[slot][active[slot]].ver < call
    BY <2>1, <2>3, <2>5 DEF TypeOK
  <2> QED BY <2>2, <2>3, <2>6, <2>7, <2>8, <2>9
<1>6. CASE Publish
  BY <1>6 DEF Publish, rt, TypeOK
<1>7. CASE CopyLast
  BY <1>7 DEF CopyLast, rt
<1>8. ASSUME NEW source \in Sources, RtBegin(source) PROVE VersionsGrow'
  BY <1>8 DEF RtBegin, shared, bg
<1>9. ASSUME NEW g \in Signals, RtSignal(g) PROVE VersionsGrow'
  BY <1>9 DEF RtSignal, shared, bg
<1>10. CASE RtCheck
  BY <1>10 DEF RtCheck, NextSlot, shared, bg
<1>11. CASE RtTake
  BY <1>11 DEF RtTake, bg, TypeOK, Idx
<1>12. CASE RtInstall
  BY <1>12 DEF RtInstall, bg, TypeOK, Idx
<1>13. CASE RtClear
  BY <1>13 DEF RtClear, NextSlot, bg, TypeOK
<1>14. CASE RtBind
  BY <1>14 DEF RtBind, bg
<1>15. CASE RtRun
  BY <1>15 DEF RtRun, shared
<1>16. CASE RtEnd
  BY <1>16 DEF RtEnd, shared, bg
<1>17. ASSUME NEW m \in {"NONE"} \cup Regulated, ModeSetRT(m) PROVE VersionsGrow'
  BY <1>17 DEF ModeSetRT, bg, rt
<1>18. CASE UNCHANGED vars
  BY <1>18 DEF vars, shared, bg, rt
<1> QED
  BY <1>1, <1>2, <1>3, <1>4, <1>5, <1>6, <1>7, <1>8, <1>9, <1>10, <1>11, <1>12, <1>13,
     <1>14, <1>15, <1>16, <1>17, <1>18 DEF Next, BgStep, RtStep

\* A step of the two threads is a post, a take, or a stutter of the mailbox.
LEMMA NextHandover == IInv /\ VersionsGrow /\ IInv' /\ [Next]_vars => [Handover!HNext]_(Handover!hvars)
<1> SUFFICES ASSUME IInv, VersionsGrow, IInv', [Next]_vars
             PROVE  Handover!HNext \/ UNCHANGED Handover!hvars
  BY DEF Handover!hvars
<1> TypeOK /\ PointersApart /\ SwapUnderFlag /\ BgOwnsNext
  BY DEF IInv
<1> USE DEF Posted, Swapping
\* A step that posts nothing and installs nothing changes neither side.
<1>s. ASSUME \A s \in Slots : /\ Posted(s)' = Posted(s)
                               /\ (pars[s][active[s]].ver)' = pars[s][active[s]].ver
      PROVE  UNCHANGED Handover!hvars
  BY <1>s DEF Handover!hvars
<1>1. ASSUME UNCHANGED <<pars, next, active, ready, rtpc, cur, tmp>> PROVE UNCHANGED Handover!hvars
  BY <1>1, <1>s
<1>2. CASE RstInitBegin
  <2>1. ASSUME NEW s \in Slots, NEW k \in Idx, s # slot \/ k # next[slot]
        PROVE  pars'[s][k] = pars[s][k]
    BY <1>2, <2>1 DEF RstInitBegin, TypeOK
  <2>2. UNCHANGED <<next, active, ready, rt>> /\ ~ready[slot]
    BY <1>2 DEF RstInitBegin, BgOwnsNext
  <2>3. next[slot] # active[slot]
    BY <2>2 DEF PointersApart, SwapUnderFlag, TypeOK
  <2>4. ASSUME NEW s \in Slots
        PROVE  Posted(s)' = Posted(s) /\ (pars[s][active[s]].ver)' = pars[s][active[s]].ver
    <3>1. CASE s = slot
      BY <2>1, <2>2, <2>3, <3>1 DEF TypeOK, rt
    <3>2. CASE s # slot
      <4>1. pars'[s] = pars[s]
        BY <1>2, <3>2 DEF RstInitBegin, RstInitEnd, TypeOK
      <4> QED BY <2>2, <4>1 DEF rt
    <3> QED BY <3>1, <3>2
  <2> HIDE DEF Posted
  <2> QED BY <1>s, <2>4
<1>3. ASSUME NEW status \in {"OK", "FAULT"}, RstInitEnd(status) PROVE UNCHANGED Handover!hvars
  <2>1. ASSUME NEW s \in Slots, NEW k \in Idx, s # slot \/ k # next[slot]
        PROVE  pars'[s][k] = pars[s][k]
    BY <1>3, <2>1 DEF RstInitEnd, TypeOK, BgOwnsNext
  <2>2. UNCHANGED <<next, active, ready, rt>> /\ ~ready[slot]
    BY <1>3 DEF RstInitEnd, BgOwnsNext
  <2>3. next[slot] # active[slot]
    BY <2>2 DEF PointersApart, SwapUnderFlag, TypeOK
  <2>4. ASSUME NEW s \in Slots
        PROVE  Posted(s)' = Posted(s) /\ (pars[s][active[s]].ver)' = pars[s][active[s]].ver
    <3>1. CASE s = slot
      BY <2>1, <2>2, <2>3, <3>1 DEF TypeOK, rt
    <3>2. CASE s # slot
      <4>1. pars'[s] = pars[s]
        BY <1>3, <3>2 DEF RstInitBegin, RstInitEnd, TypeOK
      <4> QED BY <2>2, <4>1 DEF rt
    <3> QED BY <3>1, <3>2
  <2> HIDE DEF Posted
  <2> QED BY <1>s, <2>4
<1>4. CASE Publish
  <2>1. Posted(slot) = {} /\ Posted(slot)' = {call}
    BY <1>4 DEF Publish, rt, TypeOK, BgOwnsNext, SwapUnderFlag, VersionsGrow
  <2>2. \A s \in Slots : s # slot => Posted(s)' = Posted(s)
    BY <1>4 DEF Publish, rt, TypeOK
  <2>3. call > pars[slot][active[slot]].ver /\ call \in 0 .. MaxCalls
    BY <1>4 DEF Publish, VersionsGrow, TypeOK, Structs
  <2>4. slot \in Slots /\ UNCHANGED <<pars, active>>
    BY <1>4 DEF Publish, TypeOK
  <2>5. Handover!Post(slot, call)
    <3>1. [s \in Slots |-> Posted(s)]' = [[s \in Slots |-> Posted(s)] EXCEPT ![slot] = {call}]
      <4>1. \A s \in Slots : Posted(s)' = IF s = slot THEN {call} ELSE Posted(s)
        BY <1>4, <2>2 DEF Publish, rt, TypeOK, BgOwnsNext, SwapUnderFlag, VersionsGrow
      <4> QED BY <4>1, <2>4
    <3>2. UNCHANGED [s \in Slots |-> pars[s][active[s]].ver]
      BY <2>4
    <3> QED BY <2>1, <2>3, <2>4, <3>1, <3>2 DEF Handover!Post
  <2> QED BY <2>3, <2>4, <2>5 DEF Handover!HNext, Handover!Post
<1>5. CASE RtInstall
  <2>1. Posted(cur) = {pars[cur][tmp].ver} /\ Posted(cur)' = {}
    BY <1>5 DEF RtInstall, TypeOK, SwapUnderFlag
  <2>2. \A s \in Slots : s # cur => Posted(s)' = Posted(s)
    BY <1>5 DEF RtInstall, TypeOK
  <2>3. cur \in Slots /\ active' = [active EXCEPT ![cur] = tmp] /\ pars' = pars
    BY <1>5 DEF RtInstall, TypeOK
  <2>4. Handover!Take(cur)
    <3>1. [s \in Slots |-> Posted(s)]' = [[s \in Slots |-> Posted(s)] EXCEPT ![cur] = {}]
      <4>1. \A s \in Slots : Posted(s)' = IF s = cur THEN {} ELSE Posted(s)
        BY <1>5, <2>2 DEF RtInstall, TypeOK, SwapUnderFlag
      <4> QED BY <4>1, <2>3
    <3>2. [s \in Slots |-> pars[s][active[s]].ver]'
            = [[s \in Slots |-> pars[s][active[s]].ver] EXCEPT ![cur] = pars[cur][tmp].ver]
      BY <2>3 DEF TypeOK
    <3> QED BY <2>1, <2>3, <3>1, <3>2 DEF Handover!Take
  <2> QED BY <2>3, <2>4 DEF Handover!HNext, Handover!Take
<1>6. CASE RtTake
  BY <1>6, <1>s DEF RtTake, TypeOK, SwapUnderFlag
<1>7. CASE RtClear
  BY <1>7, <1>s DEF RtClear, NextSlot, TypeOK
<1>8. CASE RtCheck
  BY <1>8, <1>s DEF RtCheck, NextSlot, shared, TypeOK
<1>9. CASE RtBind
  BY <1>9, <1>s DEF RtBind, TypeOK
<1>10. ASSUME NEW source \in Sources, RtBegin(source) PROVE UNCHANGED Handover!hvars
  BY <1>10, <1>s DEF RtBegin, shared
<1>11. ASSUME NEW g \in Signals, RtSignal(g) PROVE UNCHANGED Handover!hvars
  BY <1>11, <1>s DEF RtSignal, shared
<1>12. CASE RtRun
  BY <1>12, <1>s DEF RtRun, shared
<1>13. CASE RtEnd
  BY <1>13, <1>s DEF RtEnd, shared
<1>14. ASSUME NEW m \in {"NONE"} \cup Regulated, ModeSetRT(m) PROVE UNCHANGED Handover!hvars
  BY <1>1, <1>14 DEF ModeSetRT, rt
<1>15. ASSUME NEW G \in SUBSET Slots, NEW p \in [Signals -> Periods], RegMgrPars(G, p)
       PROVE  UNCHANGED Handover!hvars
  BY <1>1, <1>15 DEF RegMgrPars, shared, rt
<1>16. ASSUME NEW s \in Slots, WaitAccepted(s) \/ WaitForEver(s) PROVE UNCHANGED Handover!hvars
  BY <1>1, <1>16 DEF WaitAccepted, WaitForEver, shared, rt
<1>17. CASE RegMgrParsReturn \/ CopyLast
  BY <1>1, <1>17 DEF RegMgrParsReturn, CopyLast, shared, rt
<1>18. CASE UNCHANGED vars
  BY <1>1, <1>18 DEF vars, shared, rt
<1> QED
  BY <1>2, <1>3, <1>4, <1>5, <1>6, <1>7, <1>8, <1>9, <1>10, <1>11, <1>12, <1>13, <1>14,
     <1>15, <1>16, <1>17, <1>18 DEF Next, BgStep, RtStep

\* The code's structures, pointers and flag implement the mailbox: nothing
\* published is lost, overwritten, accepted twice or out of order.
THEOREM HandsOverHolds == Spec => HandsOver
<1>1. Init => Handover!HInit
  BY DEF Init, Handover!HInit, Posted, Unset, Idx
<1>2. Spec => [](IInv /\ VersionsGrow)
  BY InitIInv, NextIInv, InitVersions, NextVersions, PTL DEF Spec
<1> QED BY <1>1, <1>2, NextHandover, PTL DEF Spec, HandsOver, Handover!HSpec

----------------------------------------------------------------------------
(* The copy kept for debugging                                             *)

\* The copy of a slot is the set computed last, unless the background thread is
\* in the middle of computing a newer one for that very slot.
Matched(s) == \E k \in Idx : last[s] = pars[s][k] /\ pars[s][1 - k].ver <= pars[s][k].ver

CopyInv ==
    /\ \A s \in Slots : Matched(s) \/ (s = slot /\ bgpc \in {"fill", "publish", "copy"})
    /\ bgpc \in {"publish", "copy"} => pars[slot][dst].ver = call

LEMMA InitCopy == Init => CopyInv
<1> SUFFICES ASSUME Init, NEW s \in Slots PROVE Matched(s)
  BY DEF Init, CopyInv
<1>1. last[s] = Unset /\ pars[s][0] = Unset /\ pars[s][1] = Unset /\ 0 \in Idx /\ 1 - 0 = 1
  BY DEF Init, Idx
<1>2. Unset.ver <= Unset.ver
  BY DEF Unset
<1> QED
  BY <1>1, <1>2 DEF Matched

LEMMA NextCopy == IInv /\ VersionsGrow /\ CopyInv /\ [Next]_vars => CopyInv'
<1> SUFFICES ASSUME IInv, VersionsGrow, CopyInv, [Next]_vars PROVE CopyInv'
  OBVIOUS
<1> TypeOK
  BY DEF IInv
<1>s. ASSUME UNCHANGED <<pars, last>> PROVE \A s \in Slots : Matched(s)' <=> Matched(s)
  BY <1>s DEF Matched
\* Steps of the background thread that leave the structures and copies alone.
<1>b. ASSUME UNCHANGED <<pars, last>>, bgpc' \notin {"publish", "copy"},
             bgpc \notin {"fill", "publish", "copy"}
      PROVE  CopyInv'
  BY <1>s, <1>b DEF CopyInv
\* Steps of the real-time thread; the first ends regMgrSimInit.
<1>r. ASSUME UNCHANGED <<pars, last, slot, dst, call>>,
             bgpc' = bgpc \/ (bgpc = "prepare" /\ bgpc' = "idle")
      PROVE  CopyInv'
  BY <1>s, <1>r DEF CopyInv
<1>1. CASE (\E G \in SUBSET Slots, p \in [Signals -> Periods] : RegMgrPars(G, p)) \/ RegMgrParsReturn
           \/ (\E s \in Slots : WaitAccepted(s) \/ WaitForEver(s))
  BY <1>1, <1>b DEF RegMgrPars, RegMgrParsReturn, WaitAccepted, WaitForEver, NextGroup, shared
<1>2. CASE RstInitBegin
  <2>1. bgpc = "init" /\ UNCHANGED <<last, slot, call>> /\ bgpc' \in {"fill", "groups"}
    BY <1>2 DEF RstInitBegin
  <2>2. CASE bgpc' = "groups"
    <3>1. pars' = pars
      BY <1>2, <2>2 DEF RstInitBegin
    <3> QED
      BY <1>b, <2>1, <2>2, <3>1
  <2>3. CASE bgpc' = "fill"
    <3>1. \A s \in Slots : s # slot => pars'[s] = pars[s]
      BY <1>2, <2>3 DEF RstInitBegin, TypeOK
    <3>2. \A s \in Slots : s # slot => (Matched(s)' <=> Matched(s))
      BY <2>1, <3>1 DEF Matched
    <3> QED
      BY <2>1, <2>3, <3>2 DEF CopyInv
  <2> QED
    BY <2>1, <2>2, <2>3
<1>3. CASE \E status \in {"OK", "FAULT"} : RstInitEnd(status)
  <2>1. bgpc = "fill" /\ UNCHANGED <<last, slot, call, dst>> /\ bgpc' \in {"publish", "copy"}
    BY <1>3 DEF RstInitEnd
  <2>2. pars'[slot][dst].ver = call
    BY <1>3 DEF RstInitEnd, TypeOK
  <2>3. \A s \in Slots : s # slot => pars'[s] = pars[s]
    BY <1>3 DEF RstInitEnd, TypeOK
  <2>4. \A s \in Slots : s # slot => (Matched(s)' <=> Matched(s))
    BY <2>1, <2>3 DEF Matched
  <2> QED
    BY <2>1, <2>2, <2>4 DEF CopyInv
<1>4. CASE Publish
  <2>1. bgpc = "publish" /\ bgpc' = "copy" /\ UNCHANGED <<pars, last, slot, dst, call>>
    BY <1>4 DEF Publish
  <2> QED
    BY <1>s, <2>1 DEF CopyInv
<1>5. CASE CopyLast
  <2>1. bgpc = "copy" /\ bgpc' = "groups" /\ UNCHANGED <<pars, slot>>
        /\ last' = [last EXCEPT ![slot] = pars[slot][dst]]
    BY <1>5 DEF CopyLast
  <2>2. slot \in Slots /\ dst \in Idx /\ 1 - dst \in Idx
    BY DEF TypeOK, Idx
  <2>3. pars[slot][1 - dst].ver <= call /\ pars[slot][dst].ver = call
    BY <2>1, <2>2 DEF VersionsGrow, CopyInv
  <2>4. last'[slot] = pars[slot][dst]
    BY <2>1, <2>2 DEF TypeOK
  <2>5. Matched(slot)'
    BY <2>1, <2>2, <2>3, <2>4 DEF Matched
  <2>6. ASSUME NEW s \in Slots, s # slot PROVE Matched(s)'
    <3>1. last'[s] = last[s] /\ Matched(s)
      BY <2>1, <2>6 DEF TypeOK, CopyInv
    <3> QED
      BY <2>1, <3>1 DEF Matched
  <2> QED
    BY <2>1, <2>5, <2>6 DEF CopyInv
<1>6. CASE RtStep
  <2>1. CASE RtRun
    BY <1>r, <2>1 DEF RtRun, shared
  <2>2. CASE ~RtRun
    BY <1>6, <1>r, <2>2 DEF RtStep, RtBegin, RtSignal, RtCheck, RtTake, RtInstall, RtClear,
       RtBind, RtEnd, shared, bg
  <2> QED
    BY <2>1, <2>2
<1>7. CASE \E m \in {"NONE"} \cup Regulated : ModeSetRT(m)
  BY <1>7, <1>r DEF ModeSetRT, bg
<1>8. CASE UNCHANGED vars
  BY <1>8, <1>r DEF vars, shared, bg
<1> QED
  BY <1>1, <1>2, <1>3, <1>4, <1>5, <1>6, <1>7, <1>8 DEF Next, BgStep

\* Between two calls of regMgrPars the debugging copies are the sets that were
\* computed last, for any number of calls and interleavings with acceptances.
THEOREM LastParsMatchHolds == Spec => []LastParsMatch
<1>1. CopyInv => LastParsMatch
  BY DEF CopyInv, Matched, LastParsMatch
<1>2. Spec => [](IInv /\ VersionsGrow)
  BY InitIInv, NextIInv, InitVersions, NextVersions, PTL DEF Spec
<1> QED
  BY <1>1, <1>2, InitCopy, NextCopy, PTL DEF Spec
====
