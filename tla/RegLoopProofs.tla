---- MODULE RegLoopProofs ----
(***************************************************************************)
(* Proofs about RegLoop: the types, for all constants; that counters keep  *)
(* in step with the time, for clients that pass the time only if they      *)
(* start in mode NONE, and periods that divide into 12 s; that histories   *)
(* have no holes, for clients that regulate every iteration; and that the  *)
(* references an algorithm reads, at once or delayed, are set, for orders  *)
(* and delays that fit the histories.                                      *)
(***************************************************************************)
EXTENDS RegLoop, Integers, TLAPS

\* What an application that synchronises systems has to do: start in NONE, as
\* the counters follow the time in that mode only, and (regMgr.c:907) choose
\* periods that divide into the 12 s the time is modulo of.
Synchronised ==
    /\ \A client \in Clients : client[2] => client[1] = "NONE" /\ EveryIteration
    /\ \A g \in Enabled : Wrap % Period[g] = 0

\* Out of step only before the first iteration, whose counters are set from the
\* time in mode NONE.
CountersFollow ==
    pc # "start" \/ mode # "NONE" => \A g \in Enabled : counter[g] = now % Period[g]

IInv == TypeOK /\ CountersFollow

----------------------------------------------------------------------------
(* Remainders                                                              *)

LEMMA Division ==
    ASSUME NEW n \in Nat, NEW p \in Nat \ {0}
    PROVE  (n % p) \in 0 .. p - 1 /\ n = p * (n \div p) + (n % p) /\ n \div p \in Nat
  OBVIOUS

LEMMA AtLeastOne == ASSUME NEW p \in Nat \ {0}, NEW k \in Int, k >= 1 PROVE p * k >= p
  OBVIOUS

\* A quotient and a remainder below p are those of the division by p.
LEMMA Remainder ==
    ASSUME NEW p \in Nat \ {0}, NEW q \in Nat, NEW r \in 0 .. p - 1
    PROVE  (p * q + r) % p = r
<1> DEFINE n == p * q + r
           Q == n \div p
           R == n % p
<1>1. n \in Nat
  OBVIOUS
<1>2. R \in 0 .. p - 1 /\ n = p * Q + R /\ Q \in Nat
  BY <1>1, Division
<1>3. CASE Q = q
  BY <1>2, <1>3
<1>4. CASE Q > q
  <2>1. p * (Q - q) >= p
    BY <1>2, <1>4, AtLeastOne
  <2>2. p * (Q - q) = p * Q - p * q
    BY <1>2
  <2> HIDE DEF Q, R
  <2> QED
    BY <1>2, <2>1, <2>2
<1>5. CASE Q < q
  <2>1. p * (q - Q) >= p
    BY <1>2, <1>5, AtLeastOne
  <2>2. p * (q - Q) = p * q - p * Q
    BY <1>2
  <2> HIDE DEF Q, R
  <2> QED
    BY <1>2, <2>1, <2>2
<1> QED
  BY <1>2, <1>3, <1>4, <1>5

LEMMA Small == ASSUME NEW p \in Nat \ {0}, NEW r \in 0 .. p - 1 PROVE r % p = r
<1>1. p * 0 + r = r
  OBVIOUS
<1> QED
  BY <1>1, Remainder

\* A counter that counts up to its period keeps in step with a time that counts
\* up to a multiple of it.
LEMMA CountsAlong ==
    ASSUME NEW w \in Nat \ {0}, NEW p \in Nat \ {0}, w % p = 0, NEW n \in 0 .. w - 1
    PROVE  ((n + 1) % w) % p = IF (n % p) + 1 >= p THEN 0 ELSE (n % p) + 1
<1> DEFINE q == n \div p
           r == n % p
           k == w \div p
<1>0. n \in Nat
  OBVIOUS
<1>1. r \in 0 .. p - 1 /\ n = p * q + r /\ q \in Nat
  BY <1>0, Division
<1>2. w = p * k /\ k \in Nat
  BY Division
<1> HIDE DEF q, r, k
<1>3. 0 % p = 0
  BY Small
<1>4. CASE n + 1 < w
  <2>1. (n + 1) % w = n + 1
    BY <1>4, Small
  <2>2. CASE r + 1 < p
    <3>1. n + 1 = p * q + (r + 1) /\ r + 1 \in 0 .. p - 1
      BY <1>1, <2>2
    <3>2. (n + 1) % p = r + 1
      BY <1>1, <3>1, Remainder
    <3> QED
      BY <1>1, <2>1, <2>2, <3>2 DEF r
  <2>3. CASE r + 1 >= p
    <3>1. n + 1 = p * (q + 1) + 0 /\ q + 1 \in Nat
      BY <1>1, <2>3
    <3>2. (n + 1) % p = 0
      BY <3>1, Remainder
    <3> QED
      BY <2>1, <2>3, <3>2 DEF r
  <2> QED
    BY <1>1, <2>2, <2>3
<1>5. CASE n + 1 = w
  <2>1. (n + 1) % w = 0
    <3>1. n + 1 = w * 1 + 0
      BY <1>5
    <3> QED
      BY <3>1, Remainder
  <2>2. k >= 1
    BY <1>2
  <2>3. n = p * (k - 1) + (p - 1) /\ k - 1 \in Nat /\ p - 1 \in 0 .. p - 1
    BY <1>2, <1>5, <2>2
  <2>4. r = p - 1
    BY <2>3, Remainder DEF r
  <2> QED
    BY <1>3, <2>1, <2>4 DEF r
<1> QED
  BY <1>4, <1>5

----------------------------------------------------------------------------
(* The histories                                                           *)

Histories == [Age -> Marks]

LEMMA HistoryTypes ==
    ASSUME NEW h \in Histories, NEW g \in Enabled
    PROVE  /\ Push(h) \in Histories
           /\ WriteNewest(h) \in Histories
           /\ InitRef(h, g) \in Histories
<1>1. 0 \in Age /\ H - 1 \in Age /\ \A k \in Age : k > 0 => k - 1 \in Age
  BY HistoryAssumption DEF Age
<1>2. Push(h) \in Histories
  BY <1>1 DEF Push, Histories, Marks
<1>3. WriteNewest(h) \in Histories
  BY <1>1 DEF WriteNewest, Histories, Marks
<1>4. InitRef(h, g) \in Histories
  BY DEF InitRef, Histories, Marks
<1> QED
  BY <1>2, <1>3, <1>4

LEMMA AllTypes == ASSUME NEW mark \in Marks PROVE All(mark) \in Histories
  BY DEF All, Histories

LEMMA DelayedTypes ==
    ASSUME NEW h, NEW g, NEW c PROVE DelayedRef(h, g, c) \in {"reset", "fresh", "stale"}
  BY DEF DelayedRef

\* A change of mode, or none, keeps the types of what it writes.
LEMMA ModeSetTypes ==
    ASSUME TypeOK, NEW m \in Modes, ModeSetRT(m)
    PROVE  /\ mode' = m
           /\ act' = act /\ ref' \in [Enabled -> Histories]
           /\ refDelayed' \in [Enabled -> {"reset", "fresh", "stale"}]
           /\ avail' \in [Enabled -> BOOLEAN]
<1>1. CASE m = mode
  BY <1>1 DEF ModeSetRT, TypeOK, Histories
<1>2. CASE m # mode
  <2>1. mode' = m /\ act' = act
    BY <1>2 DEF ModeSetRT
  <2>2. ref' \in [Enabled -> Histories]
    <3>1. ref' = [g \in Enabled |-> IF g = m THEN InitRef(ref[g], g) ELSE ref[g]]
      BY <1>2 DEF ModeSetRT
    <3>2. \A g \in Enabled : ref[g] \in Histories
      BY DEF TypeOK, Histories
    <3> QED
      BY <3>1, <3>2, HistoryTypes
  <2>3. refDelayed' \in [Enabled -> {"reset", "fresh", "stale"}]
    <3>1. refDelayed' = [g \in Enabled |->
              IF g = m THEN DelayedRef(ref'[g], g, counter[g])
              ELSE IF g = ResetSignal(m) THEN "reset" ELSE refDelayed[g]]
      BY <1>2 DEF ModeSetRT
    <3>2. \A g \in Enabled : refDelayed[g] \in {"reset", "fresh", "stale"}
      BY DEF TypeOK
    <3> QED
      BY <3>1, <3>2, DelayedTypes
  <2>4. avail' \in [Enabled -> BOOLEAN]
    <3>1. avail' = [g \in Enabled |->
              IF g = m THEN ErrUnfiltered[g] ELSE avail[g] /\ g # ResetSignal(m)]
      BY <1>2 DEF ModeSetRT
    <3>2. \A g \in Enabled : ErrUnfiltered[g] \in BOOLEAN
      BY DelayAssumption
    <3>3. \A g \in Enabled :
              (IF g = m THEN ErrUnfiltered[g] ELSE avail[g] /\ g # ResetSignal(m)) \in BOOLEAN
      BY <3>2, Zenon
    <3> QED
      BY <3>1, <3>3
  <2> QED
    BY <2>1, <2>2, <2>3, <2>4
<1> QED
  BY <1>1, <1>2

----------------------------------------------------------------------------
(* Types                                                                   *)

LEMMA InitTypes == Init => TypeOK
<1> SUFFICES ASSUME Init PROVE TypeOK
  OBVIOUS
<1>1. PICK client \in Clients :
          /\ mode = client[1]
          /\ clock = client[2]
          /\ now \in IF clock THEN 0 .. Wrap - 1 ELSE {0}
          /\ counter = [g \in Enabled |-> 0]
          /\ act = [g \in Enabled |-> StartAct(mode, g)]
          /\ ref = [g \in Enabled |->
                      IF g = mode THEN InitRef(StartRef(mode, g), g) ELSE StartRef(mode, g)]
          /\ refDelayed = [g \in Enabled |-> IF g = mode THEN "fresh" ELSE "reset"]
          /\ avail = [g \in Enabled |-> g = mode /\ ErrUnfiltered[g]]
          /\ source = [g \in Enabled |-> "input"]
          /\ returned = 0 /\ tripped = FALSE
          /\ pc = IF EveryIteration THEN "start" ELSE "meas"
  BY DEF Init
<1>2. mode \in Modes /\ clock \in BOOLEAN
  BY <1>1, ClientAssumption
<1>3. now \in 0 .. Wrap - 1
  BY <1>1, PeriodAssumption
<1>4. counter \in [Enabled -> Nat] /\ \A g \in Enabled : counter[g] < Period[g]
  BY <1>1, PeriodAssumption
<1>5. \A g \in Enabled : StartAct(mode, g) \in Histories /\ StartRef(mode, g) \in Histories
  BY AllTypes DEF StartAct, StartRef, Marks
<1>6. act \in [Enabled -> Histories]
  BY <1>1, <1>5
<1>7. ref \in [Enabled -> Histories]
  BY <1>1, <1>5, HistoryTypes
<1>8. avail \in [Enabled -> BOOLEAN]
  <2>1. \A g \in Enabled : (g = mode /\ ErrUnfiltered[g]) \in BOOLEAN
    BY Zenon
  <2> QED
    BY <1>1, <2>1
<1>9. /\ refDelayed \in [Enabled -> {"reset", "fresh", "stale"}]
      /\ source \in [Enabled -> {"input", "delayed", "rate"}]
      /\ returned \in Nat
      /\ pc \in {"start", "meas", "regulate", "mode", "check"}
  BY <1>1
<1>10. tripped \in BOOLEAN
  BY <1>1, Zenon
<1> QED
  BY <1>2, <1>3, <1>4, <1>6, <1>7, <1>8, <1>9, <1>10 DEF TypeOK, Histories

\* The counters are below their periods, the one that is wrapped in time.
LEMMA WrappedTypes ==
    ASSUME TypeOK, now' \in Nat, NEW g \in Enabled
    PROVE  Wrapped(g) \in Nat /\ Wrapped(g) < Period[g]
<1>1. Period[g] \in Nat \ {0} /\ counter[g] \in Nat
  BY PeriodAssumption DEF TypeOK
<1>2. (now' % Period[g]) \in 0 .. Period[g] - 1
  BY <1>1, Division
<1>3. Counted(g) \in Nat
  BY <1>1, <1>2 DEF Counted
<1> QED
  BY <1>1, <1>3 DEF Wrapped

LEMMA MeasTypes ==
    ASSUME TypeOK, NEW invalid \in SUBSET Enabled, MeasSetRT(invalid) PROVE TypeOK'
<1>1. now' \in 0 .. Wrap - 1
  <2>1. now + 1 \in Nat /\ Wrap \in Nat \ {0}
    BY PeriodAssumption DEF TypeOK
  <2>2. (now + 1) % Wrap \in 0 .. Wrap - 1
    BY <2>1, Division
  <2> QED
    BY <2>1, <2>2 DEF MeasSetRT
<1>2. \A g \in Enabled : Wrapped(g) \in Nat /\ Wrapped(g) < Period[g]
  BY <1>1, WrappedTypes, PeriodAssumption
<1>3. counter' \in [Enabled -> Nat] /\ \A g \in Enabled : counter'[g] < Period[g]
  BY <1>2 DEF MeasSetRT
<1>4. returned' \in Nat
  BY <1>2 DEF MeasSetRT
<1>5. \A g \in Enabled : act[g] \in Histories /\ ref[g] \in Histories
  BY DEF TypeOK, Histories
<1>6. act' \in [Enabled -> Histories] /\ ref' \in [Enabled -> Histories]
  <2>1. /\ act' = [g \in Enabled |-> IF Wrapped(g) = 0 THEN Push(act[g]) ELSE act[g]]
        /\ ref' = [g \in Enabled |-> IF Wrapped(g) = 0 THEN Push(ref[g]) ELSE ref[g]]
    BY DEF MeasSetRT
  <2> QED
    BY <1>5, <2>1, HistoryTypes
<1>7. refDelayed' \in [Enabled -> {"reset", "fresh", "stale"}]
  <2>1. refDelayed' = [g \in Enabled |->
            IF g = mode THEN DelayedRef(ref[g], g, DelayCount(g)) ELSE refDelayed[g]]
    BY DEF MeasSetRT
  <2>2. \A g \in Enabled : refDelayed[g] \in {"reset", "fresh", "stale"}
    BY DEF TypeOK
  <2> QED
    BY <2>1, <2>2, DelayedTypes
<1>8. source' \in [Enabled -> {"input", "delayed", "rate"}]
  BY DEF MeasSetRT
<1>9. pc' \in {"start", "meas", "regulate", "mode", "check"}
  BY DEF MeasSetRT
<1>10. UNCHANGED <<mode, clock, avail, tripped>>
  BY DEF MeasSetRT
<1> QED
  BY <1>1, <1>3, <1>4, <1>6, <1>7, <1>8, <1>9, <1>10 DEF TypeOK, Histories

LEMMA RegulateTypes == ASSUME TypeOK, Regulate PROVE TypeOK'
<1>1. UNCHANGED <<mode, clock, now, counter, refDelayed, avail, source, returned, tripped>>
      /\ pc' = "mode"
  BY DEF Regulate
<1>2. \A g \in Enabled : act[g] \in Histories /\ ref[g] \in Histories
  BY DEF TypeOK, Histories
<1>3. act' \in [Enabled -> Histories] /\ ref' \in [Enabled -> Histories]
  <2>1. CASE RegulateRT
    <3>1. /\ act' = [g \in Enabled |->
                IF KeepsAct(g) /\ counter[g] = 0 THEN WriteNewest(act[g]) ELSE act[g]]
          /\ ref' = [g \in Enabled |->
                IF g = mode /\ counter[g] = 0 THEN WriteNewest(ref[g]) ELSE ref[g]]
      BY <2>1 DEF RegulateRT
    <3> QED
      BY <1>2, <3>1, HistoryTypes
  <2>2. CASE UNCHANGED hist
    BY <2>2 DEF hist, TypeOK, Histories
  <2> QED
    BY <2>1, <2>2 DEF Regulate
<1> QED
  BY <1>1, <1>3 DEF TypeOK, Histories

LEMMA ClientTypes ==
    ASSUME TypeOK, (\E m \in Modes : StartFunction(m)) \/ Check PROVE TypeOK'
<1>1. PICK m \in Modes :
          /\ ModeSetRT(m) /\ UNCHANGED <<clock, now, counter, source, returned>>
          /\ pc' \in {"check", "meas"} /\ (tripped' = tripped \/ tripped' = TRUE)
  BY DEF StartFunction, Check, Modes, TypeOK
<1>2. tripped' \in BOOLEAN
  BY <1>1, Zenon DEF TypeOK
<1> QED
  BY <1>1, <1>2, ModeSetTypes DEF TypeOK, Histories

LEMMA StepTypes == TypeOK /\ [Next]_vars => TypeOK'
<1> SUFFICES ASSUME TypeOK, [Next]_vars PROVE TypeOK'
  OBVIOUS
<1>1. CASE \E invalid \in SUBSET Enabled : MeasSetRT(invalid)
  BY <1>1, MeasTypes
<1>2. CASE Regulate
  BY <1>2, RegulateTypes
<1>3. CASE (\E m \in Modes : StartFunction(m)) \/ Check
  BY <1>3, ClientTypes
<1>4. CASE UNCHANGED vars
  BY <1>4 DEF vars, hist, TypeOK
<1> QED
  BY <1>1, <1>2, <1>3, <1>4 DEF Next

\* Every variable keeps its type and each counter stays below its period,
\* whatever the periods, the orders, the delays and the client.
THEOREM TypeCorrect == Spec => []TypeOK
<1> QED
  BY InitTypes, StepTypes, PTL DEF Spec

----------------------------------------------------------------------------
(* In step                                                                 *)

LEMMA InitFollows == ASSUME Synchronised PROVE Init => CountersFollow
<1> SUFFICES ASSUME Init PROVE CountersFollow
  OBVIOUS
<1>1. PICK client \in Clients :
          /\ mode = client[1] /\ clock = client[2]
          /\ now \in IF clock THEN 0 .. Wrap - 1 ELSE {0}
          /\ counter = [g \in Enabled |-> 0]
          /\ pc = IF EveryIteration THEN "start" ELSE "meas"
  BY DEF Init
<1>2. CASE clock
  <2>1. mode = "NONE" /\ pc = "start"
    BY <1>1, <1>2 DEF Synchronised
  <2> QED
    BY <2>1 DEF CountersFollow
<1>3. CASE ~clock
  <2>1. now = 0
    BY <1>1, <1>3
  <2>2. \A g \in Enabled : 0 % Period[g] = 0
    BY Small, PeriodAssumption
  <2> QED
    BY <1>1, <2>1, <2>2 DEF CountersFollow
<1> QED
  BY <1>2, <1>3

\* The counters are set from the time in mode NONE; else both count on.
LEMMA MeasFollows ==
    ASSUME Synchronised, IInv, NEW invalid \in SUBSET Enabled, MeasSetRT(invalid)
    PROVE  CountersFollow'
<1> SUFFICES ASSUME NEW g \in Enabled PROVE Wrapped(g) = now' % Period[g]
  BY DEF MeasSetRT, CountersFollow
<1>1. Period[g] \in Nat \ {0} /\ Wrap \in Nat \ {0} /\ Wrap % Period[g] = 0
      /\ now \in 0 .. Wrap - 1
  BY PeriodAssumption DEF Synchronised, IInv, TypeOK
<1>2. now' = IF mode = "NONE" /\ ~clock THEN 0 ELSE (now + 1) % Wrap
  BY DEF MeasSetRT
<1>3. CASE mode = "NONE"
  <2>1. now + 1 \in Nat
    BY <1>1
  <2>2. now' \in Nat
    BY <1>1, <1>2, <2>1, Division
  <2>3. (now' % Period[g]) \in 0 .. Period[g] - 1
    BY <1>1, <2>2, Division
  <2>4. Counted(g) = now' % Period[g]
    BY <1>3 DEF Counted
  <2> QED
    BY <1>1, <2>3, <2>4 DEF Wrapped
<1>4. CASE mode # "NONE"
  <2>1. counter[g] = now % Period[g]
    BY <1>4 DEF IInv, CountersFollow
  <2>2. Counted(g) = (now % Period[g]) + 1
    BY <1>4, <2>1 DEF Counted
  <2>3. now' = (now + 1) % Wrap
    BY <1>2, <1>4
  <2>4. now' % Period[g] = IF (now % Period[g]) + 1 >= Period[g] THEN 0 ELSE (now % Period[g]) + 1
    BY <1>1, <2>3, CountsAlong
  <2> QED
    BY <2>2, <2>4 DEF Wrapped
<1> QED
  BY <1>3, <1>4

LEMMA StepFollows == ASSUME Synchronised PROVE IInv /\ [Next]_vars => IInv'
<1> SUFFICES ASSUME IInv, [Next]_vars PROVE CountersFollow'
  BY StepTypes DEF IInv
<1>1. CASE \E invalid \in SUBSET Enabled : MeasSetRT(invalid)
  BY <1>1, MeasFollows
<1>2. CASE Regulate \/ (\E m \in Modes : StartFunction(m)) \/ Check
  <2>1. UNCHANGED <<now, counter>> /\ pc # "start"
    BY <1>2 DEF Regulate, StartFunction, Check
  <2> QED
    BY <2>1 DEF IInv, CountersFollow
<1>3. CASE UNCHANGED vars
  BY <1>3 DEF vars, IInv, CountersFollow
<1> QED
  BY <1>1, <1>2, <1>3 DEF Next

\* For all periods that divide into the 12 s, and any number of signals that are
\* enabled: the counters are in step with the time in every mode.
THEOREM InStepHolds == ASSUME Synchronised PROVE Spec => []InStep
<1>1. Init => IInv
  BY InitTypes, InitFollows DEF IInv
<1>2. IInv /\ [Next]_vars => IInv'
  BY StepFollows
<1>3. IInv => InStep
  BY DEF IInv, CountersFollow, InStep
<1> QED
  BY <1>1, <1>2, <1>3, PTL DEF Spec

----------------------------------------------------------------------------
(* Unbroken histories                                                      *)

\* A history without a hole; and one whose newest slot is still to be written.
Unbroken(h) == \A k \in Age : h[k] # "old" => \A j \in 0 .. k : h[j] # "old"
UnbrokenBefore(h) == \A k \in Age : k > 0 /\ h[k] # "old" => \A j \in 1 .. k : h[j] # "old"

\* Between regMgrMeasSetRT, which makes room for a new period, and
\* regMgrRegulateRT, which fills it, the newest slot is no one's. Before the
\* first iteration and in a mode NONE that is not a trip's, all slots are alike.
ActUnbroken(g) ==
    /\ pc = "start" => act[g] \in {All("init"), All("old")}
    /\ mode = "NONE" => act[g] = All("init")
    /\ mode # "NONE" => IF pc = "regulate" /\ counter[g] = 0
                        THEN UnbrokenBefore(act[g]) ELSE Unbroken(act[g])

ActInv ==
    /\ TypeOK
    /\ tripped => mode = "NONE"
    /\ ~tripped => \A g \in Enabled : ActUnbroken(g)

LEMMA Uniform ==
    /\ Unbroken(All("init")) /\ Unbroken(All("old"))
    /\ Push(All("init")) = All("init") /\ Push(All("old")) = All("old")
<1>1. /\ \A k \in Age : All("init")[k] = "init" /\ All("old")[k] = "old"
      /\ H - 1 \in Age /\ \A k \in Age : (k > 0 => k - 1 \in Age) /\ (0 .. k) \subseteq Age
  BY HistoryAssumption DEF All, Age
<1>2. Unbroken(All("init")) /\ Unbroken(All("old"))
  BY <1>1 DEF Unbroken
<1>3. Push(All("init")) = [k \in Age |-> "init"]
  BY <1>1 DEF Push
<1>4. Push(All("old")) = [k \in Age |-> "old"]
  BY <1>1 DEF Push
<1> QED
  BY <1>2, <1>3, <1>4 DEF All

LEMMA PushKeeps == ASSUME NEW h \in Histories, Unbroken(h) PROVE UnbrokenBefore(Push(h))
<1> SUFFICES ASSUME NEW k \in Age, k > 0, Push(h)[k] # "old", NEW j \in 1 .. k
             PROVE  Push(h)[j] # "old"
  BY DEF UnbrokenBefore
<1>1. k - 1 \in Age /\ j \in Age /\ j > 0 /\ j - 1 \in 0 .. k - 1
  BY HistoryAssumption DEF Age
<1>2. Push(h)[k] = h[k - 1] /\ Push(h)[j] = h[j - 1]
  BY <1>1 DEF Push
<1> QED
  BY <1>1, <1>2 DEF Unbroken

LEMMA WriteFills == ASSUME NEW h \in Histories, UnbrokenBefore(h) PROVE Unbroken(WriteNewest(h))
<1> DEFINE n == WriteNewest(h)
<1>1. 0 \in Age /\ n[0] = "own" /\ \A k \in Age : k > 0 => n[k] = h[k]
  BY HistoryAssumption DEF Age, WriteNewest, Histories
<1>2. SUFFICES ASSUME NEW k \in Age, n[k] # "old", NEW j \in 0 .. k PROVE n[j] # "old"
  BY DEF Unbroken
<1>3. j \in Age /\ k >= 0
  BY HistoryAssumption DEF Age
<1> HIDE DEF n
<1>4. CASE j = 0
  BY <1>1, <1>4
<1>5. CASE j > 0
  <2>1. k > 0 /\ j \in 1 .. k
    BY <1>3, <1>5 DEF Age
  <2> QED
    BY <1>1, <1>2, <1>3, <1>5, <2>1 DEF UnbrokenBefore
<1> QED
  BY <1>3, <1>4, <1>5

LEMMA InitAct == Init => ActInv
<1> SUFFICES ASSUME Init PROVE ActInv
  OBVIOUS
<1>1. act = [g \in Enabled |-> StartAct(mode, g)] /\ tripped = FALSE /\ pc # "regulate"
  BY DEF Init
<1>2. \A g \in Enabled : act[g] \in {All("init"), All("old")} /\ (mode = "NONE" => act[g] = All("init"))
  BY <1>1 DEF StartAct
<1> QED
  BY <1>1, <1>2, InitTypes, Uniform DEF ActInv, ActUnbroken

LEMMA StepAct == ASSUME EveryIteration PROVE ActInv /\ [Next]_vars => ActInv'
<1> SUFFICES ASSUME ActInv, [Next]_vars PROVE ActInv'
  OBVIOUS
<1>0. TypeOK' /\ TypeOK /\ \A g \in Enabled : act[g] \in Histories
  BY StepTypes DEF ActInv, TypeOK, Histories
<1>1. CASE \E invalid \in SUBSET Enabled : MeasSetRT(invalid)
  <2>1. /\ act' = [g \in Enabled |-> IF Wrapped(g) = 0 THEN Push(act[g]) ELSE act[g]]
        /\ counter' = [g \in Enabled |-> Wrapped(g)]
        /\ UNCHANGED <<mode, tripped>>
        /\ pc' = (IF pc = "start" THEN "meas" ELSE "regulate") /\ pc \in {"start", "meas"}
    BY <1>1 DEF MeasSetRT
  <2>2. ASSUME ~tripped, NEW g \in Enabled PROVE ActUnbroken(g)'
    <3>1. ActUnbroken(g) /\ act[g] \in Histories
      BY <1>0, <2>2 DEF ActInv
    <3>2. CASE Wrapped(g) # 0
      <4>1. act'[g] = act[g] /\ counter'[g] # 0
        BY <2>1, <3>2
      <4> QED
        BY <2>1, <3>1, <4>1 DEF ActUnbroken
    <3>3. CASE Wrapped(g) = 0
      <4>1. act'[g] = Push(act[g]) /\ counter'[g] = 0
        BY <2>1, <3>3
      <4>2. CASE pc = "start"
        <5>1. act'[g] \in {All("init"), All("old")} /\ act'[g] = act[g]
          BY <3>1, <4>1, <4>2, Uniform DEF ActUnbroken
        <5>2. Unbroken(act'[g])
          BY <5>1, Uniform
        <5> QED
          BY <2>1, <3>1, <4>2, <5>1, <5>2 DEF ActUnbroken
      <4>3. CASE pc # "start" /\ mode = "NONE"
        <5>1. act'[g] = All("init")
          BY <3>1, <4>1, <4>3, Uniform DEF ActUnbroken
        <5> QED
          BY <2>1, <4>3, <5>1 DEF ActUnbroken
      <4>4. CASE pc # "start" /\ mode # "NONE"
        <5>1. Unbroken(act[g])
          BY <2>1, <3>1, <4>4 DEF ActUnbroken
        <5>2. UnbrokenBefore(act'[g])
          BY <3>1, <4>1, <5>1, PushKeeps
        <5> QED
          BY <2>1, <4>1, <4>4, <5>2 DEF ActUnbroken
      <4> QED
        BY <4>2, <4>3, <4>4
    <3> QED
      BY <3>2, <3>3
  <2> QED
    BY <1>0, <2>1, <2>2 DEF ActInv
<1>2. CASE Regulate
  <2>1. pc = "regulate" /\ pc' = "mode" /\ UNCHANGED <<mode, counter, tripped>>
    BY <1>2 DEF Regulate
  <2>2. act' = [g \in Enabled |->
            IF mode # "NONE" /\ counter[g] = 0 THEN WriteNewest(act[g]) ELSE act[g]]
    BY <1>2 DEF Regulate, RegulateRT, KeepsAct
  <2>3. ASSUME ~tripped, NEW g \in Enabled PROVE ActUnbroken(g)'
    <3>1. ActUnbroken(g) /\ act[g] \in Histories
      BY <1>0, <2>3 DEF ActInv
    <3>2. CASE mode # "NONE" /\ counter[g] = 0
      <4>1. act'[g] = WriteNewest(act[g]) /\ UnbrokenBefore(act[g])
        BY <2>1, <2>2, <3>1, <3>2 DEF ActUnbroken
      <4>2. Unbroken(act'[g])
        BY <3>1, <4>1, WriteFills
      <4> QED
        BY <2>1, <3>2, <4>2 DEF ActUnbroken
    <3>3. CASE mode = "NONE" \/ counter[g] # 0
      <4>1. act'[g] = act[g]
        BY <2>2, <3>3
      <4> QED
        BY <2>1, <3>1, <3>3, <4>1 DEF ActUnbroken
    <3> QED
      BY <3>2, <3>3
  <2> QED
    BY <1>0, <2>1, <2>3 DEF ActInv
<1>3. CASE (\E m \in Modes : StartFunction(m)) \/ Check
  <2>1. PICK m \in Modes :
            /\ ModeSetRT(m) /\ pc \in {"mode", "check"} /\ pc' \in {"check", "meas"}
            /\ \/ m = mode /\ tripped' = tripped
               \/ m # "NONE" /\ ~tripped /\ tripped' = tripped
               \/ m = "NONE" /\ tripped' = TRUE
    BY <1>0, <1>3 DEF StartFunction, Check, Modes, TypeOK
  <2>2. mode' = m /\ act' = act
    BY <1>0, <2>1, ModeSetTypes
  <2>3. tripped' => mode' = "NONE"
    BY <2>1, <2>2 DEF ActInv
  <2>4. ASSUME ~tripped', NEW g \in Enabled PROVE ActUnbroken(g)'
    <3>1. ActUnbroken(g) /\ (m = mode \/ m # "NONE")
      BY <2>1, <2>4 DEF ActInv
    <3>2. Unbroken(act[g])
      BY <2>1, <3>1, Uniform DEF ActUnbroken
    <3> QED
      BY <2>1, <2>2, <3>1, <3>2 DEF ActUnbroken
  <2> QED
    BY <1>0, <2>3, <2>4 DEF ActInv
<1>4. CASE UNCHANGED vars
  BY <1>0, <1>4 DEF vars, hist, ActInv, ActUnbroken
<1> QED
  BY <1>1, <1>2, <1>3, <1>4 DEF Next

\* A client that calls regMgrRegulateRT every iteration, as cctest does, leaves
\* no hole in any actuation history, however the periods of the two signals
\* interleave and whatever mode is on.
THEOREM HistoryUnbrokenHolds == ASSUME EveryIteration PROVE Spec => []HistoryUnbroken
<1>1. Init => ActInv
  BY InitAct
<1>2. ActInv /\ [Next]_vars => ActInv'
  BY StepAct
<1>3. ActInv => HistoryUnbroken
  BY DEF ActInv, ActUnbroken, Unbroken, HistoryUnbroken
<1> QED
  BY <1>1, <1>2, <1>3, PTL DEF Spec

----------------------------------------------------------------------------
(* The references                                                          *)

\* "RST order + 1 (must be <= REG_RST_HISTORY_MASK)" (rst.h:135): it must where the
\* first iteration, which does not regulate, is a regulation period.
OrdersFit == \A g \in Enabled : Period[g] = 1 => Order[g] + 1 <= H - 1

\* The delay of the reference, an iteration into the period, is one of the
\* rst_order periods whose references regRstInitRefRT sets, and regRstDelayedRefRT
\* has a slot on either side of it in the history.
DelaysFit ==
    \A g \in Enabled : /\ RefDelay[g] <= Order[g] * Period[g] + 1
                       /\ RefDelay[g] <= (H - 2) * Period[g]

\* The references of the last rst_order + 1 periods are there; and the same
\* when there is room for that of a new period.
Ready(h, g) == \A k \in 0 .. Order[g] : h[k] # "old"
ReadyBefore(h, g) == \A k \in 1 .. Order[g] : h[k] # "old"

\* Of the regulated signal: at the start-up, whose first iteration does not
\* regulate, the whole history was set, so that a turn of it brings up a value
\* that is as good as new.
RefReady(g) ==
    /\ pc = "start" => /\ counter[g] = 0 /\ \A k \in Age : ref[g][k] # "old"
                       /\ Period[g] = 1 => ref[g][H - 1] = "init"
    /\ pc = "regulate" => returned = counter[g]
    /\ IF pc = "regulate" /\ counter[g] = 0 THEN ReadyBefore(ref[g], g) ELSE Ready(ref[g], g)

RefInv ==
    /\ TypeOK
    /\ \A g \in Enabled : (mode = g => RefReady(g)) /\ (avail[g] => mode = g)

LEMMA OrderAges == ASSUME NEW g \in Enabled PROVE Order[g] \in Nat /\ 0 .. Order[g] \subseteq Age
  BY HistoryAssumption DEF Age

LEMMA InitRefReady == ASSUME NEW h \in Histories, NEW g \in Enabled PROVE Ready(InitRef(h, g), g)
  BY OrderAges DEF Ready, InitRef

LEMMA PushReady ==
    ASSUME NEW h \in Histories, NEW g \in Enabled, Ready(h, g) PROVE ReadyBefore(Push(h), g)
<1> SUFFICES ASSUME NEW k \in 1 .. Order[g] PROVE Push(h)[k] # "old"
  BY DEF ReadyBefore
<1>1. k \in Age /\ k > 0 /\ k - 1 \in 0 .. Order[g]
  BY OrderAges DEF Age
<1>2. Push(h)[k] = h[k - 1]
  BY <1>1 DEF Push
<1> QED
  BY <1>1, <1>2 DEF Ready

\* A history that was set throughout is still ready when its oldest slot, with
\* the value the newest should have, becomes the newest.
LEMMA PushFilled ==
    ASSUME NEW h \in Histories, NEW g \in Enabled, \A k \in Age : h[k] # "old", h[H - 1] = "init"
    PROVE  Ready(Push(h), g)
<1> SUFFICES ASSUME NEW k \in 0 .. Order[g] PROVE Push(h)[k] # "old"
  BY DEF Ready
<1>1. k \in Age /\ (k > 0 => k - 1 \in Age)
  BY OrderAges DEF Age
<1> QED
  BY <1>1 DEF Push

LEMMA WriteReady ==
    ASSUME NEW h \in Histories, NEW g \in Enabled, ReadyBefore(h, g) PROVE Ready(WriteNewest(h), g)
<1> SUFFICES ASSUME NEW k \in 0 .. Order[g] PROVE WriteNewest(h)[k] # "old"
  BY DEF Ready
<1>1. k \in Age /\ (k # 0 => k \in 1 .. Order[g])
  BY OrderAges
<1>2. WriteNewest(h)[k] = IF k = 0 THEN "own" ELSE h[k]
  BY <1>1 DEF WriteNewest, Histories
<1> QED
  BY <1>1, <1>2 DEF ReadyBefore

LEMMA InitRefInv == ASSUME OrdersFit PROVE Init => RefInv
<1> SUFFICES ASSUME Init PROVE RefInv
  OBVIOUS
<1>1. /\ ref = [g \in Enabled |->
                  IF g = mode THEN InitRef(StartRef(mode, g), g) ELSE StartRef(mode, g)]
      /\ avail = [g \in Enabled |-> g = mode /\ ErrUnfiltered[g]]
      /\ counter = [g \in Enabled |-> 0] /\ pc \in {"start", "meas"}
  BY DEF Init
<1>2. ASSUME NEW g \in Enabled, mode = g PROVE RefReady(g)
  <2>1. ref[g] = InitRef(All("init"), g) /\ All("init") \in Histories
    BY <1>1, <1>2, AllTypes DEF StartRef, Marks
  <2>2. Ready(ref[g], g)
    BY <2>1, InitRefReady
  <2>3. H - 1 \in Age /\ (Period[g] = 1 => H - 1 > Order[g])
    BY HistoryAssumption, OrderAges DEF OrdersFit, Age
  <2>4. \A k \in Age : ref[g][k] = IF k <= Order[g] THEN "own" ELSE "init"
    <3>1. \A k \in Age : All("init")[k] = "init"
      BY DEF All
    <3>2. \A k \in Age : k \in 0 .. Order[g] <=> k <= Order[g]
      BY OrderAges DEF Age
    <3> QED
      BY <2>1, <3>1, <3>2 DEF InitRef
  <2>5. (Period[g] = 1 => ref[g][H - 1] = "init") /\ \A k \in Age : ref[g][k] # "old"
    BY <2>3, <2>4, OrderAges, HistoryAssumption DEF Age
  <2> QED
    BY <1>1, <2>2, <2>5 DEF RefReady
<1>3. \A g \in Enabled : avail[g] => mode = g
  BY <1>1
<1> QED
  BY <1>2, <1>3, InitTypes DEF RefInv

LEMMA MeasRefInv ==
    ASSUME RefInv, NEW invalid \in SUBSET Enabled, MeasSetRT(invalid) PROVE RefInv'
<1>0. TypeOK /\ TypeOK' /\ \A g \in Enabled : ref[g] \in Histories
  BY MeasTypes DEF RefInv, TypeOK, Histories
<1>1. /\ ref' = [g \in Enabled |-> IF Wrapped(g) = 0 THEN Push(ref[g]) ELSE ref[g]]
      /\ counter' = [g \in Enabled |-> Wrapped(g)]
      /\ returned' = IF mode \in Enabled THEN Wrapped(mode) ELSE 0
      /\ UNCHANGED <<mode, avail>>
      /\ pc \in {"start", "meas"} /\ pc' = (IF pc = "start" THEN "meas" ELSE "regulate")
  BY DEF MeasSetRT
<1>2. ASSUME NEW g \in Enabled, mode = g PROVE RefReady(g)'
  <2>1. RefReady(g) /\ Ready(ref[g], g) /\ ref[g] \in Histories
    BY <1>0, <1>1, <1>2 DEF RefInv, RefReady
  <2>2. returned' = counter'[g] /\ counter'[g] = Wrapped(g)
    BY <1>1, <1>2
  <2>3. CASE Wrapped(g) # 0
    <3>1. ref'[g] = ref[g]
      BY <1>1, <2>3
    <3>2. Ready(ref'[g], g)
      BY <2>1, <3>1
    <3> QED
      BY <1>1, <2>2, <2>3, <3>2 DEF RefReady
  <2>4. CASE Wrapped(g) = 0 /\ pc = "start"
    <3>1. ref'[g] = Push(ref[g])
      BY <1>1, <2>4
    <3>2. Period[g] = 1
      <4>1. counter[g] = 0 /\ mode # "NONE" /\ Period[g] \in Nat \ {0}
        BY <1>2, <2>1, <2>4, SignalsAssumption, PeriodAssumption DEF RefReady
      <4>2. Counted(g) = 1
        BY <4>1 DEF Counted
      <4> QED
        BY <2>4, <4>1, <4>2 DEF Wrapped
    <3>3. Ready(ref'[g], g)
      BY <2>1, <2>4, <3>1, <3>2, PushFilled DEF RefReady
    <3> QED
      BY <1>1, <2>4, <3>3 DEF RefReady
  <2>5. CASE Wrapped(g) = 0 /\ pc # "start"
    <3>1. ref'[g] = Push(ref[g])
      BY <1>1, <2>5
    <3>2. ReadyBefore(ref'[g], g)
      BY <2>1, <3>1, PushReady
    <3> QED
      BY <1>1, <2>2, <2>5, <3>2 DEF RefReady
  <2> QED
    BY <2>3, <2>4, <2>5
<1> QED
  BY <1>0, <1>1, <1>2 DEF RefInv

LEMMA RegulateRefInv == ASSUME RefInv, Regulate PROVE RefInv'
<1>0. TypeOK /\ TypeOK' /\ \A g \in Enabled : ref[g] \in Histories
  BY RegulateTypes DEF RefInv, TypeOK, Histories
<1>1. pc = "regulate" /\ pc' = "mode" /\ UNCHANGED <<mode, counter, avail>>
  BY DEF Regulate
<1>2. ASSUME NEW g \in Enabled, mode = g PROVE RefReady(g)'
  <2>1. RefReady(g) /\ ref[g] \in Histories
    BY <1>0, <1>2 DEF RefInv
  <2>2. CASE counter[g] = 0
    <3>1. RegulateRT
      BY <1>1, <2>1, <2>2 DEF Regulate, RefReady
    <3>2. ref'[g] = WriteNewest(ref[g])
      BY <1>2, <2>2, <3>1 DEF RegulateRT
    <3>3. Ready(ref'[g], g)
      BY <1>1, <2>1, <2>2, <3>2, WriteReady DEF RefReady
    <3> QED
      BY <1>1, <3>3 DEF RefReady
  <2>3. CASE counter[g] # 0
    <3>1. ref'[g] = ref[g]
      BY <2>3 DEF Regulate, RegulateRT, hist
    <3>2. Ready(ref'[g], g)
      BY <1>1, <2>1, <2>3, <3>1 DEF RefReady
    <3> QED
      BY <1>1, <3>2 DEF RefReady
  <2> QED
    BY <2>2, <2>3
<1> QED
  BY <1>0, <1>1, <1>2 DEF RefInv

\* A signal that begins to be regulated has its references set; the one that was
\* regulated loses its delayed reference.
LEMMA ClientRefInv ==
    ASSUME RefInv, (\E m \in Modes : StartFunction(m)) \/ Check PROVE RefInv'
<1>0. TypeOK /\ TypeOK' /\ \A g \in Enabled : ref[g] \in Histories
  BY ClientTypes DEF RefInv, TypeOK, Histories
<1>1. PICK m \in Modes : /\ ModeSetRT(m) /\ pc \in {"mode", "check"} /\ pc' \in {"check", "meas"}
                         /\ counter' = counter
  BY <1>0 DEF StartFunction, Check, Modes, TypeOK
<1>2. CASE m = mode
  <2>1. UNCHANGED <<mode, ref, avail>>
    BY <1>1, <1>2 DEF ModeSetRT
  <2>2. ASSUME NEW g \in Enabled, mode = g PROVE RefReady(g)'
    BY <1>1, <2>1, <2>2 DEF RefInv, RefReady
  <2> QED
    BY <1>0, <2>1, <2>2 DEF RefInv
<1>3. CASE m # mode
  <2>1. /\ mode' = m
        /\ ref' = [g \in Enabled |-> IF g = m THEN InitRef(ref[g], g) ELSE ref[g]]
        /\ avail' = [g \in Enabled |->
              IF g = m THEN ErrUnfiltered[g] ELSE avail[g] /\ g # ResetSignal(m)]
    BY <1>1, <1>3 DEF ModeSetRT
  <2>2. ASSUME NEW g \in Enabled, mode' = g PROVE RefReady(g)'
    <3>1. ref'[g] = InitRef(ref[g], g) /\ ref[g] \in Histories
      BY <1>0, <2>1, <2>2
    <3>2. Ready(ref'[g], g)
      BY <3>1, InitRefReady
    <3> QED
      BY <1>1, <3>2 DEF RefReady
  <2>3. ASSUME NEW g \in Enabled, avail'[g] PROVE mode' = g
    <3>1. CASE g # m
      <4>1. avail[g] /\ g # mode
        BY <2>1, <2>3, <3>1 DEF ResetSignal
      <4> QED
        BY <4>1 DEF RefInv
    <3> QED
      BY <2>1, <3>1
  <2> QED
    BY <1>0, <2>2, <2>3 DEF RefInv
<1> QED
  BY <1>2, <1>3

LEMMA StepRefInv == RefInv /\ [Next]_vars => RefInv'
<1> SUFFICES ASSUME RefInv, [Next]_vars PROVE RefInv'
  OBVIOUS
<1>1. CASE \E invalid \in SUBSET Enabled : MeasSetRT(invalid)
  BY <1>1, MeasRefInv
<1>2. CASE Regulate
  BY <1>2, RegulateRefInv
<1>3. CASE (\E m \in Modes : StartFunction(m)) \/ Check
  BY <1>3, ClientRefInv
<1>4. CASE UNCHANGED vars
  <2>1. TypeOK'
    BY <1>4, StepTypes DEF RefInv
  <2> QED
    BY <1>4, <2>1 DEF vars, hist, RefInv, RefReady
<1> QED
  BY <1>1, <1>2, <1>3, <1>4 DEF Next

\* For all periods, orders that fit and clients, cctest's and ccrt's: from the
\* first period after a change of mode on, the references a new actuation is
\* calculated from are those of their own periods.
THEOREM RefFreshHolds == ASSUME OrdersFit PROVE Spec => []RefFresh
<1>1. Init => RefInv
  BY InitRefInv
<1>2. RefInv /\ [Next]_vars => RefInv'
  BY StepRefInv
<1>3. RefInv => RefFresh
  <2> SUFFICES ASSUME RefInv, pc = "regulate", mode \in Enabled, returned = 0
               PROVE  ReadyBefore(ref[mode], mode)
    BY DEF RefFresh, ReadyBefore
  <2> QED
    BY DEF RefInv, RefReady
<1> QED
  BY <1>1, <1>2, <1>3, PTL DEF Spec

----------------------------------------------------------------------------
(* The delayed reference                                                   *)

LEMMA Larger == ASSUME NEW a \in Int, NEW b \in Int, a >= b, NEW p \in Nat PROVE p * a >= p * b
<1>1. a - b \in Nat
  OBVIOUS
<1>2. p * (a - b) \in Nat
  BY <1>1
<1>3. p * (a - b) = p * a - p * b
  OBVIOUS
<1> QED
  BY <1>2, <1>3

\* From the second iteration of a period to the first of the next, what the
\* delayed reference is interpolated from is ready.
LEMMA DelayedIsReady ==
    ASSUME DelaysFit, NEW g \in Enabled, NEW c \in Nat \ {0}, NEW k \in DelayedSlots(g, c)
    PROVE  k \in 0 .. Order[g]
<1> DEFINE p == Period[g]
           delay == RefDelay[g] - c
           d == delay \div p
           r == delay % p
<1>1. p \in Nat \ {0} /\ RefDelay[g] \in Nat /\ Order[g] \in Nat /\ H \in Nat /\ H > 2
  BY PeriodAssumption, DelayAssumption, HistoryAssumption, OrderAges
<1>2. RefDelay[g] <= Order[g] * p + 1 /\ RefDelay[g] <= (H - 2) * p
  BY DEF DelaysFit
<1>3. CASE RefDelay[g] <= c
  BY <1>1, <1>3 DEF DelayedSlots
<1>4. CASE ~(RefDelay[g] <= c)
  <2>1. delay \in Nat /\ delay <= Order[g] * p /\ delay < (H - 2) * p
    <3> HIDE DEF p
    <3>1. Order[g] * p \in Int /\ (H - 2) * p \in Int
      BY <1>1
    <3> QED
      BY <1>1, <1>2, <1>4, <3>1
  <2> HIDE DEF delay, p
  <2>2. r \in 0 .. p - 1 /\ delay = p * d + r /\ d \in Nat
    BY <1>1, <2>1, Division
  <2>3. DelayedSlots(g, c) = IF d >= H - 2 THEN {H - 1} ELSE IF r = 0 THEN {d} ELSE {d, d + 1}
    BY <1>4 DEF DelayedSlots, delay, p
  <2> HIDE DEF d, r
  <2>4. p * d \in Int /\ p * Order[g] \in Int /\ p * (H - 2) \in Int
        /\ Order[g] * p = p * Order[g] /\ (H - 2) * p = p * (H - 2)
    BY <1>1, <2>2
  <2>5. d < H - 2
    <3> SUFFICES ASSUME d >= H - 2 PROVE FALSE
      BY <1>1, <2>2
    <3>1. p * d >= p * (H - 2)
      BY <1>1, <2>2, Larger
    <3> QED
      BY <2>1, <2>2, <2>4, <3>1
  <2>6. d <= Order[g] /\ (r > 0 => d + 1 <= Order[g])
    <3>1. CASE d >= Order[g] + 1
      <4>1. p * d >= p * (Order[g] + 1) /\ p * (Order[g] + 1) = p * Order[g] + p
        BY <1>1, <2>2, <3>1, Larger
      <4> QED
        BY <1>1, <2>1, <2>2, <2>4, <4>1
    <3>2. CASE d = Order[g] /\ r > 0
      BY <2>1, <2>2, <2>4, <3>2
    <3> QED
      BY <1>1, <2>2, <3>1, <3>2
  <2> QED
    BY <1>1, <2>2, <2>3, <2>5, <2>6
<1> QED
  BY <1>3, <1>4

LEMMA MeasDelayed ==
    ASSUME DelaysFit, RefInv, NEW invalid \in SUBSET Enabled, MeasSetRT(invalid), pc' = "regulate"
    PROVE  DelayedRefFresh'
<1>0. TypeOK /\ TypeOK'
  BY MeasTypes DEF RefInv
<1>1. /\ refDelayed' = [g \in Enabled |->
            IF g = mode THEN DelayedRef(ref[g], g, DelayCount(g)) ELSE refDelayed[g]]
      /\ source' = [g \in Enabled |->
            IF g \notin invalid THEN "input" ELSE IF avail[g] THEN "delayed" ELSE "rate"]
      /\ UNCHANGED <<mode, avail>> /\ pc \in {"start", "meas"}
  BY DEF MeasSetRT
<1>2. ASSUME NEW g \in Enabled, mode = g PROVE refDelayed'[g] = "fresh"
  <2>1. Ready(ref[g], g)
    BY <1>1, <1>2 DEF RefInv, RefReady
  <2>2. counter[g] + 1 \in Nat \ {0}
    BY <1>0 DEF TypeOK
  <2>3. mode # "NONE"
    BY <1>2, SignalsAssumption
  <2>4. DelayCount(g) \in Nat \ {0}
    BY <2>2, <2>3 DEF DelayCount, Counted
  <2>5. \A k \in DelayedSlots(g, DelayCount(g)) : ref[g][k] # "old"
    BY <2>1, <2>4, DelayedIsReady DEF Ready
  <2> QED
    BY <1>1, <1>2, <2>5 DEF DelayedRef
<1>3. ASSUME NEW g \in Enabled, source'[g] = "delayed" PROVE mode' = g
  <2>1. avail[g]
    BY <1>1, <1>3
  <2> QED
    BY <1>1, <2>1 DEF RefInv
<1> QED
  BY <1>1, <1>2, <1>3 DEF DelayedRefFresh

LEMMA StepDelayed ==
    ASSUME DelaysFit
    PROVE  RefInv /\ DelayedRefFresh /\ [Next]_vars => RefInv' /\ DelayedRefFresh'
<1> SUFFICES ASSUME RefInv, DelayedRefFresh, [Next]_vars PROVE DelayedRefFresh'
  BY StepRefInv
<1>1. CASE \E invalid \in SUBSET Enabled : MeasSetRT(invalid)
  <2>1. CASE pc' = "regulate"
    BY <1>1, <2>1, MeasDelayed
  <2>2. CASE pc' # "regulate"
    BY <2>2 DEF DelayedRefFresh
  <2> QED
    BY <2>1, <2>2
<1>2. CASE Regulate \/ (\E m \in Modes : StartFunction(m)) \/ Check
  <2>1. pc' # "regulate"
    BY <1>2 DEF Regulate, StartFunction, Check
  <2> QED
    BY <2>1 DEF DelayedRefFresh
<1>3. CASE UNCHANGED vars
  BY <1>3 DEF vars, DelayedRefFresh
<1> QED
  BY <1>1, <1>2, <1>3 DEF Next

\* For all periods, and delays of the reference within the references that are
\* set at a change of mode (RegLoopPI's is not): the delayed reference is never
\* interpolated from a slot that is left over, and an invalid measurement is
\* replaced by it for the regulated signal only.
THEOREM DelayedRefFreshHolds ==
    ASSUME OrdersFit, DelaysFit PROVE Spec => []DelayedRefFresh
<1>1. Init => RefInv /\ DelayedRefFresh
  <2>1. Init => pc # "regulate"
    BY DEF Init
  <2> QED
    BY <2>1, InitRefInv DEF DelayedRefFresh
<1>2. RefInv /\ DelayedRefFresh /\ [Next]_vars => RefInv' /\ DelayedRefFresh'
  BY StepDelayed
<1> QED
  BY <1>1, <1>2, PTL DEF Spec
====
