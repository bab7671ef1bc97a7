------------------------------ MODULE FuncRun ------------------------------
(***************************************************************************)
(* cctest's RUN command: the functions of GLOBAL CYCLE_SELECTOR are armed    *)
(* (ccInitFunctions) and played one after the other, with ramps between them *)
(* (ccRunStartFunction), possibly interrupted by dynamic economy, by an abort *)
(* or by a trip of the converter (ccRunSimulation); or only generated, with   *)
(* time running forward (ccRunFuncGen) or in reverse.  Time counts iterations.*)
(* What a function returns besides its status is in FuncGen, and what libreg   *)
(* does with it in RegLoop: here a trip may come in any iteration.            *)
(***************************************************************************)
EXTENDS Integers, Sequences, FiniteSets, TLC

CONSTANTS Functions,   \* REF FUNCTION, REG_MODE and PREFUNC_POLICY, durations and tables
          Playlists,   \* GLOBAL CYCLE_SELECTOR
          TestSels,    \* GLOBAL TEST_CYC_SEL and TEST_REF_CYC_SEL
          Windows,     \* GLOBAL DYN_ECO_TIME
          Sims,        \* kinds of run
          Advance,     \* reg_mgr.ref_advance when regulating
          Period,      \* iterations of a regulation period
          RunDelay, StopDelay, Plateau,
          RampTimes,   \* durations of the ramps between functions
          PlepTimes,   \* durations of the function of dynamic economy
          MaxRuns,     \* bound: RUN commands
          MaxTime      \* bound: iterations of a run, more than any run that ends takes

ASSUME RunAssumption ==
  /\ Advance \in Nat /\ Period \in Nat \ {0} /\ RunDelay \in Nat /\ StopDelay \in Nat
  /\ Plateau \in Nat /\ RampTimes \subseteq Nat /\ PlepTimes \subseteq Nat
  /\ MaxRuns \in Nat /\ MaxTime \in Nat
  /\ Sims \subseteq {"load", "forward", "reverse"}

Selectors == 1 .. 2

\* What ccParsGet lets into the parameters.
ASSUME ParsAssumption ==
  /\ \A f \in Functions : /\ f.prefunc \in {"RAMP", "MIN", "MINMAX"}
                          /\ f.mode \in {"VOLTAGE", "CURRENT", "FIELD"}
                          /\ f.end \in Nat
  /\ Windows \subseteq Nat \X Nat
  /\ \A list \in Playlists : list \in Seq(Selectors) /\ list # << >>
  /\ TestSels \subseteq (0 .. 2) \X (0 .. 2)

VARIABLES pars,      \* the parameters of the run
          runs,      \* RUN commands so far
          at,        \* where the program is
          now,       \* iter_time
          cc,        \* struct ccrun
          mode,      \* reg_mgr.reg_mode
          direct,    \* the static variables of ccRefDirectRT
          tripped,   \* the time of a trip
          aborted,   \* is_abort_active
          played     \* the functions started, as indices of the playlist

vars == <<pars, runs, at, now, cc, mode, direct, tripped, aborted, played>>

Never == -1
None == [fn |-> "NONE", of |-> 0]
Ramp == [fn |-> "RAMP", of |-> 0]
Plep == [fn |-> "PLEP", of |-> 0]
FunctionOf(sel) == [fn |-> pars.ref[sel].fn, of |-> sel]

Zeroed ==
  [cycles |-> << >>, num |-> 0, idx |-> 0, sel |-> 1, armed |-> {},
   pref |-> 0, ramps |-> 0, ramp |-> [start |-> 0, end |-> 0], func |-> None,
   origin |-> 0, end |-> 0, seg |-> [s \in Selectors |-> 0],
   eco |-> [func |-> None, saved |-> None, offset |-> 0, log |-> 0, end |-> 0]]

-----------------------------------------------------------------------------
(***************************************************************************)
(* Preparing the run.                                                       *)
(***************************************************************************)
\* The selector and the source of RST parameters of each cycle.
Cycles(p) ==
  [i \in DOMAIN p.list |->
     LET test == p.test[1] # 0 /\ p.test[1] = p.list[i]
     IN [sel |-> IF test /\ p.test[2] > 0 THEN p.test[2] ELSE p.list[i],
         source |-> IF test THEN "test" ELSE "operational"]]

\* What ccInitFunctions and ccInitSimLoad refuse.
Refused(p) ==
  LET used == { Cycles(p)[i].sel : i \in DOMAIN p.list }
  IN \/ p.sim = "reverse" /\ Len(p.list) > 1
     \/ \E s \in used : p.ref[s].fn = "NONE" \/ ~p.ref[s].valid
     \/ p.sim # "load" /\ \E s \in used : p.ref[s].mode # "VOLTAGE"
     \/ \E i \in DOMAIN p.list : p.ref[p.list[i]].fn = "NONE"

InitFunctions(p) ==
  [Zeroed EXCEPT !.cycles = Cycles(p), !.num = Len(p.list),
                 !.armed = { Cycles(p)[i].sel : i \in DOMAIN p.list }]

-----------------------------------------------------------------------------
(***************************************************************************)
(* Starting ramps and functions.                                            *)
(***************************************************************************)
Adv(m) == IF m = "VOLTAGE" THEN 0 ELSE Advance
RegPeriod(m) == IF m = "VOLTAGE" THEN 1 ELSE Period
Counter(m, t) == t % RegPeriod(m)

\* struct ccrun and the mode after a call.
Now(c, m) == [cc |-> c, mode |-> m]

StartRamp(c, m, delay, duration) ==
  Now([c EXCEPT !.func = Ramp, !.ramp = [start |-> delay, end |-> delay + duration],
                !.origin = now + Adv(m) - Counter(m, now), !.pref = @ + 1], m)

\* The ramps before a function: one, two or three, as its policy has it.
Ramps == [RAMP |-> 1, MIN |-> 2, MINMAX |-> 3]

FirstRampKeepingSelector(c, m) ==
  LET i == c.idx + 1
      last == [c EXCEPT !.idx = i, !.ramps = 1]
      next == [c EXCEPT !.idx = i, !.ramps = Ramps[pars.ref[c.sel].prefunc]]
  IN IF i >= c.num THEN { StartRamp(last, m, StopDelay, 0) }
     ELSE { StartRamp(next, pars.ref[c.sel].mode, 0, d) : d \in RampTimes }

\* The first ramp waits for a while if the reference is where it has to be.
FirstRamp(c, m) ==
  LET i == c.idx + 1
      last == [c EXCEPT !.idx = i, !.ramps = 1]
      sel == c.cycles[i + 1].sel
      next == [c EXCEPT !.idx = i, !.sel = sel, !.ramps = Ramps[pars.ref[sel].prefunc]]
  IN IF i >= c.num THEN { StartRamp(last, m, StopDelay, 0) }
     ELSE { StartRamp(next, pars.ref[sel].mode, 0, d) : d \in RampTimes }
          \cup { StartRamp(next, pars.ref[sel].mode, Plateau, 0) }

NextRamp(c, m) == { StartRamp(c, m, Plateau, d) : d \in RampTimes }

StartNextKeepingRamps(c) ==
  LET f == pars.ref[c.sel]
  IN Now([c EXCEPT !.func = FunctionOf(c.sel), !.origin = now + RunDelay,
                   !.end = now + RunDelay + f.end,
                   !.eco.func = None, !.eco.offset = 0,
                   !.seg[c.sel] = IF f.fn = "DIRECT" THEN 0 ELSE @], f.mode)

StartNext(c) ==
  LET f == pars.ref[c.sel]
  IN Now([c EXCEPT !.func = FunctionOf(c.sel), !.origin = now + RunDelay,
                   !.end = now + RunDelay + f.end, !.pref = 0, !.ramps = 1,
                   !.eco.func = None, !.eco.offset = 0,
                   !.seg[c.sel] = IF f.fn = "DIRECT" THEN 0 ELSE @], f.mode)

\* No result is the end of the simulation.
StartFunction(c, m) ==
  IF c.pref < c.ramps THEN (IF c.pref = 0 THEN FirstRamp(c, m) ELSE NextRamp(c, m))
  ELSE IF c.idx >= c.num THEN {} ELSE { StartNext(c) }

-----------------------------------------------------------------------------
(***************************************************************************)
(* The functions.                                                           *)
(***************************************************************************)
Status(start, end, t) == IF t < start THEN "PRE" ELSE IF t > end THEN "POST" ELSE "DURING"

\* DIRECT ramps from one reference of its table to the next, with the ramp the
\* pre-functions use.  After the last segment it returns the status the ramp had.
DirectRT(c, d, sel, t) ==
  LET f == pars.ref[sel]
      n == Len(f.time)
      d0 == IF c.seg[sel] = 0 THEN [d EXCEPT !.status = "POST"] ELSE d
      s == CHOOSE i \in c.seg[sel] .. n : (i = n \/ t < f.time[i + 1])
                                          /\ \A j \in c.seg[sel] .. (i - 1) : t >= f.time[j + 1]
      c1 == [c EXCEPT !.seg[sel] = s]
      from == t - RegPeriod(f.mode)
      c2 == IF f.ref[s + 1] = d0.next THEN c1
            ELSE [c1 EXCEPT !.ramp = [start |-> from, end |-> from + f.ramp]]
  IN IF t < 0 THEN [cc |-> c, direct |-> d, status |-> "PRE"]
     ELSE IF s = n THEN [cc |-> c1, direct |-> d0, status |-> d0.status]
     ELSE [cc |-> c2, status |-> "DURING",
           direct |-> [next |-> f.ref[s + 1], status |-> Status(c2.ramp.start, c2.ramp.end, t)]]

\* fg_func, at a time of the function.
Generate(c, d, t) ==
  IF c.func.fn = "DIRECT" THEN DirectRT(c, d, c.func.of, t)
  ELSE [cc |-> c, direct |-> d,
        status |-> IF c.func = Ramp THEN Status(c.ramp.start, c.ramp.end, t)
                   ELSE IF c.func = Plep THEN Status(0, c.eco.end, t)
                   ELSE Status(0, pars.ref[c.func.of].end - 1, t)]

\* Dynamic economy replaces the rest of a window of the function by a PLEP that
\* meets it again at the end of the window, if it can start in time.
EcoOff(c) ==
  \/ c.pref > 0 \/ c.func.fn = "RAMP"
  \/ now - c.origin + Adv(mode) < pars.window[1]
  \/ pars.window[2] > c.end

\* Both calls of the function at the end of the window are made for real.
EcoStart(c, d) ==
  LET end == pars.window[2] - c.origin + Adv(mode)
      x == Generate(c, d, end)
      y == Generate(x.cc, x.direct, end + RegPeriod(mode))
      skipped == [y.cc EXCEPT !.eco.func = c.func, !.eco.saved = None, !.eco.offset = 0]
      Taken(n) == [y.cc EXCEPT !.func = Plep,
                     !.eco = [func |-> c.func, saved |-> c.func, offset |-> end - n,
                              log |-> @.log + 1, end |-> n]]
  IN { [cc |-> skipped, direct |-> y.direct] }
     \cup { [cc |-> Taken(n), direct |-> y.direct] :
              n \in { k \in PlepTimes : end - k >= now - c.origin + Adv(mode) } }

\* The plep is left when the function has reached the end of the window.
EcoResumeLater(x) ==
  IF x.cc.eco.saved = None \/ now <= pars.window[2] THEN x
  ELSE [x EXCEPT !.cc.func = x.cc.eco.func,
                 !.cc.eco.saved = None, !.cc.eco.offset = 0, !.cc.eco.log = @ + 1]

EcoResume(x) ==
  IF x.cc.eco.saved = None \/ now < pars.window[2] THEN x
  ELSE [x EXCEPT !.cc.func = x.cc.eco.func,
                 !.cc.eco.saved = None, !.cc.eco.offset = 0, !.cc.eco.log = @ + 1]

DynamicEconomy(c, d) ==
  LET here == [cc |-> c, direct |-> d]
  IN IF pars.window[1] = 0 \/ EcoOff(c) THEN { here }
     ELSE IF c.eco.func = None THEN { EcoResume(x) : x \in EcoStart(c, d) }
     ELSE { EcoResume(here) }

\* What the iteration gives: the time is that of the PLEP while it runs.
Reference(x) ==
  LET t == now - x.cc.origin + Adv(mode)
  IN Generate(x.cc, x.direct, IF ~EcoOff(x.cc) /\ x.cc.eco.saved # None THEN t - x.cc.eco.offset ELSE t)

\* A ramp to zero takes over, and no other function is started after it.
AbortKeepingNext(c, n) ==
  [c EXCEPT !.ramp = [start |-> 0, end |-> n], !.origin = now + Adv(mode),
            !.func = Ramp, !.pref = 0]

Abort(c, n) ==
  [c EXCEPT !.ramp = [start |-> 0, end |-> n], !.origin = now + Adv(mode), !.func = Ramp,
            !.num = IF c.pref = 0 THEN c.idx + 1 ELSE c.idx, !.pref = 0]

-----------------------------------------------------------------------------
(***************************************************************************)
(* The program.                                                             *)
(***************************************************************************)
Init ==
  /\ pars \in [ref : [Selectors -> Functions], list : Playlists, test : TestSels,
               window : Windows, sim : Sims]
  /\ runs = 0 /\ at = "idle" /\ now = 0 /\ cc = Zeroed /\ mode = "NONE"
  /\ direct = [next |-> 0, status |-> "PRE"] /\ tripped = Never /\ aborted = FALSE /\ played = << >>

\* RUN: a run starts with its first function, without a ramp.
Run ==
  /\ at \in {"idle", "end"} /\ runs < MaxRuns
  /\ runs' = runs + 1 /\ now' = 0 /\ tripped' = Never /\ aborted' = FALSE
  /\ LET c == [InitFunctions(pars) EXCEPT !.sel = Cycles(pars)[1].sel]
         f == pars.list[1]
         x == pars.ref[f]
         start == StartNext(c)
     IN IF Refused(pars) THEN at' = "end" /\ cc' = c /\ mode' = mode /\ played' = << >>
        ELSE /\ at' = pars.sim
             /\ played' = <<0>>
             /\ IF pars.sim = "load"
                THEN /\ cc' = [start.cc EXCEPT !.origin = RunDelay, !.end = RunDelay + pars.ref[c.sel].end]
                     /\ mode' = start.mode
                ELSE /\ cc' = [c EXCEPT !.sel = f, !.func = [fn |-> x.fn, of |-> f],
                                        !.end = x.end, !.origin = RunDelay]
                     /\ mode' = mode
  /\ UNCHANGED <<pars, direct>>

\* The converter may trip in any iteration; the mode is then NONE and no function
\* is called any more.
TripOrNot(c, m) ==
  /\ now' = now + 1
  /\ \/ cc' = c /\ mode' = m /\ UNCHANGED tripped
     \/ /\ cc' = [c EXCEPT !.num = IF c.pref = 0 THEN c.idx + 1 ELSE c.idx]
        /\ mode' = "NONE" /\ tripped' = now

\* An iteration within a regulation period.
Hold ==
  /\ at = "load" /\ tripped = Never /\ Counter(mode, now) # 0
  /\ TripOrNot(cc, mode)
  /\ UNCHANGED <<pars, runs, at, direct, aborted, played>>

Finished(g) == g.status = "POST" /\ now > g.cc.end

\* The first iteration of a regulation period, in which nothing has to change.
Continue ==
  /\ at = "load" /\ tripped = Never /\ Counter(mode, now) = 0
  /\ \E x \in DynamicEconomy(cc, direct) :
       LET g == Reference(x)
       IN /\ ~Finished(g)
          /\ TripOrNot(g.cc, mode) /\ direct' = g.direct
  /\ UNCHANGED <<pars, runs, at, aborted, played>>

\* GLOBAL ABORT_TIME has come.  An abort that would take too long ends the run.
AbortFunction ==
  /\ at = "load" /\ tripped = Never /\ Counter(mode, now) = 0 /\ ~aborted
  /\ aborted' = TRUE
  /\ \E x \in DynamicEconomy(cc, direct) :
       LET g == Reference(x)
       IN /\ direct' = g.direct
          /\ \/ \E n \in RampTimes : TripOrNot(Abort(g.cc, n), mode) /\ UNCHANGED at
             \/ at' = "end" /\ cc' = g.cc /\ UNCHANGED <<now, mode, tripped>>
  /\ UNCHANGED <<pars, runs, played>>

\* The function or ramp is over: the next one is started, or the run ends.
FinishFunction ==
  /\ at = "load" /\ tripped = Never /\ Counter(mode, now) = 0
  /\ \E x \in DynamicEconomy(cc, direct) :
       LET g == Reference(x)
           next == StartFunction(g.cc, mode)
       IN /\ Finished(g)
          /\ direct' = g.direct
          /\ \/ /\ next = {} /\ at' = "end" /\ cc' = g.cc
                /\ UNCHANGED <<now, mode, tripped, played>>
             \/ \E s \in next :
                  /\ TripOrNot(s.cc, s.mode)
                  /\ played' = IF s.cc.func = Ramp THEN played ELSE Append(played, s.cc.idx)
                  /\ UNCHANGED at
  /\ UNCHANGED <<pars, runs, aborted>>

\* After a trip the load is simulated for STOP_DELAY.
AfterTrip ==
  /\ at = "load" /\ tripped # Never
  /\ IF now - tripped > StopDelay THEN at' = "end" /\ now' = now
     ELSE at' = at /\ now' = now + 1
  /\ UNCHANGED <<pars, runs, cc, mode, direct, tripped, aborted, played>>

\* Functions without a load: the next one starts a plateau after the last one, and
\* the end of the last is put off by the stop delay.
Forward ==
  /\ at = "forward"
  /\ LET t == now - cc.origin
         g == Generate(cc, direct, t)
         over == t > cc.end /\ g.status = "POST"
         i == cc.idx + 1
         sel == pars.list[i + 1]
     IN /\ direct' = g.direct
        /\ \/ ~over /\ cc' = g.cc /\ now' = now + 1 /\ UNCHANGED <<at, played>>
           \/ /\ over /\ i < cc.num /\ now' = now + 1
              /\ cc' = [g.cc EXCEPT !.idx = i, !.func = FunctionOf(sel), !.origin = now + Plateau,
                                    !.end = pars.ref[sel].end]
              /\ played' = Append(played, i)
              /\ UNCHANGED at
           \/ /\ over /\ i = cc.num /\ now' = now + 1
              /\ cc' = [g.cc EXCEPT !.idx = i, !.end = t + StopDelay]
              /\ UNCHANGED <<at, played>>
           \/ /\ over /\ i > cc.num
              /\ at' = "end" /\ cc' = g.cc /\ UNCHANGED <<now, played>>
  /\ UNCHANGED <<pars, runs, mode, tripped, aborted>>

\* One function, with decreasing time.
Reverse ==
  /\ at = "reverse"
  /\ LET g == Generate(cc, direct, cc.end + StopDelay - now)
     IN cc' = g.cc /\ direct' = g.direct
  /\ IF now > RunDelay + cc.end + StopDelay THEN at' = "end" /\ now' = now
     ELSE at' = at /\ now' = now + 1
  /\ UNCHANGED <<pars, runs, mode, tripped, aborted, played>>

Iteration ==
  /\ now < MaxTime
  /\ Hold \/ Continue \/ AbortFunction \/ FinishFunction \/ AfterTrip \/ Forward \/ Reverse

Next == Run \/ Iteration

Spec == Init /\ [][Next]_vars /\ WF_vars(Iteration)

-----------------------------------------------------------------------------
(***************************************************************************)
(* Properties.                                                              *)
(***************************************************************************)
\* The variables have their types.
TypeOK ==
  /\ at \in {"idle", "end"} \cup Sims /\ runs \in 0 .. MaxRuns /\ now \in 0 .. MaxTime
  /\ mode \in {"NONE", "VOLTAGE", "CURRENT", "FIELD"} /\ tripped \in Nat \cup {Never}
  /\ aborted \in BOOLEAN /\ direct.status \in {"PRE", "DURING", "POST"}
  /\ cc.pref \in 0 .. cc.ramps /\ cc.armed \subseteq Selectors

\* The function that plays, or that dynamic economy has replaced, is that of the
\* current cycle, was armed in this run, and is played in its own mode: the mode is
\* set by the start of the ramps before a function and by its own.
Playing == IF cc.func = Plep THEN cc.eco.func.of ELSE cc.func.of
InItsMode ==
  /\ TypeOK
  /\ at = "load" /\ tripped = Never /\ Playing # 0 =>
       /\ Playing = cc.cycles[cc.idx + 1].sel
       /\ Playing \in cc.armed
       /\ mode = pars.ref[Playing].mode

\* The PLEP of dynamic economy, which replaces a part of a function, is left by the
\* first regulation period after its window, and a function is left and resumed
\* at most once each time it plays (the log of it has two points a function).
EcoReturns ==
  /\ at = "load" /\ tripped = Never /\ cc.func = Plep => now < pars.window[2] + Period
  /\ cc.eco.log <= 2 * Len(played)

\* An abort or a trip, during a function, during the ramps before one, or in the
\* plateau at the end, is never followed by another function: the count of cycles
\* is cut at the present one, which the ramps before a function have already left.
CancelsRest == [][ at = "load" /\ at' = "load" /\ (aborted \/ tripped # Never) => played' = played ]_vars

\* Every run comes to its end, played, aborted or tripped: each function ends, and
\* each ramp before one, whatever was interrupted (the reference of a DIRECT, whose
\* ramp is the one of the pre-functions, included).
Ends == at # "idle" ~> at = "end"
=============================================================================
