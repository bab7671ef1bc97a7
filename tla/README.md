# A TLA+ model of cclibs

cclibs is CERN's set of C libraries for controlling power converters: `libreg`
(regulation of current, field and voltage), `libfg` (function generation),
`libcal` (calibration), `libterm` (line editing), the unfinished `libref`
(reference state machine) with the code it is derived from, and the programs
that exercise them: `cctest` (offline simulation), `ccrt` (real-time simulation
with threads), `termtest`. This directory models the parts where order,
concurrency and stale state matter, model-checks them with TLC, and proves with
TLAPS the properties that matter most for all values of the constants.

## 1. Inventory

| Component | State it keeps | Operations | What is hard | What makes it correct | Modelled by |
|---|---|---|---|---|---|
| **libreg: RST parameter exchange** (`regMgr.c`, `mgr.h`) | per signal (i, b) and source (operational, test): two structures, pointers `next` and `active`, flag `is_next_ready`; `last_*_rst_pars`, `reg_period_iters`; `reg_mode` | background: `regMgrPars`, `regMgrRstInit`; real time: `regMgrSignalPrepareRT`, `regMgrModeSetRT` | two threads, no lock, a spin without timeout | the real-time thread uses whole, valid, unchanging parameters; nothing published is lost; the spin ends | RstExchange |
| **libreg: parameter scan** (`regMgrParsWithMask`, `pars.csv`, `pars.awk`) | copies of about 100 parameters, two masks of groups, some 40 derived structures | scan, then each group's initialisation in a fixed order | which change re-derives what; values accepted in mode NONE only | after `regMgrPars` every structure is derived from the current copies | RegPars (partly) |
| **libreg: real-time loop** (`regMgr.c`, `regRst.c`) | iteration counters, rings of ref, act and meas, delayed reference | `regMgrMeasSetRT`, `regMgrRegulateRT`, `regMgrModeSetRT`, `regMgrSimulateRT` | two signals with different periods share one actuation; changes of mode; invalid measurements | no holes or stale values in what an algorithm reads | RegLoop (partly) |
| **libreg: measurement filter** (`regMeas.c`) | FIR rings and accumulators, extrapolation, rate history | `regMeasFilterInit` (background), filter and rate (real time) | initialisation while filtering; indexes that are never reset; half iterations of delay | accumulator = sum of the window; the filter starts at its input; the delay is cancelled | MeasFilter (partly) |
| **libreg: limits and errors** (`regLim.c`, `regErr.c`) | thresholds, flags, hysteresis, exclusion zone, filtered errors | init (background), check and clip (real time) | limits rewritten field by field between iterations | flags are true; the zone is that of one set; the reference returns within limits | Limits (partly) |
| libreg: coefficients (`regRst.c`) | RST polynomials | `regRstInit`, Jury's test | floating-point algebra | stability | – |
| libreg: load, voltage source, delay (`regLoad`, `regSim`, `regDelay`) | numerical models | first and second order steps | rounding | – | `regLoadInit`'s effect on saturation, in RegPars |
| **libfg** | per function: meta data, segment, ramp's shift of time | seven init functions, seven RT functions | time going backwards, an application that limits the reference, take-over from another function | the result depends on time only; limits hold everywhere; a ramp arrives | FuncGen (partly) |
| **libref: resources** (`pc_fsm*.c`, `state_class.c`, `transitions_class.*`) | state, requests, flags | a request's validation, one function per condition and per state | requests, permits, failures between any two calls; flags that outlive their cause | no power without permit; no restart by itself; it comes to rest | PcFsm, StateClass (partly) |
| libref: `refState.c`, `refTrans.c`, `ref.c` | state, table | `refStateRT` | unfinished | – | – |
| **ccrt: threads** (`ccrt.c`, `ccRun.c`, `ccSim.c`, `ccCmds.c`) | PC state, polarity switch, fault latches, mode | main, timer thread, commands | parameters shared without locks; start-up order; four loops that read each other | a fault is kept till OFF; a converter without faults obeys; start-up ends | PcRun, RegLoopRt.cfg (partly) |
| **cctest: run** (`ccRun.c`, `ccInit.c`, `ccRef.c`) | `struct ccrun`: cycle, ramps before a function, economy, abort, trip | three simulations | functions, ramps, economy, abort and trip meet in any iteration | own mode; economy left; abort is final; the run ends | FuncRun, RegLoop (partly) |
| **cctest: commands** (`ccCmds.c`, `ccParse.c`, `ccPars.c`, `ccFile.c`, `ccTest.c`) | parameters, stack of input files, errno | lines, READ, SAVE, EXIT, QUIT, RUN | nested and self-reading files, errors half-way, arrays that shrink | what was saved is restored; an error stops all or nothing; reading ends | Commands (partly) |
| ccrt: parser, files, status; both: logs, plots, debug | – | text | – | – | – |
| libcal, libterm, termtest | factors; a line, a cursor | numeric; one per key | ranges; buffer limits | – | – |
| Generated headers | tables | awk scripts | – | – | one rule of `pars.awk`, in RegPars |

Interaction: a client's background thread calls `regMgrPars` when it changed a
parameter; its real-time thread calls, every iteration, `regMgrMeasSetRT`,
`regMgrRegulateRT` (cctest: always, ccrt: on regulation iterations),
`regMgrSimulateRT`, and `regMgrModeSetRT` to change the mode. All share one
`struct REG_mgr` without locks. `libfg` computes the references cctest passes to
`regMgrRegulateRT`. `libcal`, `libterm` and `libref` are not called by the others.

The hazards of this code are listed in PROJECT.json, each at its line, with the
properties that cover it, or the reason why none does.

## 2. Modules

| Module | Models |
|---|---|
| `ParHandover` | abstract: what libreg promises of a set of RST parameters, a mailbox of one place |
| `RstExchange` | the two threads of regMgr over the RST parameters, one shared-memory access per step |
| `RegPars` | the data flow of `regMgrParsWithMask` |
| `RegLoop` (`MCRegLoop`) | the real-time loop over histories and counters, with a client |
| `MeasFilter` | the measurement chain of one signal, with `regMeasFilterInit` between iterations |
| `Limits` (`MCLimits`) | limits, RMS, voltage and regulation-error limits, rewritten between iterations |
| `FuncGen` (`MCFuncGen`) | libfg |
| `FuncRun` (`MCFuncRun`) | cctest's RUN command |
| `Commands` (`MCCommands`) | cctest's commands |
| `PcRun` | ccrt's command and real-time threads |
| `PcFsm`, `StateClass` | the two state machines under `libref/resources` |
| `RstExchangeProofs`, `RegParsProofs`, `RegLoopProofs`, `MeasFilterProofs`, `LimitsProofs`, `FuncRunProofs`, `CommandsProofs`, `ConverterProofs` (PcRun, PcFsm and StateClass) | theorems and proofs |

An `MC` module only gives the constants values TLC needs. A definition that is a
variant of the one beside it (`RtCheckClearFirst` beside `RtCheck`) is a plausible
mistake in that code, kept to show that a property would notice it; `Next` never
uses it.

### RstExchange and ParHandover

A slot is a `struct REG_mgr_rst_pars`, named by its signal and source. `pars`,
`next`, `active`, `ready` are its members; `use[g]` is `rst_pars`, `last` the
debugging copy, `period` is `reg_period_iters`. A structure is represented by the
call that computed it, its period and its status, TORN while `regRstInit` writes.

| Action | Code in regMgr.c |
|---|---|
| `RegMgrPars(G, p)` | the scan's outcome, 278-342: any set of RST groups, and any periods while the mode is NONE |
| `WaitAccepted`, `WaitForEver` | the spins, 621, 647, 695, 721 |
| `RstInitBegin`, `RstInitEnd`, `Publish`, `CopyLast` | `regMgrRstInit`, 92-241 |
| `RegMgrParsReturn` | return; the first call is `regMgrSimInit`'s, which prepares the signals itself |
| `RtBegin` .. `RtRun` | `regMgrMeasSetRT`'s head and `regMgrSignalPrepareRT`, one action per access |
| `ModeSetRT`, `RtEnd` | the rest of an iteration |

`WaitForEver` is the build's choice: `is_next_ready` is a plain `bool` another
thread writes, so a compiler may read it once (`libreg/Makefile` asks for -O3).
`Reload = TRUE` excludes that build. The model is sequentially consistent:
reordering of plain stores by the compiler or the processor is not modelled. What
`regRstInit` decides is a choice of status (`CanFault`). The write of
`ref_delay_periods` by `regMgrModeSetFieldOrCurrentRT` (CURRENT_REF only) is the
real-time thread's to its own structure and left out.

`HandsOver` is the refinement: a version is in the box from `Publish` until the
active pointer moves to it, and what is in use is what `active` points to.

### RegPars

Each row of `ParMeta` stands for a class of rows of `pars.csv` with the same flags
and groups. A parameter is represented by whether the application's value differs
from libreg's copy, a structure by whether it is stale. `ScanPar` is one iteration
of the scan with its two comparisons and copies, `InitStructure` one `if` of the
groups. `regLoadInit` sets the load and disables saturation: re-deriving
`load_pars` makes `load_sat` stale until `regLoadInitSat` runs. The row of the
IREG period overwrites the row after it, as the members of `par_values` lie.

### RegLoop

A history slot is represented by its origin (own, init, old). `MeasSetRT`,
`RegulateRT` and `ModeSetRT` are the library's functions; `Regulate`,
`StartFunction` and `Check` are the client's use of them in an iteration. Left
out: the values; the measurement history (always written with the index) and the
element of it `regRstInitRefRT` rewrites; open and closed loop; CURRENT_REF. The
parameters are fixed and valid (`ActiveValid`, proved, says that active parameters
are never rejected ones).

### MeasFilter

Values are integers at a scale at which the divisions the runs meet are exact;
regMeas's own scaling to integers is the identity at that scale, up to its clip.
`Stop`, `SetLengths`, `Clear`, `Fill`, `Bypass` and `Restart` are the steps of
`regMeasFilterInit`, between any two of which `MeasSetRT`, a whole iteration, may
come; an iteration is atomic with respect to the background, as an interrupt on
one processor is. Indexes are never reset, as in the code. Left out: noise and
tone, the choice of the signal to regulate, and the replacement of an invalid
measurement by the delayed reference while regulating (RegLoop's subject): here it
is replaced by extrapolation with the rate. The input is a ramp of whole slope; it
changes its slope, and a sample is invalid, only when the filter holds nothing but
the present ramp (`Enough` iterations); the slope also right after another change
and while the filter is off.

### Limits

`part` is the structure a behaviour moves (they do not interact). The background
takes new limits (`NewLimits`); `Writes` are the fields the init function then
assigns, in the code's order, `next` is the one to be written next (`Write`), and
an iteration may come between any two. `Invert` turns LIMITS INVERT, a single
assignment. The first limits are in place before `StartRtThread`, as
`regMgrSimInit` runs before the timer is started; from then on iterations come at
any moment. A write is a record of the fields the code can be taken to write
together. The assumptions are what limits mean: whole numbers, levels that are not
negative, a positive limit at or above zero; the signs of negative limits, their
order and the zone are left open. Margins (`REG_LIM_CLIP`, hysteresis) are tenths.
Left out: `regLimRefInit` for a field or current reference, the measurement of the
error itself, and its maximum for the log.

### FuncGen

Each function has its `...Init`, which checks parameters against the limits as
the code does, and its `...RT`. Times and references are integers, and parameters
are those whose quotients and roots are whole, except a ramp's shift of time,
which is rounded. `Arm` arms any function with any converter's limits, `TakeOver`
is `fgRampCalc` from a moving reference, `Call` asks for any time (a ramp: a later
one, within a period, as `fgRampRT` requires), and `Limit` is a call in which the
application limits a ramp's reference. Left out: the exponential end of a PLEP and
the exponential window of a test.

### FuncRun

`cc` is `struct ccrun`; time counts iterations. `Run` is the RUN command up to its
first function (`ccInitFunctions`, `ccInitSimLoad`). `Hold`, `Continue`,
`AbortFunction`, `FinishFunction` and `AfterTrip` are an iteration of
`ccRunSimulation` by what it finds, each with the call of dynamic economy
(`DynamicEconomy`) and of the function (`Reference`) where the code has them, and
each possibly with a trip; `Forward` and `Reverse` are `ccRunFuncGen`'s and its
reverse. What functions return besides their status is FuncGen's subject; only
DIRECT, which is cctest's own, is modelled to its references, because its segments
and ramp decide when it ends. The durations of ramps and PLEPs are choices.

### Commands

A line is a record of its command or parameter with names already resolved. `stack`
holds the loops that are reading lines: the command line, stdin, a file, a
directory. `CmdsPar`, `Wrong`, `CmdsRun`, `CmdsSave`, `CmdsRead`, `ReadRefused`,
`CmdsExit` and `CmdsQuit` are a line's command with its return through
`ccParseLine`; `SkipEntry` passes over what is not a regular file in a directory;
`CloseFile`, `EndOfStdin`, `CloseDir` and `End` are the ends of the loops; `Main`
starts the program. `errno` is kept because `ccFileReadAll` tests it: a value or an
index out of range may leave it set in `CmdsPar` and `Wrong`, and the library may in
`CmdsRun`. RUN also writes to two parameters (`Unperturbed`, ccInit.c:161-167): a
perturbation of the voltage that is not wanted is put beyond the end of the simulation.
Left out: how characters are split into words and numbers, CD, PWD, LS and DEBUG.

### PcRun

Every read of a shared parameter that the operator may change in between is a step
of its own: `MeasSetRT`, `RegulateRT`, `FaultLatch` (one fault at a time, as the
loop rereads the requested state), `PcState`, `PcSwitch` (the three reads of
`ccSimPcState`), `PolSwitch`, `ModeSetRT`. The command thread is `ReadConfig` (a line
that sets any parameter of libreg), `RegMgrPars` (the rest of that call, once what was
published before is accepted), `StartRtThread`, `SimInit` (`regMgrSimInit`, which runs
beside the real-time thread, waits for it once and then accepts what it publishes
itself) and then the operator's settings. Whatever parameter a line sets,
`regMgrPars` waits: in mode NONE the two-element copy (regMgr.c:324-338) writes over a
copy that the next step of the scan repairs, and that repair selects the RST parameters
of the current on every call. Faults of a kind are one. Left out: the super-cycle
thread, which publishes an index nobody else uses; the exit of `main` when a
configuration file fails; and what `regMgrSimInit` and a first iteration do to the same
structures if they meet (see the hazards). Delays of 1.5 s and 5 s are constants counted
in iterations.

### PcFsm and StateClass

The engine that walks the tables of transitions, and one table, are not in the
repository. Conditions are operators with the names of the functions; PcFsm allows
any order of them except where the code says one, StateClass takes any condition
that is true. The converter, the DSP's reference and the operator are external:
`Permit`, `Fail`, `Obey`, `Arm`, `FunctionEnds`, `Interlock`, `Reset`. Left out:
ECONOMY (its condition is FALSE), the calibration of the DAC, post-mortem, logs.

## 3. Runs

| Run | Question | Properties |
|---|---|---|
| RstExchange | is what the real-time thread uses whole and stable in every interleaving, in a build that may read the flag once? | NoTornUse, LastParsMatch, UsedParsStable, HandsOver (refinement of ParHandover) |
| RstExchangeLive | with rejected sets and both threads running: is nothing lost, and does `regMgrPars` return? | ActiveValid (with the types), HandsOverFair, ParsReturns |
| RegPars | does each change reach every structure derived from it? | DerivedFresh, CopyIsSupplied (with the types) |
| RegLoop | are histories and references whole through changes of mode, trips and invalid measurements? | HistoryUnbroken, RefFresh, DelayedRefFresh, InStep |
| MeasFilter | is the filter right after being set up while it runs? | WindowSum, StartsAtInput, RampExtrapolated |
| Limits | can flags and clips be trusted while limits are rewritten? | FlagsTrue, ClipsSound, Returns |
| FuncGen | do functions depend on time only, keep within limits and arrive? | HistoryFree, WithinLimits, RampArrives |
| FuncRun | does a run play what it should and end, whatever interrupts it? | InItsMode, EcoReturns, CancelsRest, Ends |
| Commands | do parameters, files and errors survive nesting? | StoreSound, RoundTrip, ErrorStops, ReadingReturns |
| PcRun | are faults, switch and start-up right with unlocked parameters? | TypeOK (with the bounds of the two timers), FaultKeptTillOff, Recovers, StartsUp |
| PcFsm | does a lost permit take the power away, and a slow abort end? | FsmTypeOK, NoPermitNoPower, SlowAbortEnds |
| StateClass | does it restart by itself, or toggle? | StaTypeOK, NoSelfRestart, Settles |

All pass. What they cannot show is kept beside them as further configurations,
each of which ends with the violation a finding of PROJECT.json describes and
quotes the text for (`tlc -config X.cfg M`):

| Configuration, module | Violates | Because |
|---|---|---|
| RstExchangeCurrentRef, RstExchange | ParsReturns | with CURRENT_REF a flag is raised that nobody lowers |
| RstExchangeHoisted, RstExchange | ParsReturns | a build may read the flag once |
| RstExchangePeriod, RstExchange | OnePeriod | `reg_mode` is tested, then the period is written |
| RegParsTest, RegParsSat, RegParsAlias, RegPars | DerivedFresh, DerivedFresh, CopyIsSupplied | three ways a change is not, or wrongly, propagated |
| RegLoopRt, MCRegLoop | HistoryUnbroken | ccrt calls `regMgrRegulateRT` in some iterations only |
| RegLoopPI, MCRegLoop | DelayedRefFresh | too few references are initialised for a PI regulator |
| PcFsmPermit, PcFsm | PermitFaultTrue | the flag of a lost permit is also raised by a request |
| MeasFilterIndex, MeasFilter | StartsAtInput | an index left by a longer filter (length 3) |

The passing runs avoid these cases by their constants, and say so here: RegPars
checks all structures but the two of RegParsTest and RegParsSat, with every
parameter supplied; RegLoop regulates every iteration and with orders and delays
that fit; MeasFilter uses stages of lengths 1 and 2, between which an old index
does no harm. `Recovers` has `~errLimit` before its arrow: ccrt keeps FAULT for
ever by a regulation-error flag that only `regMgrRegulateRT` re-evaluates, and it
is not called once the mode is left as it was. `Settles` leaves out an active
spare interlock, with which SLOW_ABORT and ABORTING alternate at every call.
`WithinLimits` leaves out test functions, which `fgTestInit` does not check.
FuncRun's DIRECT functions have last points after the ramp to them has ended, and
its window of economy belongs to a function that starts near time zero; the
findings say what happens otherwise.

### Bounds

- RstExchange: three calls (`MaxCalls`), as a third one is needed for a structure
  to be reused; two signals in the safety run, one of them not regulated; one in
  the liveness run, where test and operational slots still interleave.
- RegPars: two changes, as structures depend on at most two changed parameters.
- RegLoop: periods 2 and 3 with `Wrap` 6, the least that interleave; `H` = 5 slots
  instead of 16, more than order (2) and delay (2.5 periods) need. `Wrap` stands
  for the iterations in 12 s and is a multiple of both periods, as regMgr.c:907-912
  asks.
- MeasFilter: two calls of `regMeasFilterInit` with up to two iterations within
  each (there are five places for them), one change of slope before or after,
  a buffer of 6, which two stages of length 2 and an extrapolation of 2 fill.
- Limits: two or three sets of limits per structure, above, below and across one
  another, with limits switched off; five currents; any number of changes.
- FuncGen: 40 units of time, more than any function lasts; up to two calls that
  limit a ramp, so that a ramp can be turned round and then held.
- FuncRun: play lists of one to three cycles over two selectors; `MaxTime` (70) is
  more than a run that ends takes. One RUN: a second starts from the same
  zeroed `ccrun`, but for DIRECT's static variables, which a finding is about.
- Commands: three typed lines, two starts (one to SAVE, one to READ again), four
  nested files, of which one reads itself and one ends with a SAVE.
- PcRun: 1.5 s is one iteration, 5 s is none, delays of the switch none or one:
  what matters is which expires first. Up to two lines of configuration set a
  parameter of libreg, the number with which start-up blocks.
- PcFsm: settling takes one call more. StateClass: two orders pending at a time,
  class 53 (the wider table).

### Fairness

- RstExchange (`FairSpec`): weak fairness of each thread. The real-time thread is
  started by a timer and never waits; the background thread is an ordinary one.
  Nothing obliges the application to call `regMgrPars` or to change the mode.
- PcRun: weak fairness of the real-time thread and of the command thread within
  start-up and `regMgrPars`; none of the operator.
- PcFsm, StateClass: the state machine is called for ever, the power stage obeys
  its last command (both weak), a function that has been told to end ends (strong
  in PcFsm, where requests may re-arm it).
- Limits: the real-time thread is started, its iterations go on, and the background
  thread makes its remaining writes.
- FuncGen: the application goes on calling the function. FuncRun: the loop goes on.
- Commands: only while the program is not waiting at its prompt.
- MeasFilter, RegPars, RegLoop: safety only, no fairness.

`CHECK_DEADLOCK FALSE` is set where a bounded input may be used up or the program
really stops: RstExchange (calls), MeasFilter (initialisations, the input's range),
FuncGen and FuncRun (time), Commands (lines, starts), Limits, PcRun, PcFsm and
StateClass (a behaviour may come to rest). RegPars and RegLoop never stop and are checked.

## 4. Proofs

All theorems hold for every value of the constants the named assumptions of the
modules allow.

**RstExchangeProofs.** `TypeCorrect`; `IInvHolds`, the inductive invariant. None of
the safety properties is inductive: that the background thread does not write what
the real-time thread uses needs that `next` and `active` are apart
(`PointersApart`), which fails between the two writes of a swap; that a swap
happens only while the flag is up (`SwapUnderFlag`); that the background thread
writes only while it is down, through a saved pointer that then still is `next`
(`BgOwnsNext`); that what is published is valid (`PostedGood`); and that `rst_pars`
was bound to an active structure (`BoundToActive`). From it follow
`NoTornUseHolds`, `ActiveValidHolds` and `UsedParsStableHolds`. `HandsOverHolds`,
that every step posts, takes or stutters in `ParHandover`, needs in addition that
versions only grow (`VersionsGrow`), and so does `LastParsMatchHolds`, whose own
invariant (`CopyInv`) says where the last computed set is until it is copied.

**RegParsProofs.** Nothing is assumed of the number of changes, of the mode or of
when it changes. `CopyIsSuppliedHolds` needs that an application that supplies IREG
PERIOD_ITERS supplies IREG PURE_DELAY too (`AliasReaches`; RegParsAlias shows what
happens otherwise): the one copy that another parameter overwrites is then put right
by the very next iteration of the scan (`Foreigners`). `DerivedFreshHolds` is about
the structures in `Sound`, all but load_sat, sim_load_pars, load_sat_test and
test_rst_pars; that every parameter they read carries their group, and the groups of
what is derived from them, is itself proved from the tables (`CarriesOwn`,
`CarriesNeeds`). Then whatever is stale is selected, with its users, until it is
initialised (`Queued`), and what the initialisation has passed stays fresh
(`Derived`), because a structure comes after those it is derived from.

**RegLoopProofs.** `TypeCorrect`. `InStepHolds`: counters are the time modulo their
periods, if the periods divide `Wrap` and time is passed only by a client that
starts in NONE and regulates every iteration (`Synchronised`); it rests on
`CountersFollow`, which says what a counter is between the steps of an iteration,
and on lemmas about remainders. `HistoryUnbrokenHolds`, for a client that regulates
every iteration (RegLoopRt shows the need): by `ActInv`, that a history without
holes is one without holes but for its newest slot from `MeasSetRT` to `RegulateRT`.
`RefFreshHolds` and `DelayedRefFreshHolds`: by `RefInv`, the last rst_order + 1
references are there whenever an algorithm may read them, if the order leaves a slot
of the ring (`OrdersFit`); the delayed reference needs in addition that its delay is
within the references `regRstInitRefRT` sets and within the ring (`DelaysFit`;
RegLoopPI shows the need).

**LimitsProofs.** `FlagsTrueHolds` and `ClipsSoundHolds`, for all limits, currents
and references the assumptions allow. While limits are being written neither
property is inductive, so `Settled` says for each position of `next` what the writes
made so far have established and no iteration undoes: the thresholds already
written are those of the new limits, a flag that was cleared is up only if they say
so, and the exclusion zone is off from its first write to its last. `VrefSigned` says that the upper
and the lower clip limits stay on their sides of zero, whatever is half written.

**FuncRunProofs.** `CancelsRestHolds`: the functions and dynamic economy leave the
counts of `struct ccrun` alone (`EconomyKeeps`, `ReferenceCounts`), an abort cuts
them at the present cycle (`AbortCounts`), and what `ccRunStartFunction` starts
then is a ramp (`StartCounts`). `InItsModeHolds` and `EcoReturnsHolds` share a second
invariant, `JInv`: what plays is the armed function of the present cycle or one of
the program's own (`Plays`), the function that dynamic economy
has put aside is that one, it is left and resumed at most once each time it plays,
and the regulation period in which the PLEP was last asked (`LastCall`) began before
the end of the window (`Economy`).

**CommandsProofs.** `StoreSoundHolds`, for any parameters, files and lines: what is
saved is sound as well (`StoresInv`), the files being read are there and no more of
them than inputs are taken (`InputsInv`), what RUN makes of the perturbation is sound
(`UnperturbedSound`), and what SAVE writes are lines that can be read again. The last
takes lemmas about `FlattenSeq`, proved from its recursive function
with a smallest counterexample (`Minimum`). `ErrorStopsHolds`: as
long as an error is on its way up, the loop on top is one that is left (`Leaving`).
`RoundTripHolds`: a line of SAVE's file undoes nothing but its own value, from
what the program starts with or from what is already there (`LineRestores`); the file
has a line for each value that has elements and no other (`SavedLinesAre`, from
`FlattenHas`), and a value without elements has none to start with either
(`EmptyReread`: only an array whose default is empty can be empty). So at each line of
the file what was not restored has its line still to come (`Progress`). It
needs that the lines come from that file to its end: a file that was saved opens no
other, and only the newest file can be one that was saved (`Beneath`). Its
hypothesis `SavesApart` is that no line of the files that were there before saves over one
of them: a script that rewrites itself while it is being read is excluded, and TLC
checks that the files of the run, one of which has a SAVE, satisfy it. Of the
formatting of numbers it takes that zero is printed as zero and that what is printed
converts when it is read (`CommandsAssumption`), and of the defaults that they are numbers
(`ParsAssumption`).

**MeasFilterProofs.** For all lengths of stages and of the extrapolation, buffers,
delays, periods, inputs and any number of set-ups with iterations between any two of
their steps. The three theorems have one hypothesis, `IndexesFit`: no `SetLengths`
makes a stage, or the extrapolation, end at or before the place where the index into
it stands. Indexes are never reset, and MeasFilterIndex shows what happens otherwise.
`OneLengthFits` proves the hypothesis from the constants if the stages in use have
one length, the extrapolation another, and both fit, as in MeasFilter.cfg.
`WindowSumHolds` needs a theory of the sum of a function over an interval, since the
community module defines that sum by recursion over sets: that adding a member adds
its value is proved from the recursive function with a smallest counterexample. The accumulators
then follow each replacement in their windows (`Sums`), also while `Fill` writes one
place at a time and iterations come in between. `StartsAtInputHolds`: while the input has
not changed, each place `Fill` has passed holds the input or its sum over the first
stage (`Still`). `RampExtrapolatedHolds`: after k iterations of a ramp the last k
places of each ring hold its last k values (`Rings`, `OnRamp`), so that from `Both`
iterations on the first stage gives the ramp delayed by (n - 1)/2, the second
likewise; all quotients are exact, because values are multiples of 80 on a ramp of
whole slope. The extrapolation then adds the slope times the delay of both stages and
of the measurement. The estimate of the rate is exact by then too, so that an invalid
sample is replaced by the very value that was not measured, and the ramp goes on.

**ConverterProofs.** The three state machines are systems of their own, and share the
module only: it extends PcRun and StateClass (whose specification is called `StaSpec`
for that) and has PcFsm as the instance `Fsm`.
PcRun, `FaultKeptTillOffHolds`: FAULT is left only if no fault was summed, and a
fault stays latched from the iteration that saw it until OFF was asked for, although
the request is reread for each fault (`SumSoFar`, `SwitchWithoutFault`,
`LatchedTillOff`). PcRun, `TypeCorrect`, with the bounds of the timers of the
converter and of the polarity switch (`PcTypes`, `PolTypes`). StateClass,
`StaTypeCorrect`, which shows that the table leads to states that exist, and
`NoSelfRestartHolds`: START, which OFtoST reads, is set by the operator only and
cleared by FAULT_OFF, so that in OFF it says that he asked since. PcFsm,
`FsmTypeCorrect`: every condition, in any order and for any device, leads to a state
and leaves a mode that exist, and the time in a state stays within the settling time.

Only model-checked, and why:

- Liveness (HandsOverFair, ParsReturns, Recovers, StartsUp, NoPermitNoPower,
  SlowAbortEnds, Settles, Limits' Returns, RampArrives, FuncRun's Ends, Commands'
  ReadingReturns): it rests on fairness and ENABLED, which the prover does not treat.
- FuncGen's HistoryFree and WithinLimits: they rest on products and quotients of
  times and references (parabolas, a square root, a rounded shift of time), beyond
  the solvers' arithmetic.

## 5. Not modelled, and why

- `regRstInit`, `regLoad`, `regSim`, most of `libcal`: floating-point algebra
  without control; a choice of status stands for what it decides.
- `libterm`, `termtest`: sequential editing of one line, within a unit test's reach.
- `libref`'s own `refState.c`, `refTrans.c`: nearly all their functions return
  false in this commit (Makefile.pending).
- ccrt's parser, parameters, files and status: a variant of cctest's (Commands).
  Its logs and plots, and cctest's: formatting and file output.
- ccrt's super-cycle: publishes an index no other function uses.
- The overlap of two expiries of ccrt's timer depends on the host's timing.
- ccrt calls `regMgrInit` and `regMgrSimulateRT` with other arguments than their
  prototypes have in this commit; the model takes the calls as meant.

## 6. Plan

Done: everything in section 2. Left, in order of worth:

1. RegLoop with parameters accepted while regulating (composed with RstExchange):
   `ref_advance` and the availability of the delayed reference are cached at the
   change of mode (regMgr.c:1021); open and closed loop; CURRENT_REF.
2. Proofs: FuncGen's `HistoryFree` for the functions made of straight lines (the
   segment of a TABLE is the same from wherever the search starts).
3. `regLimRefInit` and the rate limits of field and current references in Limits.
4. libterm's line editor, if its recall of history grows.
