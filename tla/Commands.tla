------------------------------ MODULE Commands ------------------------------
(***************************************************************************)
(* cctest's commands: lines from the command line, stdin and nested files   *)
(* (ccTest, ccCmdsRead, ccFileReadAll) are parsed (ccParse) and set, print   *)
(* and save the parameters (ccPars, ccCmdsSave).  A name, however abbreviated, *)
(* is resolved in the line already, and a line that names nothing, or too much, *)
(* is Wrong; a value that does not convert is Bad.  The RUN command is FuncRun. *)
(***************************************************************************)
EXTENDS Integers, Sequences, SequencesExt, FiniteSets

CONSTANTS Pars,       \* parameters: max, cyc, fixed and default, as struct CCpars
          CmdTable,   \* the commands, each the sequence of its parameters
          MaxSel,     \* CC_MAX_CYC_SEL
          NestLimit,  \* CC_INPUT_FILE_NEST_LIMIT
          LineMax,    \* values of a line of CC_MAX_FILE_LINE_LEN characters
          Files,      \* the files of the working directory: their lines
          Names,      \* the order of readdir, the file of SAVE included
          Argvs,      \* command lines
          Typed,      \* lines typed on stdin
          Fine,       \* values that PARS_FLOAT_FORMAT has not the digits for
          MaxTyped, MaxStarts, \* bounds: lines typed, starts of the program
          MaxDepth    \* bound: more than the files that can be open

\* No array index, the selector of all cycles, a value that does not convert
NoIndex == -1
AllCycles == -2
Bad == -9

\* A PERTURB_TIME after the end of every simulation, 1.0E30
Never == 1000

ASSUME CommandsAssumption ==
  /\ CmdTable \in Seq(Seq(DOMAIN Pars)) /\ ToSet(FlattenSeq(CmdTable)) = DOMAIN Pars
  /\ MaxSel \in Nat /\ NestLimit \in Nat \ {0} /\ LineMax \in Nat \ {0}
  /\ MaxTyped \in Nat /\ MaxStarts \in Nat /\ MaxDepth \in Nat /\ MaxDepth > NestLimit
  /\ DOMAIN Fine \subseteq Int \ {0} /\ \A v \in DOMAIN Fine : Fine[v] \in Int \ {Bad}

ASSUME NamesAssumption == Names \in Seq(ToSet(Names)) /\ DOMAIN Files \subseteq ToSet(Names)

\* A parameter that has a value for each selector and is no array has a default;
\* GLOBAL STOP_ON_ERROR, and PERTURB_VOLTS and PERTURB_TIME of LOAD, are read.
ASSUME ParsAssumption ==
  /\ {"stop", "volts", "time"} \subseteq DOMAIN Pars
  /\ \A p \in {"volts", "time"} : Pars[p].max = 1 /\ ~Pars[p].cyc /\ Len(Pars[p].default) = 1
  /\ \A p \in DOMAIN Pars :
       /\ Pars[p] \in [max : Nat \ {0}, cyc : BOOLEAN, fixed : BOOLEAN, default : Seq(Int)]
       /\ Len(Pars[p].default) <= Pars[p].max
       /\ Bad \notin ToSet(Pars[p].default)
       /\ Pars[p].cyc /\ Pars[p].max = 1 => Len(Pars[p].default) = 1

VARIABLES store,    \* each parameter's elements and their number, by cycle selector
          disk,     \* the files
          saved,    \* the parameters as they were at the last SAVE of each file
          argv,     \* the command line
          stack,    \* the loops that are reading lines, the newest last
          inputIdx, \* ccfile.input_idx
          errno,    \* errno is not zero
          typed,    \* lines typed since the program was started
          starts,   \* starts of the program
          failed    \* a line of a file has failed with STOP_ON_ERROR, files are open

vars == <<store, disk, saved, argv, stack, inputIdx, errno, typed, starts, failed>>

Par(p, sel, idx, vals) == [cmd |-> "PAR", par |-> p, sel |-> sel, idx |-> idx, vals |-> vals]
Line(cmd, file) == [cmd |-> cmd, file |-> file]

\* The lines, whose array indexes are within the array of their parameter.
ParLines ==
  [cmd : {"PAR"}, par : DOMAIN Pars, sel : {NoIndex, AllCycles} \cup 0 .. MaxSel,
   idx : {NoIndex} \cup Nat, vals : Seq(Int) \ {<< >>}]
Words == ToSet(Names) \cup {"missing", "stdin", "*", "args", "long", ""}
OtherLines ==
  [cmd : {"WRONG", "RUN", "SAVE", "READ", "EXIT", "QUIT", "SKIP"}, file : Words]
LineSet == OtherLines \cup {l \in ParLines : l.idx < Pars[l.par].max}

ASSUME LinesAssumption ==
  /\ Typed \subseteq LineSet /\ Argvs \subseteq Seq(LineSet)
  /\ \A f \in DOMAIN Files : Files[f] \in Seq(LineSet)

Selectors(p) == IF Pars[p].cyc THEN 0 .. MaxSel ELSE {0}
Enabled(s) == s["stop"][0].v[1] = 1

-----------------------------------------------------------------------------
(***************************************************************************)
(* The parameters.                                                          *)
(***************************************************************************)
\* ccInitPars: every selector has the default values; what follows them is zero.
Default ==
  [p \in DOMAIN Pars |->
     [s \in Selectors(p) |->
        [n |-> Len(Pars[p].default),
         v |-> [i \in 1 .. Pars[p].max |->
                  IF i <= Len(Pars[p].default) THEN Pars[p].default[i] ELSE 0]]]]

\* Values for consecutive selectors, if one is given for a scalar.
Consecutive(l) == Pars[l.par].cyc /\ l.sel >= 0 /\ Pars[l.par].max = 1

Selected(l) ==
  IF l.sel = NoIndex \/ ~Pars[l.par].cyc THEN {0}
  ELSE IF l.sel = AllCycles THEN 0 .. MaxSel ELSE {l.sel}

First(l) == IF l.idx = NoIndex THEN 0 ELSE l.idx

MaxPars(l) == IF Consecutive(l) THEN MaxSel + 1 - l.sel ELSE Pars[l.par].max - First(l)

\* How many values are stored before one is refused.
Stored(l) ==
  CHOOSE k \in 0 .. Len(l.vals) :
    /\ \A i \in 1 .. k : l.vals[i] # Bad /\ i <= MaxPars(l)
    /\ k < Len(l.vals) => l.vals[k + 1] = Bad \/ k + 1 > MaxPars(l)
Accepted(l) == Stored(l) = Len(l.vals)

\* The elements after the last value are cleared, unless a single one was set.
Shrinks(l) ==
  /\ Accepted(l) /\ ~Pars[l.par].fixed /\ Pars[l.par].max > 1
  /\ l.idx = NoIndex \/ Stored(l) > 1

ElementKeepingRest(x, l) ==
  LET end == First(l) + Stored(l)
  IN [n |-> IF x.n < end \/ Shrinks(l) THEN end ELSE x.n,
      v |-> [i \in DOMAIN x.v |-> IF i > First(l) /\ i <= end THEN l.vals[i - First(l)] ELSE x.v[i]]]

Element(x, l) ==
  IF Stored(l) = 0 THEN x ELSE
  LET end == First(l) + Stored(l)
      n == IF x.n < end \/ Shrinks(l) THEN end ELSE x.n
  IN [n |-> n,
      v |-> [i \in DOMAIN x.v |->
               IF i > First(l) /\ i <= end THEN l.vals[i - First(l)]
               ELSE IF i > end /\ Shrinks(l) THEN 0 ELSE x.v[i]]]

ParsGet(l) ==
  [store EXCEPT ![l.par] =
     [s \in DOMAIN @ |->
        IF Consecutive(l)
        THEN IF s >= l.sel /\ s < l.sel + Stored(l) THEN [@[s] EXCEPT !.v[1] = l.vals[s - l.sel + 1]] ELSE @[s]
        ELSE IF s \in Selected(l) THEN Element(@[s], l) ELSE @[s]]]

\* A parameter as it is printed for a selector, which is left out if it is 0; an
\* empty array is not printed.
Printed(v) == IF v \in DOMAIN Fine THEN Fine[v] ELSE v
ParsPrintShort(p, s) ==
  LET x == store[p][s]
  IN IF x.n < 2 THEN << >>
     ELSE << Par(p, IF s = 0 THEN NoIndex ELSE s, NoIndex, [i \in 1 .. x.n - 1 |-> Printed(x.v[i])]) >>
ParsPrint(p, s) ==
  LET x == store[p][s]
  IN IF x.n = 0 THEN << >>
     ELSE << Par(p, IF s = 0 THEN NoIndex ELSE s, NoIndex, [i \in 1 .. x.n |-> Printed(x.v[i])]) >>

\* All the parameters of a command, selector by selector
ParsPrintAll(pars) ==
  FlattenSeq(FlattenSeq([s \in 1 .. MaxSel + 1 |->
    [i \in DOMAIN pars |->
       IF s - 1 \in Selectors(pars[i]) THEN ParsPrint(pars[i], s - 1) ELSE << >>]]))
SavedLines == FlattenSeq([c \in DOMAIN CmdTable |-> ParsPrintAll(CmdTable[c])])

-----------------------------------------------------------------------------
(***************************************************************************)
(* Reading lines.                                                           *)
(***************************************************************************)
Frame(kind, file) ==
  [kind |-> kind, file |-> file, next |-> 1, status |-> "ok", fresh |-> store = Default]

Running == stack # << >>
Top == stack[Len(stack)]
AtPrompt == ~Running \/ Top.kind \in {"args", "stdin"}

\* A line that is too long is not parsed. What readdir returns is read if it is a
\* regular file.
Lines(f) ==
  CASE f.kind = "args" -> argv
    [] f.kind = "dir" -> [i \in DOMAIN Names |->
                   Line(IF Names[i] \in DOMAIN disk THEN "READ" ELSE "SKIP", Names[i])]
    [] OTHER -> [i \in DOMAIN disk[f.file] |->
                   LET l == disk[f.file][i]
                   IN IF l.cmd = "PAR" /\ Len(l.vals) > LineMax THEN Line("WRONG", "long") ELSE l]
Over == Top.next > Len(Lines(Top))

\* After a failed line: a file is left with STOP_ON_ERROR, a directory and the
\* command line always, stdin never.
Left == /\ Top.status = "fail"
        /\ Top.kind # "stdin" /\ (Top.kind = "file" => Enabled(store))

\* What may be read next.
NextLines ==
  IF ~Running \/ Left THEN {}
  ELSE IF Top.kind = "stdin" THEN (IF typed < MaxTyped THEN Typed ELSE {})
  ELSE IF Over THEN {} ELSE { Lines(Top)[Top.next] }

\* The loop goes on after a line with its status.
Done(status) ==
  [stack EXCEPT ![Len(stack)].status = status,
                ![Len(stack)].next = IF Top.kind = "stdin" THEN @ ELSE @ + 1]

Counted == typed' = IF Top.kind = "stdin" THEN typed + 1 ELSE typed

\* The status of a loop is that of the line that began it.
ReturnOk(fr) ==
  [i \in 1 .. Len(stack) - 1 |->
     IF i = Len(stack) - 1 THEN [stack[i] EXCEPT !.status = "ok"] ELSE stack[i]]
Return(fr) ==
  [i \in 1 .. Len(stack) - 1 |->
     IF i = Len(stack) - 1 THEN [stack[i] EXCEPT !.status = fr.status] ELSE stack[i]]

\* Whether one more input may be opened.
NestingFree(idx) == TRUE
Nesting(idx) == idx < NestLimit - 1

-----------------------------------------------------------------------------
(***************************************************************************)
(* The commands.                                                            *)
(***************************************************************************)
\* errno is reset before the values are converted, and set by one out of range.
CmdsPar ==
  \E l \in NextLines :
    /\ l.cmd = "PAR"
    /\ store' = ParsGet(l)
    /\ errno' \in IF Accepted(l) \/ Stored(l) = MaxPars(l) THEN {FALSE} ELSE BOOLEAN
    /\ stack' = Done(IF Accepted(l) THEN "ok" ELSE "fail") /\ Counted
    /\ UNCHANGED <<disk, saved, argv, inputIdx, starts>>

\* A line that is no command, or has too many arguments, or is too long, or whose
\* index is not valid, which resets errno or, out of range, sets it.
Wrong ==
  \E l \in NextLines :
    /\ l.cmd = "WRONG"
    /\ stack' = Done("fail") /\ Counted /\ errno' \in BOOLEAN
    /\ UNCHANGED <<store, disk, saved, argv, inputIdx, starts>>

\* ccInitFunctions: no perturbation of the voltage is one that comes too late.
Unperturbed ==
  IF store["time"][0].v[1] <= 0 \/ store["volts"][0].v[1] = 0
  THEN [store EXCEPT !["volts"][0].v[1] = 0, !["time"][0].v[1] = Never]
  ELSE store

\* RUN, before or after ccInitFunctions has come so far, and the commands that
\* show something: they may fail, and the library may leave errno set.
CmdsRun ==
  \E l \in NextLines, status \in {"ok", "fail"} :
    /\ l.cmd = "RUN"
    /\ store' \in {store, Unperturbed} /\ errno' \in BOOLEAN
    /\ stack' = Done(status) /\ Counted
    /\ UNCHANGED <<disk, saved, argv, inputIdx, starts>>

CmdsSave ==
  \E l \in NextLines :
    /\ l.cmd = "SAVE"
    /\ disk' = [f \in DOMAIN disk \cup {l.file} |-> IF f = l.file THEN SavedLines ELSE disk[f]]
    /\ saved' = [f \in DOMAIN saved \cup {l.file} |-> IF f = l.file THEN store ELSE saved[f]]
    /\ stack' = Done("ok") /\ Counted
    /\ UNCHANGED <<store, argv, inputIdx, errno, starts>>

\* READ: a file, all the files of the directory (*), or stdin, which is read only
\* if nothing else is.
Opens(l) ==
  /\ Nesting(inputIdx)
  /\ l.file = "stdin" => inputIdx = 0
  /\ l.file \notin {"stdin", "*"} => l.file \in DOMAIN disk

CmdsRead ==
  \E l \in NextLines :
    /\ l.cmd = "READ" /\ Opens(l) /\ Len(stack) < MaxDepth
    /\ stack' = Append(Done(Top.status),
                       Frame(CASE l.file = "stdin" -> "stdin" [] l.file = "*" -> "dir" [] OTHER -> "file", l.file))
    /\ inputIdx' = (IF l.file = "*" THEN inputIdx ELSE inputIdx + 1) /\ Counted
    /\ UNCHANGED <<store, disk, saved, argv, errno, starts>>

ReadRefused ==
  \E l \in NextLines :
    /\ l.cmd = "READ" /\ ~Opens(l)
    /\ stack' = Done("fail") /\ Counted
    /\ errno' = (errno \/ (Nesting(inputIdx) /\ l.file # "stdin"))
    /\ UNCHANGED <<store, disk, saved, argv, inputIdx, starts>>

SkipEntry ==
  \E l \in NextLines :
    /\ l.cmd = "SKIP"
    /\ stack' = Done(Top.status)
    /\ UNCHANGED <<store, disk, saved, argv, inputIdx, errno, typed, starts>>

\* EXIT of a file is its failure, but the program ends if no file is being read.
Quits(l) == l.cmd = "QUIT" \/ (l.cmd = "EXIT" /\ Top.kind # "file")

CmdsExit ==
  \E l \in NextLines :
    /\ l.cmd = "EXIT" /\ ~Quits(l)
    /\ stack' = Done("fail") /\ Counted
    /\ UNCHANGED <<store, disk, saved, argv, inputIdx, errno, starts>>

CmdsQuit ==
  \E l \in NextLines :
    /\ Quits(l)
    /\ stack' = << >>
    /\ UNCHANGED <<store, disk, saved, argv, inputIdx, errno, typed, starts>>

\* The end of a file, or of stdin, whose input index is not given back.
CloseFile ==
  /\ Running /\ Top.kind = "file" /\ (Over \/ Left)
  /\ stack' = Return(Top) /\ inputIdx' = inputIdx - 1
  /\ UNCHANGED <<store, disk, saved, argv, errno, typed, starts>>

EndOfStdin ==
  /\ Running /\ Top.kind = "stdin"
  /\ stack' = Return(Top)
  /\ UNCHANGED <<store, disk, saved, argv, inputIdx, errno, typed, starts>>

\* The end of the directory, which is taken for an error if errno is not zero.
CloseDir ==
  /\ Running /\ Top.kind = "dir" /\ (Over \/ Left)
  /\ stack' = IF ~Left /\ errno THEN << >> ELSE Return(Top)
  /\ UNCHANGED <<store, disk, saved, argv, inputIdx, errno, typed, starts>>

-----------------------------------------------------------------------------
(***************************************************************************)
(* The program.                                                             *)
(***************************************************************************)
Init ==
  /\ store = Default /\ disk = Files /\ saved = [f \in {} |-> Default]
  /\ argv = << >> /\ stack = << >> /\ inputIdx = 0 /\ errno = FALSE
  /\ typed = 0 /\ starts = 0 /\ failed = FALSE

\* main: without arguments, stdin is read.
Main ==
  /\ ~Running /\ starts < MaxStarts
  /\ argv' \in Argvs /\ starts' = starts + 1
  /\ store' = Default /\ inputIdx' = 0 /\ errno' = FALSE /\ typed' = 0
  /\ stack' = << [kind |-> "args", file |-> "args", next |-> 1, status |-> "ok", fresh |-> TRUE] >>
  /\ UNCHANGED <<disk, saved>>

End ==
  /\ Running /\ Top.kind = "args" /\ (Over \/ Left)
  /\ stack' = << >>
  /\ UNCHANGED <<store, disk, saved, argv, inputIdx, errno, typed, starts>>

Reads == CmdsPar \/ Wrong \/ CmdsRun \/ CmdsSave \/ CmdsRead \/ ReadRefused \/ SkipEntry
         \/ CmdsExit \/ CmdsQuit
Closes == CloseFile \/ EndOfStdin \/ CloseDir \/ End

\* Of the loops that read files: an error not yet at the prompt.
Failing ==
  /\ Running' /\ ~AtPrompt'
  /\ failed \/ (Top'.status = "fail" /\ Enabled(store'))

Next == (Reads \/ Closes \/ Main) /\ failed' = Failing

\* The program reads on by itself while it is reading files.
Spec == Init /\ [][Next]_vars /\ WF_vars(~AtPrompt /\ Next)

-----------------------------------------------------------------------------
(***************************************************************************)
(* Properties.                                                              *)
(***************************************************************************)
\* The variables have their types: arrays have a place for all their elements,
\* and the files, those of SAVE included, are lines.
Arrays(p) == [n : 0 .. Pars[p].max, v : [1 .. Pars[p].max -> Int]]
IsStore(s) == DOMAIN s = DOMAIN Pars /\ \A p \in DOMAIN Pars : s[p] \in [Selectors(p) -> Arrays(p)]
Frames ==
  [kind : {"args", "stdin", "file", "dir"}, file : Words, next : Nat \ {0},
   status : {"ok", "fail"}, fresh : BOOLEAN]
TypeOK ==
  /\ IsStore(store) /\ \A f \in DOMAIN saved : IsStore(saved[f])
  /\ argv \in Seq(LineSet) /\ \A f \in DOMAIN disk : disk[f] \in Seq(LineSet)
  /\ stack \in Seq(Frames) /\ inputIdx \in 0 .. NestLimit - 1
  /\ typed \in 0 .. MaxTyped /\ starts \in 0 .. MaxStarts
  /\ {errno, failed} \subseteq BOOLEAN

\* What follows the elements of an array is zero, however it grew, shrank, was
\* set one element at a time or by a line with an error in it: libreg takes
\* the whole array of RST coefficients.
TrailingZero ==
  \A p \in DOMAIN Pars : \A s \in Selectors(p) :
    \A i \in store[p][s].n + 1 .. Pars[p].max : store[p][s].v[i] = 0

\* The parameters that were saved, when they are read by a program that has just
\* been started, are there again, with as many elements, to the precision of
\* the file, if no line of the file is too long to be read.
Restored(f) ==
  LET There(x) == [x EXCEPT !.v = [i \in DOMAIN @ |-> Printed(@[i])]]
      Fits == \A p \in DOMAIN Pars : \A s \in Selectors(p) : saved[f][p][s].n <= LineMax
  IN Fits => store = [p \in DOMAIN Pars |-> [s \in Selectors(p) |-> There(saved[f][p][s])]]
RoundTrip ==
  Running /\ Top.kind = "file" /\ Top.file \in DOMAIN saved /\ Top.fresh /\ Over => Restored(Top.file)

\* No line of the files that were there saves over one of them, as a script that
\* rewrites itself while it is being read.
SavesApart ==
  \A f \in DOMAIN Files : \A i \in DOMAIN Files[f] :
    Files[f][i].cmd = "SAVE" => Files[f][i].file \notin DOMAIN Files

\* Every parameter is an array of its length with nothing after its elements.
StoreSound == TypeOK /\ TrailingZero

\* With STOP_ON_ERROR, a failed line is the end of every file being read, the one
\* it is in and those that read it, however deep: until the prompt, or the command
\* line, nothing else is done.
ErrorStops ==
  [][failed => /\ store' = store /\ disk' = disk /\ Len(stack') < Len(stack)]_vars

\* Files that read each other, or themselves, with errors that stop nothing, come
\* to their end: the nesting is limited.
ReadingReturns == []<>AtPrompt
=============================================================================
