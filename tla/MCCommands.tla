----------------------------- MODULE MCCommands -----------------------------
(***************************************************************************)
(* Commands with a parameter of each kind, and files that read each other.   *)
(***************************************************************************)
EXTENDS Commands

Parameter(max, cyc, fixed, default) == [max |-> max, cyc |-> cyc, fixed |-> fixed, default |-> default]

\* GLOBAL STOP_ON_ERROR, REF FUNCTION, TABLE REF, IREG R, and OHMS_SER, PERTURB_VOLTS
\* and PERTURB_TIME of LOAD.
MCPars ==
  [stop |-> Parameter(1, FALSE, FALSE, <<1>>), function |-> Parameter(1, TRUE, FALSE, <<0>>),
   table |-> Parameter(3, TRUE, FALSE, <<1>>), r |-> Parameter(2, FALSE, TRUE, << >>),
   ohms |-> Parameter(2, FALSE, TRUE, <<1, 1>>),
   volts |-> Parameter(1, FALSE, FALSE, <<0>>), time |-> Parameter(1, FALSE, FALSE, <<0>>)]

MCCommandList == << <<"stop">>, <<"ohms", "volts", "time">>, <<"r">>, <<"function">>, <<"table">> >>

Stop(v) == Par("stop", NoIndex, NoIndex, <<v>>)

MCFiles ==
  [a |-> << Par("table", 1, NoIndex, <<2, 2>>), Line("READ", "b"), Par("r", NoIndex, NoIndex, <<2>>), Line("SAVE", "s") >>,
   b |-> << Par("ohms", NoIndex, NoIndex, <<2, Bad>>), Line("READ", "b"), Line("EXIT", "") >>]
MCNames == << "b", "a", "s" >>

MCTyped ==
  { Stop(0), Par("function", 0, NoIndex, <<2, 1>>), Par("table", AllCycles, 1, <<2>>),
    Par("table", 1, 0, <<1, 2, 2>>), Par("table", NoIndex, NoIndex, <<3, 2>>),
    Par("r", NoIndex, 1, <<2>>), Par("volts", NoIndex, NoIndex, <<1, 2>>),
    Line("READ", "a"), Line("READ", "*"), Line("READ", "missing"), Line("READ", "stdin"),
    Line("SAVE", "s"), Line("RUN", ""), Line("WRONG", ""), Line("EXIT", "") }

MCArgvs ==
  { << Line("READ", "stdin") >>, << Line("READ", "s"), Line("RUN", ""), Line("QUIT", "") >>,
    << Stop(0), Line("READ", "a"), Line("READ", "stdin") >> }
MCFine == [v \in {3} |-> 2]

\* What the proof of RoundTrip takes of the files
ASSUME FilesAssumption == SavesApart
=============================================================================
