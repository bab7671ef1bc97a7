----------------------------- MODULE MCFuncRun -----------------------------
(***************************************************************************)
(* FuncRun with functions of each way of starting and ending.                *)
(***************************************************************************)
EXTENDS FuncRun

Function(fn, m, prefunc, end) ==
  [fn |-> fn, mode |-> m, prefunc |-> prefunc, end |-> end, valid |-> TRUE,
   time |-> << >>, ref |-> << >>, ramp |-> 0]

Direct(ramp) ==
  [Function("DIRECT", "CURRENT", "RAMP", 6) EXCEPT
     !.time = <<0, 3, 6>>, !.ref = <<1, 1, 2>>, !.ramp = ramp]

MCFunctions ==
  { Function("TABLE", "CURRENT", "MINMAX", 5), Function("RAMP", "CURRENT", "MIN", 2),
    Function("TABLE", "VOLTAGE", "RAMP", 3), Direct(0),
    [Function("PULSE", "CURRENT", "RAMP", 1) EXCEPT !.valid = FALSE],
    Function("NONE", "VOLTAGE", "RAMP", 1) }

MCPlaylists == { <<1>>, <<1, 2>>, <<2, 1, 1>> }
MCTestSels == { <<0, 0>>, <<1, 2>> }
MCWindows == { <<0, 0>>, <<1, 6>> }
=============================================================================
