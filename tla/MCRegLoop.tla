---- MODULE MCRegLoop ----
(***************************************************************************)
(* Values of the constants of RegLoop: periods that interleave, orders of  *)
(* a PII regulator (current) and a PI regulator (field), and delays of the *)
(* reference of between one and two and a half periods.                    *)
(***************************************************************************)
EXTENDS RegLoop

PerSignal(i, b) == [g \in Enabled |-> IF g = "i" THEN i ELSE b]

MCPeriod        == PerSignal(2, 3)
MCOrder         == PerSignal(2, 1)
MCRefDelay      == PerSignal(5, 4)
MCErrUnfiltered == PerSignal(TRUE, TRUE)

\* A PI regulator whose reference is delayed by more than one period and a
\* third, 1 + pure_delay_periods
MCRefDelayPI == PerSignal(5, 5)

\* cctest starts in the mode of its first function and passes no time; an
\* application that synchronises systems starts with REG_NONE and the time.
MCClients == ({"VOLTAGE", "i", "b"} \X {FALSE}) \cup {<<"NONE", TRUE>>}

\* ccrt starts with REG_NONE and passes no time.
MCClientsRt == {<<"NONE", FALSE>>}

====
