------------------------------ MODULE MCLimits ------------------------------
(***************************************************************************)
(* Limits with two or three sets of limits for every structure: levels above *)
(* and below one another, a bipolar and a unipolar converter, a zone that    *)
(* crosses zero volts, a wider one and none, and limits switched off.        *)
(***************************************************************************)
EXTENDS Limits

MCMeasPars == { [pos |-> 20, neg |-> -20, low |-> 20, zero |-> 10],
                [pos |-> 10, neg |-> 0, low |-> 10, zero |-> 0],
                [pos |-> 20, neg |-> 0, low |-> 0, zero |-> 20] }
MCRmsPars == { [warning |-> 10, fault |-> 15, tc |-> 2],
               [warning |-> 18, fault |-> 0, tc |-> 2],
               [warning |-> 0, fault |-> 5, tc |-> 0] }
MCVrefPars == { [pos |-> 20, neg |-> -20, rate |-> 10, i |-> <<-10, 20>>, v |-> <<0, 30>>],
                [pos |-> 20, neg |-> -10, rate |-> 10, i |-> <<0, 30>>, v |-> <<-10, 20>>],
                [pos |-> 20, neg |-> 0, rate |-> 20, i |-> <<0, 0>>, v |-> <<0, 0>>] }
MCErrPars == { [warning |-> 10, fault |-> 16], [warning |-> 0, fault |-> 0] }
MCCurrents == { -20, 0, 9, 12, 20 }
MCRefs == { -20, 20 }
MCErrors == { 0, 7, 9, 25 }
=============================================================================
