---- MODULE ParHandover ----
(***************************************************************************)
(* What libreg promises about a set of RST parameters (mgr.h, struct       *)
(* REG_mgr_rst_pars): a mailbox of one place between the background        *)
(* thread, which computes sets, and the real-time thread, which uses them. *)
(* A set is posted only into an empty box, is never overwritten before it  *)
(* is taken, and the sets in use only ever get newer.                      *)
(*                                                                         *)
(* RstExchange.tla models the two threads that implement this with two     *)
(* structures, two pointers and a flag.                                    *)
(***************************************************************************)
EXTENDS Naturals

CONSTANTS
    Slots,      \* the parameter sets that are handed over independently
    Versions    \* the versions a set can have, numbers; 0 is the set at start-up

VARIABLES
    box,        \* box[s]: {v} while version v is posted and not yet taken, else {}
    inUse       \* inUse[s]: the version the real-time thread works with

hvars == <<box, inUse>>

HInit ==
    /\ box = [s \in Slots |-> {}]
    /\ inUse = [s \in Slots |-> 0]

\* The background thread posts a set newer than the one in use.
Post(s, v) ==
    /\ box[s] = {}
    /\ v > inUse[s]
    /\ box' = [box EXCEPT ![s] = {v}]
    /\ UNCHANGED inUse

\* The real-time thread takes what the box holds.
Take(s) ==
    /\ \E v \in box[s] : inUse' = [inUse EXCEPT ![s] = v]
    /\ box' = [box EXCEPT ![s] = {}]

HNext == \E s \in Slots : Take(s) \/ \E v \in Versions : Post(s, v)

HSpec == HInit /\ [][HNext]_hvars

\* The real-time thread visits the box every iteration period.
HFairSpec == HSpec /\ \A s \in Slots : WF_hvars(Take(s))

====
