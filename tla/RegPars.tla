---- MODULE RegPars ----
(***************************************************************************)
(* regMgrParsWithMask of libreg/src/regMgr.c as a data-flow: the scan of   *)
(* the parameters for changes, the two masks of groups it collects, and    *)
(* the groups' initialisation functions, run in a fixed order, each of     *)
(* which derives a structure from parameters and from other structures.    *)
(*                                                                         *)
(* A parameter is represented by whether the application's value differs   *)
(* from the copy libreg keeps, a structure by whether it is stale: derived *)
(* from parameters or structures that have changed since. The real-time    *)
(* thread may change reg_mode at any moment.                               *)
(*                                                                         *)
(* ParMeta has one row for each class of rows of pars.csv that have the    *)
(* same flags and groups and are read by the same functions. The rows of   *)
(* the field signal mirror those of the current and are left out, with     *)
(* their groups; so are rows whose group has one reader and no other use   *)
(* (LIMITS ERR and RMS, V_LIMITS, MEAS_SIM and PC_SIM noise and tone).     *)
(***************************************************************************)
EXTENDS Naturals, Sequences, FiniteSets

CONSTANTS
    Supplied,     \* parameters the application has given libreg a pointer to
    Checked,      \* structures DerivedFresh is about
    MaxChanges    \* bound: parameter values the application changes

LS == "LOAD_SELECT"       \* an array over the loads
TP == "TEST_PAR"          \* has a test value
MN == "MODE_NONE_ONLY"    \* changes are ignored unless reg_mode is NONE

RstGroups == {"IREG", "IREG_TEST"}

Row(name, flags, groups) == [name |-> name, flags |-> flags, groups |-> groups]

\* The parameters in the order of pars.csv, which is that of the scan and of
\* the members of par_values.
ParMeta == <<
    Row("reg_err_rate",      {MN},         RstGroups),
    Row("ireg_period_iters", {LS, TP, MN}, {"I_MEAS_FILTER"} \cup RstGroups),
    Row("ireg_pure_delay",   {LS, TP},     RstGroups),
    Row("ireg_auxpole",      {LS, TP},     RstGroups),
    Row("ireg_r",            {},           {"IREG"}),
    Row("ireg_test_r",       {TP},         {"IREG_TEST"}),
    Row("limits_i_pos",      {LS, MN},     {"I_LIMITS_MEAS", "I_LIMITS_REF", "I_MEAS_FILTER"}),
    Row("limits_i_min",      {LS},         {"I_LIMITS_REF"}),
    Row("limits_i_low",      {LS},         {"I_LIMITS_MEAS"}),
    Row("load_ohms",         {LS, TP},     {"LOAD", "LOAD_SIM", "LOAD_TEST"} \cup RstGroups),
    Row("load_henrys_sat",   {LS, TP},     {"LOAD_SAT", "LOAD_SIM", "LOAD_SAT_TEST"}),
    Row("meas_i_delay",      {MN},         {"I_MEAS_FILTER", "MEAS_SIM_DELAYS"} \cup RstGroups),
    Row("pc_sim",            {},           {"PC_SIM"} \cup RstGroups) >>

Params == {ParMeta[n].name : n \in DOMAIN ParMeta}

\* The values libreg keeps: element 0 of a parameter, and element 1, the value
\* for LOAD TEST_SELECT, of those that pars.awk gives two.
Kept(p) == IF {LS, TP} \subseteq p.flags /\ MN \notin p.flags THEN {p.name} \X {0, 1}
           ELSE {p.name} \X {0}

Elements == UNION {Kept(ParMeta[k]) : k \in DOMAIN ParMeta}

Op(names) == names \X {0}

\* The structures in the order of their initialisation: the group that selects
\* the initialisation function, the mask in which the group is looked up, the
\* copies of parameters it reads, and the structures it is derived from. One
\* function may set several: regMeasFilterInit the filter's scaling and the
\* measurement's delays, of which only the delays are used by regMgrRstInit.
Structure(name, group, mask, reads, uses) ==
    [name |-> name, group |-> group, mask |-> mask, reads |-> reads, uses |-> uses]

Structures == <<
    Structure("sim_pc_pars", "PC_SIM", "op", Op({"pc_sim"}), {}),
    Structure("i_lim_meas", "I_LIMITS_MEAS", "op", Op({"limits_i_pos", "limits_i_low"}), {}),
    Structure("i_lim_ref", "I_LIMITS_REF", "op", Op({"limits_i_pos", "limits_i_min"}), {}),
    Structure("i_meas_scale", "I_MEAS_FILTER", "op", Op({"limits_i_pos"}), {}),
    Structure("i_meas_delay", "I_MEAS_FILTER", "op", Op({"ireg_period_iters", "meas_i_delay"}), {}),
    Structure("i_sim_delay", "MEAS_SIM_DELAYS", "op", Op({"meas_i_delay"}), {}),
    Structure("load_pars", "LOAD", "op", Op({"load_ohms"}), {}),
    Structure("load_sat", "LOAD_SAT", "op", Op({"load_henrys_sat"}), {"load_pars"}),
    Structure("sim_load_pars", "LOAD_SIM", "op", {}, {"load_pars", "load_sat"}),
    Structure("op_rst_pars", "IREG", "op",
        Op({"reg_err_rate", "ireg_period_iters", "ireg_pure_delay", "ireg_auxpole", "ireg_r"}),
        {"load_pars", "sim_pc_pars", "i_meas_delay"}),
    Structure("load_pars_test", "LOAD_TEST", "test", {<<"load_ohms", 1>>}, {}),
    Structure("load_sat_test", "LOAD_SAT_TEST", "test", {<<"load_henrys_sat", 1>>},
        {"load_pars_test"}),
    Structure("test_rst_pars", "IREG_TEST", "test",
        Op({"reg_err_rate", "ireg_period_iters", "ireg_test_r"})
            \cup {<<"ireg_pure_delay", 1>>, <<"ireg_auxpole", 1>>},
        {"load_pars_test", "sim_pc_pars", "i_meas_delay"}) >>

AllGroups     == {Structures[k].group : k \in DOMAIN Structures}
AllStructures == {Structures[k].name : k \in DOMAIN Structures}

\* The names of the structures that satisfy P
StructuresWith(P(_)) == {Structures[k].name : k \in {h \in DOMAIN Structures : P(Structures[h])}}

ASSUME ParsAssumption ==
    Supplied \subseteq Params /\ Checked \subseteq AllStructures /\ MaxChanges \in Nat

VARIABLES
    diff,       \* elements whose value in the application is not the copy's
    foreign,    \* elements whose copy was overwritten with another parameter's value
    stale,      \* structures derived from something that has changed since
    mode,       \* reg_mode: "NONE", or "REG" for every other mode
    running,    \* whether the real-time thread has been started
    pc,         \* "idle", "scan", "init"
    n,          \* the parameter or group the loop has come to
    opMask,     \* par_groups_mask
    testMask,   \* test_par_groups_mask
    changes     \* values changed so far

vars == <<diff, foreign, stale, mode, running, pc, n, opMask, testMask, changes>>

\* regMgrSimInit calls regMgrParsWithMask with a mask of all the groups, before
\* the real-time thread is started. The copies have the values of pars.csv, the
\* application has the same or its own.
Init ==
    /\ diff \in {{}, {e \in Elements : e[1] \in Supplied}}
    /\ foreign = {} /\ stale = AllStructures
    /\ mode = "NONE" /\ running = FALSE
    /\ pc = "scan" /\ n = 1 /\ opMask = AllGroups /\ testMask = AllGroups
    /\ changes = 0

\* The application changes a parameter, or LOAD SELECT or LOAD TEST_SELECT so
\* that other values of a parameter are selected, between two calls.
ChangePar(S) ==
    /\ pc = "idle"
    /\ changes < MaxChanges
    /\ changes' = changes + 1
    /\ diff' = diff \cup S
    /\ UNCHANGED <<foreign, stale, mode, running, pc, n, opMask, testMask>>

RegMgrPars ==
    /\ pc = "idle"
    /\ pc' = "scan" /\ n' = 1 /\ opMask' = {} /\ testMask' = {}
    /\ UNCHANGED <<diff, foreign, stale, mode, running, changes>>

\* MUTANT: every parameter is ignored unless reg_mode is NONE.
ScannedModeNone(p) == p.name \in Supplied /\ mode = "NONE"

\* Whether the scan considers parameter p
Scanned(p) == p.name \in Supplied /\ (mode = "NONE" \/ MN \notin p.flags)

\* Where the second value of an array over the loads is kept. pars.awk gives a
\* MODE_NONE_ONLY parameter an array of one element, so that value_dest +
\* size_in_bytes is the first element of the next member of par_values.
SecondElement(k) ==
    IF MN \in ParMeta[k].flags THEN <<ParMeta[k + 1].name, 0>> ELSE <<ParMeta[k].name, 1>>

\* The two memcmp of the scan. A period and the delay it is compared with for
\* want of a second element have no bits in common.
FirstDiffers(k) == <<ParMeta[k].name, 0>> \in diff

SecondDiffers(k) ==
    /\ {LS, TP} \subseteq ParMeta[k].flags
    /\ IF MN \in ParMeta[k].flags THEN SecondElement(k) \notin foreign
                                   ELSE SecondElement(k) \in diff

\* The copies an iteration of the scan overwrites
Overwritten(k) ==
    (IF FirstDiffers(k) THEN {<<ParMeta[k].name, 0>>} ELSE {}) \cup
    (IF SecondDiffers(k) THEN {SecondElement(k)} ELSE {})

\* One iteration of the scan. What an overwritten copy was used for is stale.
ScanPar ==
    /\ pc = "scan"
    /\ n <= Len(ParMeta)
    /\ LET p       == ParMeta[n]
           alien   == IF MN \in p.flags /\ SecondDiffers(n) THEN {SecondElement(n)} ELSE {}
           written == Overwritten(n)
       IN IF Scanned(p)
          THEN /\ diff' = (diff \ {<<p.name, 0>>, <<p.name, 1>>}) \cup alien
               /\ foreign' = (foreign \ (written \ alien)) \cup alien
               /\ stale' = stale \cup StructuresWith(LAMBDA d : d.reads \cap written # {})
               /\ opMask' = opMask \cup (IF FirstDiffers(n) THEN p.groups ELSE {})
               /\ testMask' = testMask \cup (IF SecondDiffers(n) THEN p.groups ELSE {})
          ELSE UNCHANGED <<diff, foreign, stale, opMask, testMask>>
    /\ n' = n + 1
    /\ UNCHANGED <<mode, running, pc, changes>>

ScanEnd ==
    /\ pc = "scan"
    /\ n > Len(ParMeta)
    /\ pc' = "init" /\ n' = 1
    /\ UNCHANGED <<diff, foreign, stale, mode, running, opMask, testMask, changes>>

\* MUTANT: the test groups are looked up in the mask of the operational ones.
SelectedOpMask(d) == d.group \in opMask

Selected(d) == d.group \in IF d.mask = "op" THEN opMask ELSE testMask

\* The initialisation of a structure. It is as good as the structures it was
\* derived from; if it was stale, it has changed, and those derived from it are
\* now stale (regLoadInit disables the saturation model regLoadInitSat has set).
InitStructure ==
    /\ pc = "init"
    /\ n <= Len(Structures)
    /\ LET d     == Structures[n]
           kept  == IF d.uses \cap stale = {} THEN stale \ {d.name} ELSE stale
           users == StructuresWith(LAMBDA u : d.name \in stale /\ d.name \in u.uses)
       IN stale' = IF Selected(d) THEN kept \cup users ELSE stale
    /\ n' = n + 1
    /\ UNCHANGED <<diff, foreign, mode, running, pc, opMask, testMask, changes>>

RegMgrParsReturn ==
    /\ pc = "init"
    /\ n > Len(Structures)
    /\ pc' = "idle" /\ n' = 1 /\ opMask' = {} /\ testMask' = {}
    /\ running' = TRUE
    /\ UNCHANGED <<diff, foreign, stale, mode, changes>>

ModeSetRT ==
    /\ running
    /\ mode' = IF mode = "NONE" THEN "REG" ELSE "NONE"
    /\ UNCHANGED <<diff, foreign, stale, running, pc, n, opMask, testMask, changes>>

Next ==
    \/ \E k \in DOMAIN ParMeta : \E S \in SUBSET Kept(ParMeta[k]) \ {{}} : ChangePar(S)
    \/ RegMgrPars \/ ScanPar \/ ScanEnd \/ InitStructure \/ RegMgrParsReturn
    \/ ModeSetRT

Spec == Init /\ [][Next]_vars

\* The scan and the initialisation stay within the tables of parameters and groups.
TypeOK ==
    /\ diff \subseteq Elements /\ foreign \subseteq Elements
    /\ stale \subseteq AllStructures /\ opMask \subseteq AllGroups /\ testMask \subseteq AllGroups
    /\ mode \in {"NONE", "REG"} /\ running \in BOOLEAN /\ pc \in {"idle", "scan", "init"}
    /\ n \in 1 .. Len(Structures) + 1
    /\ changes \in 0 .. MaxChanges

\* When regMgrPars returns, each checked structure has been derived from the
\* copies of the parameters and the structures that are there now.
DerivedFresh == pc = "idle" => Checked \cap stale = {}

\* When the structures are initialised, no copy of a parameter holds another
\* parameter's value (the scan copies the values before the masks are tested).
CopyIsSupplied == TypeOK /\ (pc # "scan" => foreign = {})

====
