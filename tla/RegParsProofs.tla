---- MODULE RegParsProofs ----
(***************************************************************************)
(* Proofs about RegPars: that no structure keeps a copy of another         *)
(* parameter, and that the checked structures follow every change, for any *)
(* number of changes and any set of supplied parameters in which the pure  *)
(* delay comes with the period. load_sat, sim_load_pars, load_sat_test and *)
(* test_rst_pars are not Sound: what they are derived from changes without *)
(* their group being selected.                                             *)
(***************************************************************************)
EXTENDS RegPars, TLAPS

\* The copy that the scan of ireg_period_iters takes for its second element
Alias == <<"ireg_pure_delay", 0>>

\* The structures, by their row, whose group every parameter they read carries,
\* and every parameter read by what they are derived from.
Sound == (1 .. 7) \cup {10, 11}

Name(h) == Structures[h].name

\* The structures to initialise when the parameters of structure h change
Needs(h) == {h} \cup {j \in Sound : Name(h) \in Structures[j].uses}

\* A parameter of which structure h reads an element carries the group of j.
Carries(k, h, j) ==
    /\ <<ParMeta[k].name, 0>> \in Structures[h].reads =>
           Structures[j].mask = "op" /\ Structures[j].group \in ParMeta[k].groups
    /\ <<ParMeta[k].name, 1>> \in Structures[h].reads =>
           Structures[j].mask = "test" /\ Structures[j].group \in ParMeta[k].groups

\* An application that lets libreg see the period lets it see the pure delay,
\* whose turn is next in the scan: it puts the overwritten copy right.
AliasReaches == "ireg_period_iters" \in Supplied => "ireg_pure_delay" \in Supplied

----------------------------------------------------------------------------
(* The inductive invariant                                                 *)

\* The period has overwritten the copy of the delay, which is scanned next.
Overwrites == pc = "scan" /\ n = 3 /\ Alias \in diff /\ "ireg_period_iters" \in Supplied

Foreigners == /\ foreign \subseteq {Alias}
              /\ foreign # {} => Overwrites

\* What is stale will be initialised in this call, with its users.
Queued == pc # "idle" =>
    \A h \in Sound : Name(h) \in stale =>
        (\A j \in Needs(h) : Selected(Structures[j])) \/ (h = 10 /\ Overwrites)

\* What the initialisation has passed is not stale.
Derived == \A h \in Sound : pc = "idle" \/ (pc = "init" /\ h < n) => Name(h) \notin stale

IInv == TypeOK /\ Foreigners /\ Queued /\ Derived

----------------------------------------------------------------------------
(* The tables                                                              *)

\* The numbers of rows of the two tables
LEMMA Domains ==
    /\ DOMAIN ParMeta = 1 .. 13 /\ Len(ParMeta) = 13
    /\ DOMAIN Structures = 1 .. 13 /\ Len(Structures) = 13
  BY DEF ParMeta, Structures

\* A structure that reads operational values reads no test value.
LEMMA OpReads ==
    ASSUME NEW x, NEW N
    PROVE  (<<x, 0>> \in Op(N) <=> x \in N) /\ <<x, 1>> \notin Op(N)
  BY DEF Op

\* The rows of the parameters by name
LEMMA ParIndex ==
    ASSUME NEW k \in DOMAIN ParMeta
    PROVE  /\ ParMeta[k].name = "reg_err_rate" => k = 1
           /\ ParMeta[k].name = "ireg_period_iters" => k = 2
           /\ ParMeta[k].name = "ireg_pure_delay" => k = 3
           /\ ParMeta[k].name = "ireg_auxpole" => k = 4
           /\ ParMeta[k].name = "ireg_r" => k = 5
           /\ ParMeta[k].name = "limits_i_pos" => k = 7
           /\ ParMeta[k].name = "limits_i_min" => k = 8
           /\ ParMeta[k].name = "limits_i_low" => k = 9
           /\ ParMeta[k].name = "load_ohms" => k = 10
           /\ ParMeta[k].name = "meas_i_delay" => k = 12
           /\ ParMeta[k].name = "pc_sim" => k = 13
<1>1. k \in 1 .. 13
  BY Domains
<1>2. CASE k \in 1 .. 4
  BY <1>2 DEF ParMeta, Row
<1>3. CASE k \in 5 .. 9
  BY <1>3 DEF ParMeta, Row
<1>4. CASE k \in 10 .. 13
  BY <1>4 DEF ParMeta, Row
<1> QED
  BY <1>1, <1>2, <1>3, <1>4

\* No structure name appears twice.
LEMMA NameIndex ==
    ASSUME NEW h \in DOMAIN Structures
    PROVE  /\ Name(h) = "sim_pc_pars" => h = 1
           /\ Name(h) = "i_lim_meas" => h = 2
           /\ Name(h) = "i_lim_ref" => h = 3
           /\ Name(h) = "i_meas_scale" => h = 4
           /\ Name(h) = "i_meas_delay" => h = 5
           /\ Name(h) = "i_sim_delay" => h = 6
           /\ Name(h) = "load_pars" => h = 7
           /\ Name(h) = "load_sat" => h = 8
           /\ Name(h) = "sim_load_pars" => h = 9
           /\ Name(h) = "op_rst_pars" => h = 10
           /\ Name(h) = "load_pars_test" => h = 11
<1>1. h \in 1 .. 13
  BY Domains
<1>2. CASE h \in 1 .. 4
  BY <1>2 DEF Structures, Structure, Name
<1>3. CASE h \in 5 .. 9
  BY <1>3 DEF Structures, Structure, Name
<1>4. CASE h \in 10 .. 13
  BY <1>4 DEF Structures, Structure, Name
<1> QED
  BY <1>1, <1>2, <1>3, <1>4


\* Every parameter a sound structure reads carries its group.
LEMMA CarriesOwn ==
    ASSUME NEW k \in DOMAIN ParMeta, NEW h \in Sound
    PROVE  Carries(k, h, h)
<1>1. h \in 1 .. 7 \/ h = 10 \/ h = 11
  BY DEF Sound
<1>2. CASE h = 1
  <2>1. /\ Structures[1].reads = Op({"pc_sim"})
        /\ Structures[1].mask = "op" /\ Structures[1].group = "PC_SIM"
    BY DEF Structures, Structure
  <2>2. \A m \in {13} : "PC_SIM" \in ParMeta[m].groups
    BY DEF ParMeta, Row, RstGroups
  <2> QED
    BY <1>2, <2>1, <2>2, ParIndex, OpReads DEF Carries
<1>3. CASE h = 2
  <2>1. /\ Structures[2].reads = Op({"limits_i_pos", "limits_i_low"})
        /\ Structures[2].mask = "op" /\ Structures[2].group = "I_LIMITS_MEAS"
    BY DEF Structures, Structure
  <2>2. \A m \in {7, 9} : "I_LIMITS_MEAS" \in ParMeta[m].groups
    BY DEF ParMeta, Row, RstGroups
  <2> QED
    BY <1>3, <2>1, <2>2, ParIndex, OpReads DEF Carries
<1>4. CASE h = 3
  <2>1. /\ Structures[3].reads = Op({"limits_i_pos", "limits_i_min"})
        /\ Structures[3].mask = "op" /\ Structures[3].group = "I_LIMITS_REF"
    BY DEF Structures, Structure
  <2>2. \A m \in {7, 8} : "I_LIMITS_REF" \in ParMeta[m].groups
    BY DEF ParMeta, Row, RstGroups
  <2> QED
    BY <1>4, <2>1, <2>2, ParIndex, OpReads DEF Carries
<1>5. CASE h = 4
  <2>1. /\ Structures[4].reads = Op({"limits_i_pos"})
        /\ Structures[4].mask = "op" /\ Structures[4].group = "I_MEAS_FILTER"
    BY DEF Structures, Structure
  <2>2. \A m \in {7} : "I_MEAS_FILTER" \in ParMeta[m].groups
    BY DEF ParMeta, Row, RstGroups
  <2> QED
    BY <1>5, <2>1, <2>2, ParIndex, OpReads DEF Carries
<1>6. CASE h = 5
  <2>1. /\ Structures[5].reads = Op({"ireg_period_iters", "meas_i_delay"})
        /\ Structures[5].mask = "op" /\ Structures[5].group = "I_MEAS_FILTER"
    BY DEF Structures, Structure
  <2>2. \A m \in {2, 12} : "I_MEAS_FILTER" \in ParMeta[m].groups
    BY DEF ParMeta, Row, RstGroups
  <2> QED
    BY <1>6, <2>1, <2>2, ParIndex, OpReads DEF Carries
<1>7. CASE h = 6
  <2>1. /\ Structures[6].reads = Op({"meas_i_delay"})
        /\ Structures[6].mask = "op" /\ Structures[6].group = "MEAS_SIM_DELAYS"
    BY DEF Structures, Structure
  <2>2. \A m \in {12} : "MEAS_SIM_DELAYS" \in ParMeta[m].groups
    BY DEF ParMeta, Row, RstGroups
  <2> QED
    BY <1>7, <2>1, <2>2, ParIndex, OpReads DEF Carries
<1>8. CASE h = 7
  <2>1. /\ Structures[7].reads = Op({"load_ohms"})
        /\ Structures[7].mask = "op" /\ Structures[7].group = "LOAD"
    BY DEF Structures, Structure
  <2>2. \A m \in {10} : "LOAD" \in ParMeta[m].groups
    BY DEF ParMeta, Row, RstGroups
  <2> QED
    BY <1>8, <2>1, <2>2, ParIndex, OpReads DEF Carries
<1>9. CASE h = 10
  <2>1. /\ Structures[10].reads = Op({"reg_err_rate", "ireg_period_iters", "ireg_pure_delay",
                                      "ireg_auxpole", "ireg_r"})
        /\ Structures[10].mask = "op" /\ Structures[10].group = "IREG"
    BY DEF Structures, Structure
  <2>2. \A m \in {1, 2, 3, 4, 5} : "IREG" \in ParMeta[m].groups
    BY DEF ParMeta, Row, RstGroups
  <2> QED
    BY <1>9, <2>1, <2>2, ParIndex, OpReads DEF Carries
<1>10. CASE h = 11
  <2>1. /\ Structures[11].reads = {<<"load_ohms", 1>>}
        /\ Structures[11].mask = "test" /\ Structures[11].group = "LOAD_TEST"
    BY DEF Structures, Structure
  <2>2. "LOAD_TEST" \in ParMeta[10].groups
    BY DEF ParMeta, Row
  <2> QED
    BY <1>10, <2>1, <2>2, ParIndex DEF Carries
<1> QED
  BY <1>1, <1>2, <1>3, <1>4, <1>5, <1>6, <1>7, <1>8, <1>9, <1>10

\* Only op_rst_pars is derived from other structures, each before it.
LEMMA SoundUses ==
    /\ \A j \in Sound \ {10} : Structures[j].uses = {}
    /\ Structures[10].uses = {Name(1), Name(5), Name(7)}
<1>1. Structures[10].uses = {Name(1), Name(5), Name(7)}
  BY DEF Structures, Structure, Name
<1>2. \A j \in 1 .. 7 : Structures[j].uses = {}
  BY DEF Structures, Structure
<1>3. Structures[11].uses = {}
  BY DEF Structures, Structure
<1> QED
  BY <1>1, <1>2, <1>3 DEF Sound

\* The name of a sound structure is that of no other.
LEMMA NamesDiffer ==
    ASSUME NEW h \in Sound, NEW j \in DOMAIN Structures, Name(h) = Name(j)
    PROVE  h = j
<1>1. /\ Name(1) = "sim_pc_pars" /\ Name(2) = "i_lim_meas" /\ Name(3) = "i_lim_ref"
      /\ Name(4) = "i_meas_scale" /\ Name(5) = "i_meas_delay" /\ Name(6) = "i_sim_delay"
      /\ Name(7) = "load_pars" /\ Name(10) = "op_rst_pars" /\ Name(11) = "load_pars_test"
  BY DEF Structures, Structure, Name
<1>2. h \in 1 .. 7 \/ h = 10 \/ h = 11
  BY DEF Sound
<1> QED
  BY <1>1, <1>2, NameIndex

\* The parameters it reads carry the groups of the structures derived from it.
LEMMA CarriesNeeds ==
    ASSUME NEW k \in DOMAIN ParMeta, NEW h \in Sound, NEW j \in Needs(h)
    PROVE  Carries(k, h, j)
<1>1. CASE j = h
  BY <1>1, CarriesOwn
<1>2. CASE j # h
  <2>1. j = 10 /\ h \in {1, 5, 7}
    <3>1. Sound \subseteq DOMAIN Structures
      BY Domains DEF Sound
    <3>2. j \in Sound /\ Name(h) \in Structures[j].uses
      BY <1>2 DEF Needs
    <3>3. j = 10 /\ Name(h) \in {Name(1), Name(5), Name(7)}
      BY <3>2, SoundUses
    <3>4. {1, 5, 7} \subseteq Sound
      BY DEF Sound
    <3> QED
      BY <3>1, <3>3, <3>4, NamesDiffer
  <2>2. Structures[10].mask = "op" /\ Structures[10].group = "IREG"
    BY DEF Structures, Structure
  <2>3. \A m \in {2, 10, 12, 13} : "IREG" \in ParMeta[m].groups
    BY DEF ParMeta, Row, RstGroups
  <2>4. /\ Structures[1].reads = Op({"pc_sim"}) /\ Structures[7].reads = Op({"load_ohms"})
        /\ Structures[5].reads = Op({"ireg_period_iters", "meas_i_delay"})
    BY DEF Structures, Structure
  <2>5. CASE h = 1
    BY <2>1, <2>2, <2>3, <2>4, <2>5, ParIndex, OpReads DEF Carries
  <2>6. CASE h = 5
    BY <2>1, <2>2, <2>3, <2>4, <2>6, ParIndex, OpReads DEF Carries
  <2>7. CASE h = 7
    BY <2>1, <2>2, <2>3, <2>4, <2>7, ParIndex, OpReads DEF Carries
  <2> QED
    BY <2>1, <2>5, <2>6, <2>7
<1> QED
  BY <1>1, <1>2

\* Of the sound structures only op_rst_pars reads the pure delay.
LEMMA AliasReader ==
    ASSUME NEW h \in Sound, Alias \in Structures[h].reads
    PROVE  h = 10
<1>1. \A j \in 1 .. 7 : Alias \notin Structures[j].reads
  BY DEF Structures, Structure, Op, Alias
<1>2. Alias \notin Structures[11].reads
  BY DEF Structures, Structure, Alias
<1> QED
  BY <1>1, <1>2 DEF Sound

\* No sound structure is derived from op_rst_pars.
LEMMA NeedsSelf == Needs(10) = {10}
<1>1. \A j \in Sound : Name(10) \notin Structures[j].uses
  <2>1. {1, 5, 7} \subseteq DOMAIN Structures /\ 10 \in Sound
    BY Domains DEF Sound
  <2> QED
    BY <2>1, SoundUses, NamesDiffer
<1> QED
  BY <1>1 DEF Needs

\* The second value of the scan's comparison
LEMMA Second ==
    ASSUME NEW k \in DOMAIN ParMeta, SecondDiffers(k)
    PROVE  IF MN \in ParMeta[k].flags
           THEN k = 2 /\ SecondElement(k) = Alias /\ Alias \notin foreign
           ELSE SecondElement(k) = <<ParMeta[k].name, 1>>
<1>1. k \in 1 .. 13
  BY Domains
<1>2. {LS, TP} \subseteq ParMeta[k].flags
  BY DEF SecondDiffers
<1>3. MN \in ParMeta[k].flags => k = 2
  <2>1. CASE k \in 1 .. 6
    BY <1>2, <2>1 DEF ParMeta, Row, LS, TP, MN
  <2>2. CASE k \in 7 .. 13
    BY <1>2, <2>2 DEF ParMeta, Row, LS, TP, MN
  <2> QED
    BY <1>1, <2>1, <2>2
<1>4. ParMeta[3].name = "ireg_pure_delay" /\ 2 + 1 = 3
  BY DEF ParMeta, Row
<1> QED
  BY <1>3, <1>4 DEF SecondDiffers, SecondElement, Alias

\* What a scan makes stale reads one of the copies it has overwritten.
LEMMA Readers ==
    ASSUME NEW w, NEW h \in Sound
    PROVE  Name(h) \in StructuresWith(LAMBDA d : d.reads \cap w # {})
               => Structures[h].reads \cap w # {}
<1> SUFFICES ASSUME Name(h) \in StructuresWith(LAMBDA d : d.reads \cap w # {})
             PROVE  Structures[h].reads \cap w # {}
  OBVIOUS
<1>1. PICK j \in DOMAIN Structures : Name(j) = Name(h) /\ Structures[j].reads \cap w # {}
  BY DEF StructuresWith, Name
<1> QED
  BY <1>1, NamesDiffer

\* What an initialisation makes stale is derived from the structure it has changed.
LEMMA Users ==
    ASSUME NEW m \in DOMAIN Structures, NEW h \in Sound,
           Name(h) \in StructuresWith(LAMBDA u : Structures[m].name \in stale
                                              /\ Structures[m].name \in u.uses)
    PROVE  Name(m) \in stale /\ Name(m) \in Structures[h].uses
<1>1. PICK j \in DOMAIN Structures : Name(j) = Name(h) /\ Name(m) \in stale
                                                     /\ Name(m) \in Structures[j].uses
  BY DEF StructuresWith, Name
<1> QED
  BY <1>1, NamesDiffer

\* The groups of the parameters are those of the structures.
LEMMA Groups == ASSUME NEW k \in DOMAIN ParMeta PROVE ParMeta[k].groups \subseteq AllGroups
<1>1. {"PC_SIM", "I_LIMITS_MEAS", "I_LIMITS_REF", "I_MEAS_FILTER", "MEAS_SIM_DELAYS", "LOAD",
       "LOAD_SAT", "LOAD_SIM", "IREG", "LOAD_TEST", "LOAD_SAT_TEST", "IREG_TEST"}
          \subseteq AllGroups
  <2>1. \A m \in DOMAIN Structures : Structures[m].group \in AllGroups
    BY DEF AllGroups
  <2>2. /\ Structures[1].group = "PC_SIM" /\ Structures[2].group = "I_LIMITS_MEAS"
        /\ Structures[3].group = "I_LIMITS_REF" /\ Structures[4].group = "I_MEAS_FILTER"
        /\ Structures[6].group = "MEAS_SIM_DELAYS" /\ Structures[7].group = "LOAD"
        /\ Structures[8].group = "LOAD_SAT" /\ Structures[9].group = "LOAD_SIM"
        /\ Structures[10].group = "IREG" /\ Structures[11].group = "LOAD_TEST"
        /\ Structures[12].group = "LOAD_SAT_TEST" /\ Structures[13].group = "IREG_TEST"
    BY DEF Structures, Structure
  <2> QED
    BY <2>1, <2>2, Domains
<1>2. k \in 1 .. 13
  BY Domains
<1>3. CASE k \in 1 .. 6
  BY <1>1, <1>3 DEF ParMeta, Row, RstGroups
<1>4. CASE k \in 7 .. 13
  BY <1>1, <1>4 DEF ParMeta, Row, RstGroups
<1> QED
  BY <1>2, <1>3, <1>4

----------------------------------------------------------------------------
(* The steps                                                               *)

\* What the scan and the application change are elements that libreg keeps.
LEMMA Kinds ==
    /\ \A k \in DOMAIN ParMeta : Kept(ParMeta[k]) \subseteq Elements
    /\ \A k \in DOMAIN ParMeta : <<ParMeta[k].name, 0>> \in Elements
    /\ Alias \in Elements
<1>1. \A k \in DOMAIN ParMeta : Kept(ParMeta[k]) \subseteq Elements
  BY DEF Elements
<1>2. \A k \in DOMAIN ParMeta : <<ParMeta[k].name, 0>> \in Kept(ParMeta[k])
  BY DEF Kept
<1>3. 3 \in DOMAIN ParMeta /\ ParMeta[3].name = "ireg_pure_delay"
  BY DEF ParMeta, Row
<1> QED
  BY <1>1, <1>2, <1>3 DEF Alias

\* The three ways an element is overwritten
LEMMA Written ==
    ASSUME NEW k \in DOMAIN ParMeta, NEW e \in Overwritten(k)
    PROVE  \/ e = <<ParMeta[k].name, 0>> /\ FirstDiffers(k)
           \/ e = <<ParMeta[k].name, 1>> /\ SecondDiffers(k)
           \/ k = 2 /\ e = Alias /\ SecondDiffers(k) /\ MN \in ParMeta[k].flags
  BY Second DEF Overwritten

\* Before the first call everything is stale and every group selected.
LEMMA InitIInv == ASSUME ParsAssumption, Init PROVE IInv
<1>1. TypeOK
  <2>1. diff \subseteq Elements
    BY DEF Init
  <2>2. 0 \in 0 .. MaxChanges /\ 1 \in 1 .. Len(Structures) + 1
    BY Domains DEF ParsAssumption
  <2> QED
    BY <2>1, <2>2 DEF Init, TypeOK
<1>2. Foreigners /\ Derived
  BY DEF Init, Foreigners, Derived
<1>3. Queued
  <2>1. ASSUME NEW h \in Sound, NEW j \in Needs(h) PROVE Selected(Structures[j])
    <3>1. j \in DOMAIN Structures
      BY Domains DEF Needs, Sound
    <3>2. Structures[j].group \in AllGroups
      BY <3>1 DEF AllGroups
    <3> QED
      BY <3>2 DEF Init, Selected
  <2> QED
    BY <2>1 DEF Queued
<1> QED
  BY <1>1, <1>2, <1>3 DEF IInv

\* An iteration of the scan selects what it makes stale.
LEMMA ScanKeeps == ASSUME ParsAssumption, AliasReaches, IInv, ScanPar PROVE IInv'
<1> DEFINE p == ParMeta[n]
           alien == IF MN \in p.flags /\ SecondDiffers(n) THEN {SecondElement(n)} ELSE {}
           written == Overwritten(n)
<1>1. /\ n \in DOMAIN ParMeta /\ n \in Nat /\ n <= 13
      /\ n' = n + 1 /\ pc = "scan" /\ pc' = "scan"
      /\ TypeOK /\ Foreigners /\ Queued
      /\ mode' = mode /\ running' = running /\ changes' = changes
  BY Domains DEF ScanPar, IInv, TypeOK
<1>2. CASE ~Scanned(p)
  <2>1. UNCHANGED <<diff, foreign, stale, opMask, testMask>>
    BY <1>2 DEF ScanPar
  <2>2. TypeOK'
    BY <1>1, <2>1, Domains DEF TypeOK
  <2>3. ~Overwrites
    <3>1. ParMeta[3].name = "ireg_pure_delay" /\ MN \notin ParMeta[3].flags
      BY DEF ParMeta, Row, LS, TP, MN
    <3> QED
      BY <1>2, <3>1 DEF Overwrites, AliasReaches, Scanned
  <2>4. Foreigners'
    BY <1>1, <2>1, <2>3 DEF Foreigners
  <2>5. Queued'
    BY <1>1, <2>1, <2>3 DEF Queued, Selected
  <2>6. Derived'
    BY <1>1 DEF Derived
  <2> QED
    BY <2>2, <2>4, <2>5, <2>6 DEF IInv
<1>3. CASE Scanned(p)
  <2>1. /\ diff' = (diff \ {<<p.name, 0>>, <<p.name, 1>>}) \cup alien
        /\ foreign' = (foreign \ (written \ alien)) \cup alien
        /\ stale' = stale \cup StructuresWith(LAMBDA d : d.reads \cap written # {})
        /\ opMask' = opMask \cup (IF FirstDiffers(n) THEN p.groups ELSE {})
        /\ testMask' = testMask \cup (IF SecondDiffers(n) THEN p.groups ELSE {})
    BY <1>3, Zenon DEF ScanPar
  <2>2. alien = {} \/ (alien = {Alias} /\ n = 2 /\ Alias \notin foreign)
    BY <1>1, Second
  <2>3. alien # {} => "ireg_period_iters" \in Supplied
    <3>1. ParMeta[2].name = "ireg_period_iters"
      BY DEF ParMeta, Row
    <3> QED
      BY <1>3, <2>2, <3>1 DEF Scanned
  <2>4. n = 3 => alien = {} /\ p.name = "ireg_pure_delay" /\ "IREG" \in p.groups
    <3>1. ParMeta[3].name = "ireg_pure_delay" /\ "IREG" \in ParMeta[3].groups
      BY DEF ParMeta, Row, RstGroups
    <3> QED
      BY <2>2, <3>1
  <2>5. Overwrites => FirstDiffers(n) /\ Alias \in written
    BY <2>4 DEF Overwrites, FirstDiffers, Overwritten, Alias
  <2>6. p.groups \subseteq AllGroups
    BY <1>1, Groups
  <2>7. StructuresWith(LAMBDA d : d.reads \cap written # {}) \subseteq AllStructures
    BY DEF StructuresWith, AllStructures
  <2> HIDE DEF p, alien, written
  <2>8. TypeOK'
    <3>1. diff' \subseteq Elements /\ foreign' \subseteq Elements
      BY <1>1, <2>1, <2>2, Kinds DEF TypeOK
    <3>2. stale' \subseteq AllStructures
      BY <1>1, <2>1, <2>7 DEF TypeOK
    <3>3. opMask' \subseteq AllGroups /\ testMask' \subseteq AllGroups
      BY <1>1, <2>1, <2>6 DEF TypeOK
    <3>4. n' \in 1 .. Len(Structures) + 1
      BY <1>1, Domains DEF TypeOK
    <3> QED
      BY <1>1, <3>1, <3>2, <3>3, <3>4 DEF TypeOK
  <2>9. Foreigners'
    <3>1. foreign' \subseteq {Alias}
      BY <1>1, <2>1, <2>2 DEF Foreigners
    <3>2. CASE alien = {}
      <4>1. foreign' = {}
        BY <1>1, <2>1, <2>5, <3>2 DEF Foreigners
      <4> QED
        BY <4>1 DEF Foreigners
    <3>3. CASE alien # {}
      <4>1. Alias \in diff' /\ n' = 3
        BY <1>1, <2>1, <2>2, <3>3
      <4> QED
        BY <1>1, <2>3, <3>1, <3>3, <4>1 DEF Foreigners, Overwrites
    <3> QED
      BY <3>2, <3>3
  <2>10. ASSUME NEW j, Selected(Structures[j]) PROVE Selected(Structures[j])'
    BY <2>1, <2>10 DEF Selected
  <2>11. ASSUME NEW h \in Sound, Name(h) \in stale'
         PROVE  (\A j \in Needs(h) : Selected(Structures[j])') \/ (h = 10 /\ Overwrites')
    <3>1. CASE Name(h) \in stale /\ ~(h = 10 /\ Overwrites)
      BY <1>1, <2>10, <3>1 DEF Queued
    <3>2. CASE h = 10 /\ Overwrites
      <4>1. "IREG" \in opMask'
        BY <2>1, <2>4, <2>5, <3>2 DEF Overwrites
      <4>2. Structures[10].group = "IREG" /\ Structures[10].mask = "op"
        BY DEF Structures, Structure
      <4>3. Selected(Structures[10])'
        BY <4>1, <4>2 DEF Selected
      <4> QED
        BY <3>2, <4>3, NeedsSelf
    <3>3. CASE Name(h) \notin stale
      <4>1. Structures[h].reads \cap written # {}
        BY <2>1, <2>11, <3>3, Readers
      <4>2. PICK e \in written : e \in Structures[h].reads
        BY <4>1
      <4>3. CASE n = 2 /\ e = Alias /\ SecondDiffers(n) /\ MN \in p.flags
        <5>1. h = 10
          BY <4>2, <4>3, AliasReader
        <5>2. alien # {}
          BY <4>3 DEF alien
        <5>3. Overwrites'
          BY <1>1, <2>1, <2>2, <2>3, <4>3, <5>2 DEF Overwrites
        <5> QED
          BY <5>1, <5>3
      <4>4. CASE e = <<p.name, 0>> /\ FirstDiffers(n)
        <5>1. p.groups \subseteq opMask'
          BY <2>1, <4>4
        <5>2. ASSUME NEW j \in Needs(h)
              PROVE  Structures[j].mask = "op" /\ Structures[j].group \in p.groups
          BY <1>1, <4>2, <4>4, CarriesNeeds DEF Carries, p
        <5> QED
          BY <5>1, <5>2 DEF Selected
      <4>5. CASE e = <<p.name, 1>> /\ SecondDiffers(n)
        <5>1. p.groups \subseteq testMask'
          BY <2>1, <4>5
        <5>2. ASSUME NEW j \in Needs(h)
              PROVE  Structures[j].mask = "test" /\ Structures[j].group \in p.groups
          BY <1>1, <4>2, <4>5, CarriesNeeds DEF Carries, p
        <5> QED
          BY <5>1, <5>2 DEF Selected
      <4> QED
        BY <1>1, <4>2, <4>3, <4>4, <4>5, Written DEF written, p
    <3> QED
      BY <3>1, <3>2, <3>3
  <2>12. Queued'
    BY <2>11 DEF Queued
  <2>13. Derived'
    BY <1>1 DEF Derived
  <2> QED
    BY <2>8, <2>9, <2>12, <2>13 DEF IInv
<1> QED
  BY <1>2, <1>3

\* An initialisation refreshes its structure, whose sources are fresh by then.
LEMMA InitKeeps == ASSUME ParsAssumption, IInv, InitStructure PROVE IInv'
<1> DEFINE d == Structures[n]
           kept == IF d.uses \cap stale = {} THEN stale \ {d.name} ELSE stale
           users == StructuresWith(LAMBDA u : d.name \in stale /\ d.name \in u.uses)
<1>1. /\ n \in DOMAIN Structures /\ n \in 1 .. 13 /\ n' = n + 1 /\ pc = "init" /\ pc' = "init"
      /\ TypeOK /\ Foreigners /\ Queued /\ Derived
      /\ UNCHANGED <<diff, foreign, mode, running, opMask, testMask, changes>>
  BY Domains DEF InitStructure, IInv, TypeOK
<1>2. stale' = IF Selected(d) THEN kept \cup users ELSE stale
  BY Zenon DEF InitStructure
<1>3. users \subseteq AllStructures
  BY DEF StructuresWith, AllStructures
<1>4. d.name = Name(n)
  BY DEF Name
<1>5. ASSUME NEW h \in Sound, Name(h) \in users
      PROVE  h = 10 /\ n \in {1, 5, 7} /\ Name(n) \in stale /\ h \in Needs(n)
  <2>1. Name(n) \in stale /\ Name(n) \in Structures[h].uses
    BY <1>1, <1>5, Users
  <2>2. h = 10 /\ Name(n) \in {Name(1), Name(5), Name(7)}
    BY <2>1, SoundUses
  <2>3. {1, 5, 7} \subseteq Sound
    BY DEF Sound
  <2>4. n \in {1, 5, 7}
    BY <1>1, <2>2, <2>3, NamesDiffer
  <2> QED
    BY <2>1, <2>2, <2>4 DEF Needs
<1> HIDE DEF d, kept, users
<1>6. kept \subseteq stale
  BY DEF kept
<1>7. TypeOK'
  <2>1. stale' \subseteq AllStructures
    BY <1>1, <1>2, <1>3, <1>6 DEF TypeOK
  <2>2. n' \in 1 .. Len(Structures) + 1
    BY <1>1, Domains
  <2> QED
    BY <1>1, <2>1, <2>2 DEF TypeOK
<1>8. Foreigners' /\ foreign = {} /\ ~Overwrites
  BY <1>1 DEF Foreigners, Overwrites
<1>9. \A h \in Sound : Name(h) \in stale => \A j \in Needs(h) : Selected(Structures[j])
  BY <1>1, <1>8 DEF Queued
<1>10. Queued'
  <2>1. ASSUME NEW h \in Sound, Name(h) \in stale', NEW j \in Needs(h)
        PROVE  Selected(Structures[j])
    <3>1. CASE Name(h) \in stale
      BY <1>9, <3>1
    <3>2. CASE Name(h) \notin stale
      <4>1. Name(h) \in users
        BY <1>2, <1>6, <2>1, <3>2
      <4>2. h = 10 /\ n \in Sound /\ Name(n) \in stale /\ h \in Needs(n)
        BY <1>5, <4>1 DEF Sound
      <4>3. j = 10
        BY <4>2, NeedsSelf
      <4> QED
        BY <1>9, <4>2, <4>3
    <3> QED
      BY <3>1, <3>2
  <2>2. \A j : Selected(Structures[j])' <=> Selected(Structures[j])
    BY <1>1 DEF Selected
  <2> QED
    BY <2>1, <2>2 DEF Queued
<1>11. Derived'
  <2> SUFFICES ASSUME NEW h \in Sound, h < n + 1, Name(h) \in stale'
               PROVE  FALSE
    BY <1>1 DEF Derived
  <2>1. Name(h) \notin users
    <3>1. SUFFICES ASSUME Name(h) \in users PROVE FALSE
      OBVIOUS
    <3>2. h = 10 /\ n \in {1, 5, 7}
      BY <1>5, <3>1
    <3> QED
      BY <3>2
  <2>2. Name(h) \in stale
    BY <1>2, <1>6, <2>1
  <2>3. h = n
    <3>1. h \in Nat /\ n \in Nat
      BY <1>1 DEF Sound
    <3>2. ~(h < n)
      BY <1>1, <2>2 DEF Derived
    <3> QED
      BY <3>1, <3>2
  <2>4. Selected(d)
    <3>1. n \in Needs(n)
      BY DEF Needs
    <3> QED
      BY <1>9, <2>2, <2>3, <3>1 DEF d
  <2>5. d.uses \cap stale = {}
    <3>1. CASE n = 10
      <4>1. {1, 5, 7} \subseteq Sound
        BY DEF Sound
      <4>2. Name(1) \notin stale /\ Name(5) \notin stale /\ Name(7) \notin stale
        BY <1>1, <3>1, <4>1 DEF Derived
      <4> QED
        BY <3>1, <4>2, SoundUses DEF d
    <3>2. CASE n # 10
      BY <2>3, <3>2, SoundUses DEF d
    <3> QED
      BY <3>1, <3>2
  <2>6. Name(h) \notin kept
    BY <1>4, <2>3, <2>5 DEF kept
  <2> QED
    BY <1>2, <2>1, <2>4, <2>6
<1> QED
  BY <1>7, <1>8, <1>10, <1>11 DEF IInv

\* Each step preserves the invariant.
LEMMA NextKeeps ==
    ASSUME ParsAssumption, AliasReaches, IInv, [Next]_vars
    PROVE  IInv'
<1> USE DEF IInv
<1>1. ASSUME NEW k \in DOMAIN ParMeta, NEW S \in SUBSET Kept(ParMeta[k]) \ {{}}, ChangePar(S)
      PROVE  IInv'
  <2>1. TypeOK'
    BY <1>1, Kinds DEF ChangePar, TypeOK, ParsAssumption
  <2>2. Foreigners'
    BY <1>1 DEF ChangePar, Foreigners, Overwrites
  <2>3. Queued' /\ Derived'
    BY <1>1 DEF ChangePar, Queued, Derived
  <2> QED
    BY <2>1, <2>2, <2>3
<1>2. CASE RegMgrPars
  <2>1. TypeOK'
    BY <1>2, Domains DEF RegMgrPars, TypeOK
  <2>2. Foreigners'
    BY <1>2 DEF RegMgrPars, Foreigners, Overwrites
  <2>3. Queued' /\ Derived'
    BY <1>2 DEF RegMgrPars, Queued, Derived
  <2> QED
    BY <2>1, <2>2, <2>3
<1>3. CASE ScanPar
  BY <1>3, ScanKeeps
<1>4. CASE ScanEnd
  <2>0. ~Overwrites /\ n \in Nat
    BY <1>4, Domains DEF ScanEnd, Overwrites, TypeOK
  <2>1. TypeOK'
    BY <1>4, Domains DEF ScanEnd, TypeOK
  <2>2. Foreigners'
    BY <1>4, <2>0 DEF ScanEnd, Foreigners
  <2>3. Queued'
    BY <1>4, <2>0 DEF ScanEnd, Queued, Selected
  <2>4. Derived'
    BY <1>4 DEF ScanEnd, Derived, Sound
  <2> QED
    BY <2>1, <2>2, <2>3, <2>4
<1>5. CASE InitStructure
  BY <1>5, InitKeeps
<1>6. CASE RegMgrParsReturn
  <2>1. TypeOK'
    BY <1>6, Domains DEF RegMgrParsReturn, TypeOK
  <2>2. Foreigners'
    BY <1>6 DEF RegMgrParsReturn, Foreigners, Overwrites
  <2>3. Derived'
    <3>1. \A h \in Sound : h < n
      BY <1>6, Domains DEF RegMgrParsReturn, TypeOK, Sound
    <3> QED
      BY <1>6, <3>1 DEF RegMgrParsReturn, Derived
  <2>4. Queued'
    BY <1>6 DEF RegMgrParsReturn, Queued
  <2> QED
    BY <2>1, <2>2, <2>3, <2>4
<1>7. CASE ModeSetRT
  BY <1>7 DEF ModeSetRT, TypeOK, Foreigners, Overwrites, Queued, Derived, Selected
<1>8. CASE UNCHANGED vars
  BY <1>8 DEF vars, TypeOK, Foreigners, Overwrites, Queued, Derived, Selected
<1> QED
  BY <1>1, <1>2, <1>3, <1>4, <1>5, <1>6, <1>7, <1>8 DEF Next

\* Any set of supplied parameters with AliasReaches: the invariant holds.
THEOREM IInvHolds == ASSUME AliasReaches PROVE Spec => []IInv
<1>1. Init => IInv
  BY InitIInv, ParsAssumption
<1>2. IInv /\ [Next]_vars => IInv'
  BY NextKeeps, ParsAssumption
<1> QED
  BY <1>1, <1>2, PTL DEF Spec

\* When regMgrParsWithMask comes to its initialisation functions, no copy of a
\* parameter in par_values is that of another parameter.
THEOREM CopyIsSuppliedHolds == ASSUME AliasReaches PROVE Spec => []CopyIsSupplied
<1>1. IInv => CopyIsSupplied
  BY DEF IInv, Foreigners, Overwrites, CopyIsSupplied
<1> QED
  BY <1>1, IInvHolds, PTL

\* When regMgrParsWithMask returns, every sound structure is derived from the
\* parameters' present values, however often the application changed them and
\* whenever the real-time thread changed the mode.
THEOREM DerivedFreshHolds ==
    ASSUME AliasReaches, Checked \subseteq {Name(h) : h \in Sound}
    PROVE  Spec => []DerivedFresh
<1>1. IInv => DerivedFresh
  BY DEF IInv, Derived, DerivedFresh
<1> QED
  BY <1>1, IInvHolds, PTL
====
