CONSTANTS
    Supplied = {"reg_err_rate", "ireg_period_iters", "ireg_pure_delay", "ireg_auxpole", "ireg_r", "ireg_test_r", "limits_i_pos", "limits_i_min", "limits_i_low", "load_ohms", "load_henrys_sat", "meas_i_delay", "pc_sim"}
    Checked = {"load_sat"}
    MaxChanges = 2
SPECIFICATION Spec
INVARIANT DerivedFresh
