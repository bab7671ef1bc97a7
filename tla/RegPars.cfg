CONSTANTS
    Supplied = {"reg_err_rate", "ireg_period_iters", "ireg_pure_delay", "ireg_auxpole", "ireg_r", "ireg_test_r", "limits_i_pos", "limits_i_min", "limits_i_low", "load_ohms", "load_henrys_sat", "meas_i_delay", "pc_sim"}
    Checked = {"sim_pc_pars", "i_lim_meas", "i_lim_ref", "i_meas_scale", "i_meas_delay", "i_sim_delay", "load_pars", "op_rst_pars", "load_pars_test"}
    MaxChanges = 2
SPECIFICATION Spec
INVARIANTS DerivedFresh CopyIsSupplied
