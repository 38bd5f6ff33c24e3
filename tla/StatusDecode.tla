---------------------------- MODULE StatusDecode ----------------------------
(***************************************************************************)
(* tmc4361a_status.c: the fields of status_flag_t and status_event_t that   *)
(* the bits of the registers STATUS and EVENTS set, and what of the flags   *)
(* the controller reads.  A register is the set of its bits that are one, a *)
(* struct the set of its fields that are.                                   *)
(***************************************************************************)
EXTENDS Naturals

\* The fields of one bit.  pos_dev tests the mask of CL_FIT in EVENTS, so that
\* it is another name of short_to_ground_b.
StatusBit == [
    target_reached |-> 0, pos_comp_reached |-> 1, vactual_eq_vmax |-> 2,
    l_stop |-> 7, r_stop |-> 8, l_vstop |-> 9, r_vstop |-> 10,
    stall |-> 11, home_error |-> 12, fs_active |-> 13, enc_fail |-> 14,
    n_active |-> 15, enc_latch |-> 16, abs_enc_fail |-> 17, pos_dev |-> 28,
    stallguard_active |-> 24, overtemperature_shutdown |-> 25,
    overtemperature_warning |-> 26, short_to_ground_a |-> 27,
    short_to_ground_b |-> 28, open_load_a |-> 29, open_load_b |-> 30,
    standstill |-> 31]

\* VEL_STATE and RAMP_STATE are numbers of two bits; three sets no field.
TwoBits(bits, low) == (IF low \in bits THEN 1 ELSE 0)
                      + (IF low + 1 \in bits THEN 2 ELSE 0)
StateFields == [
    vactual_eq_zero      |-> [low |-> 3, value |-> 0],
    vactual_greater_zero |-> [low |-> 3, value |-> 1],
    vactual_less_zero    |-> [low |-> 3, value |-> 2],
    aactual_eq_zero      |-> [low |-> 5, value |-> 0],
    aactual_greater_zero |-> [low |-> 5, value |-> 1],
    aactual_less_zero    |-> [low |-> 5, value |-> 2]]

flag_register_to_struct(bits) ==
    {f \in DOMAIN StatusBit : StatusBit[f] \in bits}
    \cup {f \in DOMAIN StateFields :
            TwoBits(bits, StateFields[f].low) = StateFields[f].value}

\* The events: two fields are set by two bits each, and stop_on_stall tests the
\* mask of that name in REFERENCE_CONF, which is the bit of enc_velo_eq_zero.
EventBits == [
    target_reached |-> {0}, pos_comp_reached |-> {1}, vactual_eq_vmax |-> {2},
    vactual_eq_zero |-> {3}, vactual_less_zero |-> {4, 5},
    aactual_eq_zero |-> {6}, aactual_greater_zero |-> {7},
    aactual_less_zero |-> {8}, max_phase_trap |-> {9}, frozen |-> {10},
    l_stop |-> {11}, r_stop |-> {12}, l_vstop |-> {13}, r_vstop |-> {14},
    home_error |-> {15}, enc_latch |-> {16, 20}, fs_active |-> {17},
    enc_fail |-> {18}, n_active |-> {19}, abs_enc_fail |-> {21},
    ser_data_done |-> {23}, set_enc_flag_set |-> {24}, cover_done |-> {25},
    enc_velo_eq_zero |-> {26}, cl_max |-> {27}, cl_fit |-> {28},
    stop_on_stall |-> {26}, motor_flag_set |-> {30}, reset_triggered |-> {31}]

event_register_to_struct(bits) ==
    {f \in DOMAIN EventBits : EventBits[f] \cap bits # {}}

\* The flags of Drives: what check_for_error and the two checks of
\* step_control.c read of the struct.  A motor shorted to ground or with an open
\* load is not among it, nor is any event: EVENTS is never read off the chips.
FlagFields == [
    stall   |-> {"stall"},
    thermal |-> {"overtemperature_shutdown", "overtemperature_warning",
                 "stallguard_active"},
    vstop   |-> {"l_vstop", "r_vstop"}]

FlagsOf(bits) ==
    {flag \in DOMAIN FlagFields :
        FlagFields[flag] \cap flag_register_to_struct(bits) # {}}
=============================================================================
