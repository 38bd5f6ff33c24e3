----------------------------- MODULE ChipConfig -----------------------------
(***************************************************************************)
(* What the program writes into the chips, and in which order: the setters  *)
(* of tmc4361a_conf and tmc5160_conf, the initialisation of drives.c and    *)
(* the programs of stepper_routines.c.                                      *)
(*                                                                         *)
(* A register word is the record of the fields that are given a value: the  *)
(* setters spell out every field of a register, most of them as the zero    *)
(* the chip starts with.  A piece of program is the sequence of its         *)
(* operations on the hardware; a write reaches the chips of all drives.     *)
(***************************************************************************)
EXTENDS Integers, Sequences

\* What gbsm_config.c says of a drive: a record with the fields
\* motor_direction, phystop_l, phystop_r, vstop_l, vstop_r (bits), encoder and
\* encoder_type.
CONSTANT gbsm_config

Zero == [f \in {} |-> 0]

\* The value of a field, zero when the word does not have it.
Field(word, f) == IF f \in DOMAIN word THEN word[f] ELSE 0
-----------------------------------------------------------------------------
\* The registers that decide what the motor does.
Deciding == {"START_CONF", "SPIOUT_CONF", "RAMPMODE", "CLK_FREQ", "XACTUAL",
             "VMAX", "X_TARGET", "COVER_HIGH_WR", "COVER_LOW_WR"}

\* Operations on the hardware.  Of the writes those that decide nothing are left
\* out of the threads' work.
Write(reg, word) == IF reg \in Deciding THEN <<[do |-> "write", reg |-> reg, word |-> word]>>
                    ELSE <<>>
Read == <<[do |-> "read"]>>
Pin(pin, level) == <<[do |-> "pin", pin |-> pin, level |-> level]>>
Trigger == <<[do |-> "trigger"]>>

\* A register of the TMC5160 is reached through the TMC4361A in front of it: a
\* cover datagram, in two registers, the lower of which sends it.
Cover(reg, word) == Write("COVER_HIGH_WR", <<"write", reg>>) \o Write("COVER_LOW_WR", word)
CoverRead(reg) == Write("COVER_HIGH_WR", <<"read", reg>>) \o Write("COVER_LOW_WR", Zero) \o Read
-----------------------------------------------------------------------------
\* The registers of the motion controller, TMC4361A.

\* With an absolute encoder its kind of serial interface.
SerialEncoder == CASE gbsm_config.encoder_type = "ABS_SSI" -> 1
                   [] gbsm_config.encoder_type = "ABS_SPI" -> 3
                   [] OTHER -> 0

tmc4361a_general_conf_set ==
    Write("GENERAL_CONF", [SERIAL_ENC_IN_MODE |-> SerialEncoder,
                           DIFF_ENC_IN_DISABLE |-> gbsm_config.encoder,
                           STDBY_CLK_PIN_ASSIGNMENT |-> 3,
                           REVERSE_MOTOR_DIR |-> gbsm_config.motor_direction])

\* Limit switches and virtual limits as configured; nothing stops on a stall.
tmc4361a_reference_conf_set ==
    Write("REFERENCE_CONF", [STOP_LEFT_EN |-> gbsm_config.phystop_l,
                             STOP_RIGHT_EN |-> gbsm_config.phystop_r,
                             VIRTUAL_LEFT_LIMIT_EN |-> gbsm_config.vstop_l,
                             VIRTUAL_RIGHT_LIMIT_EN |-> gbsm_config.vstop_r])

\* X_TARGET and VMAX wait for the START pin, which is an input.
tmc4361a_start_conf_set ==
    Write("START_CONF", [START_EN0 |-> 1, START_EN1 |-> 1, TRIGGER_EVENTS0 |-> 1,
                         IMMEDIATE_START_IN |-> 1])

tmc4361a_input_filt_conf_set == Write("INPUT_FILT_CONF", Zero)

\* Cover datagrams are sent to a TMC5160, format 12.
tmc4361a_spiout_conf_set ==
    Write("SPIOUT_CONF", [SPI_OUTPUT_FORMAT |-> 12, COVER_DONE_ONLY_FOR_COVER |-> 1,
                          SPI_OUT_LOW_TIME |-> 4, SPI_OUT_HIGH_TIME |-> 4,
                          SPI_OUT_IDLE_TIME |-> 8])

tmc4361a_current_conf_set == Write("CURRENT_CONF", Zero)

tmc4361a_scale_values_conf_set ==
    Write("SCALE_VALUES", [BOOST_SCALE_VAL |-> 255, DRV1_SCALE_VAL |-> 255,
                           CL_START_UP |-> 255, HOLD_SCALE_VAL |-> 255])

tmc4361a_enc_in_conf_set == Write("ENC_IN_CONF", [LATCH_ENC_ON_N |-> 1])
tmc4361a_enc_in_data_conf_set == Write("ENC_IN_DATA", Zero)
tmc4361a_enc_out_data_conf_set == Write("ENC_OUT_DATA", Zero)

\* 256 microsteps, 200 full steps a turn, and the driver flags that make a
\* motor event, the overtemperature prewarning not among them.
tmc4361a_step_conf_set ==
    Write("STEP_CONF", [FS_PER_REV |-> 200, SG |-> 1, OT |-> 1, S2GA |-> 1,
                        S2GB |-> 1, OLA |-> 1, OLB |-> 1, STST |-> 1])

\* The right virtual limit is not selected: its line names the left one again.
tmc4361a_spi_status_selection_conf_set ==
    Write("SPI_STATUS_SELECTION", [VEL_STATE_00 |-> 1, FROZEN |-> 1, STOPL_EVENT |-> 1,
                                   STOPR_EVENT |-> 1, VSTOPL_ACTIVE |-> 1,
                                   STOP_ON_STALL |-> 1, RST_EV |-> 1])

tmc4361a_events_clear_conf_set == Write("EVENT_CLEAR_CONF", Zero)
tmc4361a_intr_conf_set == Write("INTR_CONF", Zero)
tmc4361a_stp_length_add_conf_set ==
    Write("STP_LENGTH_ADD", [STP_LENGTH_ADD |-> 4, DIR_SETUP_TIME |-> 6])

\* Mutant of tmc4361a_ramp_mode_conf_set: velocity mode.
tmc4361a_ramp_mode_conf_setVelocity == Write("RAMPMODE", Zero)

\* Position mode, no ramp.
tmc4361a_ramp_mode_conf_set == Write("RAMPMODE", [OPERATION_MODE |-> 1])

\* A freeze is a hard stop.
tmc4361a_freeze_conf_set == Write("DFREEZE", Zero)

ClockFrequency == 20000000

\* The virtual limits are written to one drive after the other, with the values
\* of the configuration, which are zero.
drv_init_tmc4361a ==
    tmc4361a_general_conf_set \o tmc4361a_reference_conf_set
    \o tmc4361a_start_conf_set \o tmc4361a_input_filt_conf_set
    \o tmc4361a_spiout_conf_set \o tmc4361a_current_conf_set
    \o tmc4361a_scale_values_conf_set \o tmc4361a_enc_in_conf_set
    \o tmc4361a_enc_in_data_conf_set \o tmc4361a_enc_out_data_conf_set
    \o tmc4361a_step_conf_set \o tmc4361a_spi_status_selection_conf_set
    \o tmc4361a_events_clear_conf_set \o tmc4361a_intr_conf_set
    \o tmc4361a_stp_length_add_conf_set \o Write("START_DELAY", 0)
    \o tmc4361a_ramp_mode_conf_set \o Write("CLK_FREQ", ClockFrequency)
    \o Write("VIRT_STOP_LEFT", 0) \o Write("VIRT_STOP_RIGHT", 0)
    \o tmc4361a_freeze_conf_set \o Write("VSTALL_LIMIT", 1000)
-----------------------------------------------------------------------------
\* The registers of the power stage, TMC5160.
tmc5160_general_conf_set == Cover("GCONF", [EN_PWM_MODE |-> 1, MULTISTEP_FILT |-> 1])

tmc5160_ihold_irun_conf_set ==
    Cover("IHOLD_IRUN", [IHOLD |-> 5, IRUN |-> 10, IHOLDDELAY |-> 8])

\* TOFF is the off time and enables the driver.
tmc5160_chop_conf_set ==
    Cover("CHOPCONF", [TOFF |-> 3, HSTRT |-> 4, HEND |-> 1, TBL |-> 2])

tmc5160_cool_conf_set ==
    Cover("COOLCONF", [SEMIN |-> 5, SEMAX |-> 2, SEDN |-> 1, SGT |-> 12])

\* Mutant of drv_init_tmc5160_covers: the chopper is left off.
drv_init_tmc5160_coversOff ==
    tmc5160_general_conf_set \o tmc5160_ihold_irun_conf_set \o tmc5160_cool_conf_set
    \o Cover("TPOWERDOWN", [VALUE |-> 10]) \o Cover("TPWMTHRS", [VALUE |-> 5000])
    \o Cover("TCOOLTHRS", [VALUE |-> 65535])

drv_init_tmc5160_covers ==
    tmc5160_general_conf_set \o tmc5160_ihold_irun_conf_set
    \o tmc5160_chop_conf_set \o tmc5160_cool_conf_set
    \o Cover("TPOWERDOWN", [VALUE |-> 10]) \o Cover("TPWMTHRS", [VALUE |-> 5000])
    \o Cover("TCOOLTHRS", [VALUE |-> 65535])
-----------------------------------------------------------------------------
\* VCC_IO resets the TMC5160 where the board connects it, NRST the TMC4361A.
drv_reset_tmc5160 == Pin("VCC_IO", 0) \o Pin("VCC_IO", 1)
drv_reset_tmc4361a == Pin("NRST", 0) \o Pin("NRST", 1)

\* Mutant of resetMotorDrivers: the power stages are reset and nothing else.
resetMotorDriversPower == Read \o drv_reset_tmc5160

\* The velocities read first are only logged.
resetMotorDrivers == Read \o drv_reset_tmc5160 \o drv_reset_tmc4361a

\* Mutant of drv_reset_and_enable: the TMC4361A is not configured again.
drv_reset_and_enableBare == resetMotorDrivers \o drv_init_tmc5160_covers

\* "must come after the tmc4631 config": covers need SPIOUT_CONF.
drv_reset_and_enable == resetMotorDrivers \o drv_init_tmc4361a \o drv_init_tmc5160_covers

\* Mutant of gpio_configure_TMC5160_and_TMC4361_pins: 9.6 MHz.
gpio_configure_pinsSlow == Pin("VCC_IO", 1) \o Pin("CLK", 9600000) \o Pin("NRST", 1)

gpio_configure_TMC5160_and_TMC4361_pins ==
    Pin("VCC_IO", 1) \o Pin("CLK", ClockFrequency) \o Pin("NRST", 1)

\* The check at start-up: versions, a write to XACTUAL that is read back, and
\* the currents.
drv_read_ic_versions == Read \o CoverRead("INP_OUT")

\* Mutant of test_tmc4361a: the position is not put back.
test_tmc4361aLeft(rand_xactual) == Write("XACTUAL", rand_xactual) \o Read

test_tmc4361a(rand_xactual) == Write("XACTUAL", rand_xactual) \o Read \o Write("XACTUAL", 0)
read_motor_currents == CoverRead("DRVSTATUS")
drv_check_and_enable(rand_xactual) ==
    drv_read_ic_versions \o test_tmc4361a(rand_xactual) \o read_motor_currents
-----------------------------------------------------------------------------
\* The programs that can be run instead of the controller.

\* A motor between 0 and `far' under an S-shaped ramp, the target reached
\* being the start of the way back.
Oscillate(vmax, far) ==
    Write("GENERAL_CONF", [DIRECT_ACC_VAL_EN |-> 1, DIRECT_BOW_VAL_EN |-> 1,
                           STDBY_CLK_PIN_ASSIGNMENT |-> 3])
    \o Write("RAMPMODE", [RAMP_PROFILE |-> 2, OPERATION_MODE |-> 1])
    \o Write("AMAX", 256) \o Write("DMAX", 256)
    \o Write("BOW1", 32) \o Write("BOW2", 32) \o Write("BOW3", 32) \o Write("BOW4", 32)
    \o Write("VMAX", vmax)
    \o Write("START_CONF", [TRIGGER_EVENTS1 |-> 1, PIPELINE_EN0 |-> 1,
                            XPIPE_REWRITE_REG2 |-> 1])
    \o Write("X_PIPE0", 0) \o Write("X_PIPE1", far) \o Write("X_TARGET", far)

\* The loops that follow are modelled for one round.
test_motors_oscillating_move(vmax, far) ==
    Oscillate(vmax, far) \o CoverRead("DRVSTATUS") \o CoverRead("LOST_STEPS")

\* The chopper's hysteresis end, in the word read back, goes up to 12 by ones.
calibrate_spread_cycle(vmax, far, chop_conf) ==
    LET hend == Field(chop_conf, "HEND")
    IN Oscillate(vmax, far) \o CoverRead("CHOPCONF")
       \o Cover("CHOPCONF", [f \in DOMAIN chop_conf \cup {"HEND"} |->
                               IF f # "HEND" THEN chop_conf[f]
                               ELSE IF hend = 12 THEN hend ELSE hend + 1])

\* One register of one of the chips is read and shown.
interactive_reg_print(ic, reg) == IF ic = "TMC5160" THEN CoverRead(reg) ELSE Read
=============================================================================
