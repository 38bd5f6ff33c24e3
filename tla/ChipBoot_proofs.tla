--------------------------- MODULE ChipBoot_proofs ---------------------------
(***************************************************************************)
(* Proofs about ChipBoot, for any configuration of the drives and any       *)
(* bound on positions.                                                      *)
(***************************************************************************)
EXTENDS ChipBoot, SequenceTheorems, TLAPS
-----------------------------------------------------------------------------
\* What the threads ask of the hardware.
CoverRegisters == {"GCONF", "IHOLD_IRUN", "CHOPCONF", "COOLCONF", "TPOWERDOWN", "TPWMTHRS",
                   "TCOOLTHRS", "INP_OUT", "DRVSTATUS", "LOST_STEPS"}

\* The words the programs write.
StartWord == [START_EN0 |-> 1, START_EN1 |-> 1, TRIGGER_EVENTS0 |-> 1, IMMEDIATE_START_IN |-> 1]
PipeWord == [TRIGGER_EVENTS1 |-> 1, PIPELINE_EN0 |-> 1, XPIPE_REWRITE_REG2 |-> 1]
SpiOutWord == [SPI_OUTPUT_FORMAT |-> 12, COVER_DONE_ONLY_FOR_COVER |-> 1,
               SPI_OUT_LOW_TIME |-> 4, SPI_OUT_HIGH_TIME |-> 4, SPI_OUT_IDLE_TIME |-> 8]
PositionWord == [OPERATION_MODE |-> 1]
RampWord == [RAMP_PROFILE |-> 2, OPERATION_MODE |-> 1]
GlobalWord == [EN_PWM_MODE |-> 1, MULTISTEP_FILT |-> 1]
CurrentWord == [IHOLD |-> 5, IRUN |-> 10, IHOLDDELAY |-> 8]
ChopWord == [TOFF |-> 3, HSTRT |-> 4, HEND |-> 1, TBL |-> 2]
CoolWord == [SEMIN |-> 5, SEMAX |-> 2, SEDN |-> 1, SGT |-> 12]
PowerDownWord == [VALUE |-> 10]
PwmWord == [VALUE |-> 5000]
SwitchWord == [VALUE |-> 65535]
HendWord == [f \in DOMAIN Zero \cup {"HEND"} |->
               IF f # "HEND" THEN Zero[f]
               ELSE IF Field(Zero, "HEND") = 12 THEN Field(Zero, "HEND")
               ELSE Field(Zero, "HEND") + 1]

ConfigWords == ({"read", "write"} \X CoverRegisters)
               \cup {StartWord, PipeWord, SpiOutWord, PositionWord, RampWord, ClockFrequency,
                     Zero, GlobalWord, CurrentWord, ChopWord, CoolWord, PowerDownWord,
                     PwmWord, SwitchWord, HendWord}

Do(name) == [do |-> name]
WriteOp(reg, word) == [do |-> "write", reg |-> reg, word |-> word]
PinOp(pin, level) == [do |-> "pin", pin |-> pin, level |-> level]

WriteOps == [do : {"write"}, reg : {"VMAX"}, word : {0, 1}]
            \cup [do : {"write"}, reg : {"X_TARGET", "XACTUAL"}, word : Positions]
            \cup [do : {"write"}, reg : Deciding \ {"VMAX", "X_TARGET", "XACTUAL"},
                  word : ConfigWords]
PinOps == [do : {"pin"}, pin : {"VCC_IO", "NRST"}, level : {0, 1}]
          \cup [do : {"pin"}, pin : {"CLK"}, level : {ClockFrequency}]
Hardware == WriteOps \cup PinOps \cup [do : {"read", "trigger", "exit"}]

\* The work on the hardware, and that of a thread, which may also set itself up.
Alphabet == Hardware \cup [do : {"catch_signals", "open_spi", "start_thread"}]
Work == Seq(Hardware)
ThreadWork == Seq(Alphabet)

LEMMA EmptyWork == <<>> \in Work /\ <<>> \in ThreadWork
BY EmptySeq DEF Work, ThreadWork

LEMMA WorkIsThreadWork == Work \subseteq ThreadWork
<1>1. Hardware \subseteq Alphabet BY DEF Alphabet
<1> HIDE DEF Hardware, Alphabet
<1> QED BY <1>1, SeqMonotonic DEF Work, ThreadWork

LEMMA ConcatWork == \A s, t \in Work : s \o t \in Work
BY ConcatProperties DEF Work

LEMMA ConcatThreadWork == \A s, t \in ThreadWork : s \o t \in ThreadWork
BY ConcatProperties DEF ThreadWork

LEMMA TailWork ==
  ASSUME NEW s \in ThreadWork, s # <<>>
  PROVE  Head(s) \in Alphabet /\ Tail(s) \in ThreadWork
BY HeadTailProperties DEF ThreadWork

LEMMA ConfigWordsHold ==
  /\ StartWord \in ConfigWords
  /\ PipeWord \in ConfigWords
  /\ SpiOutWord \in ConfigWords
  /\ PositionWord \in ConfigWords
  /\ RampWord \in ConfigWords
  /\ ClockFrequency \in ConfigWords
  /\ Zero \in ConfigWords
  /\ GlobalWord \in ConfigWords
  /\ CurrentWord \in ConfigWords
  /\ ChopWord \in ConfigWords
  /\ CoolWord \in ConfigWords
  /\ PowerDownWord \in ConfigWords
  /\ PwmWord \in ConfigWords
  /\ SwitchWord \in ConfigWords
  /\ HendWord \in ConfigWords
BY DEF ConfigWords

LEMMA DecidingWrite ==
  ASSUME NEW reg \in Deciding, NEW word
  PROVE  Write(reg, word) = <<WriteOp(reg, word)>>
BY Zenon DEF Write, WriteOp

LEMMA IdleWrite ==
  ASSUME NEW reg, NEW word, reg \notin Deciding
  PROVE  Write(reg, word) = <<>>
BY DEF Write

LEMMA WritesAreHardware ==
  /\ \A reg \in Deciding \ {"VMAX", "X_TARGET", "XACTUAL"}, word \in ConfigWords :
        WriteOp(reg, word) \in Hardware
  /\ \A word \in {0, 1} : WriteOp("VMAX", word) \in Hardware
  /\ \A reg \in {"X_TARGET", "XACTUAL"}, word \in Positions : WriteOp(reg, word) \in Hardware
<1> HIDE DEF ConfigWords, Deciding
<1> QED BY DEF Hardware, WriteOps, WriteOp

LEMMA OthersAreHardware ==
  /\ Do("read") \in Hardware /\ Do("trigger") \in Hardware /\ Do("exit") \in Hardware
  /\ \A pin \in {"VCC_IO", "NRST"}, level \in {0, 1} : PinOp(pin, level) \in Hardware
  /\ PinOp("CLK", ClockFrequency) \in Hardware
BY DEF Hardware, PinOps, PinOp, Do

\* Short pieces of program.
LEMMA Pieces ==
  /\ Read = <<Do("read")>> /\ Trigger = <<Do("trigger")>>
  /\ \A name : Step(name) = <<Do(name)>>
  /\ \A pin, level : Pin(pin, level) = <<PinOp(pin, level)>>
BY Zenon DEF Read, Trigger, Step, Pin, Do, PinOp

LEMMA CoverPieces ==
  ASSUME NEW reg
  PROVE  /\ \A word : Cover(reg, word) = <<WriteOp("COVER_HIGH_WR", <<"write", reg>>)>>
                                         \o <<WriteOp("COVER_LOW_WR", word)>>
         /\ CoverRead(reg) = <<WriteOp("COVER_HIGH_WR", <<"read", reg>>)>>
                              \o <<WriteOp("COVER_LOW_WR", Zero)>> \o <<Do("read")>>
<1>1. "COVER_HIGH_WR" \in Deciding /\ "COVER_LOW_WR" \in Deciding BY DEF Deciding
<1>2. \A word : /\ Write("COVER_HIGH_WR", word) = <<WriteOp("COVER_HIGH_WR", word)>>
                /\ Write("COVER_LOW_WR", word) = <<WriteOp("COVER_LOW_WR", word)>>
  BY <1>1, DecidingWrite
<1> QED BY <1>2, Pieces, Zenon DEF Cover, CoverRead

ResetPins == <<Do("read")>> \o (<<PinOp("VCC_IO", 0)>> \o <<PinOp("VCC_IO", 1)>>)
             \o (<<PinOp("NRST", 0)>> \o <<PinOp("NRST", 1)>>)

LEMMA ResetPieces == resetMotorDrivers = ResetPins
BY Pieces, Zenon DEF resetMotorDrivers, drv_reset_tmc5160, drv_reset_tmc4361a, ResetPins

\* Of the motion controller's configuration four writes decide something.
MotionInit == <<WriteOp("START_CONF", StartWord)>> \o <<WriteOp("SPIOUT_CONF", SpiOutWord)>>
              \o <<WriteOp("RAMPMODE", PositionWord)>>
              \o <<WriteOp("CLK_FREQ", ClockFrequency)>>

LEMMA MotionPieces == drv_init_tmc4361a = MotionInit
<1>1. /\ "START_CONF" \in Deciding /\ "SPIOUT_CONF" \in Deciding
      /\ "RAMPMODE" \in Deciding /\ "CLK_FREQ" \in Deciding
  BY DEF Deciding
<1>2. tmc4361a_start_conf_set = <<WriteOp("START_CONF", StartWord)>>
  BY <1>1, DecidingWrite, Zenon DEF tmc4361a_start_conf_set, StartWord
<1>3. tmc4361a_spiout_conf_set = <<WriteOp("SPIOUT_CONF", SpiOutWord)>>
  BY <1>1, DecidingWrite, Zenon DEF tmc4361a_spiout_conf_set, SpiOutWord
<1>4. tmc4361a_ramp_mode_conf_set = <<WriteOp("RAMPMODE", PositionWord)>>
  BY <1>1, DecidingWrite, Zenon DEF tmc4361a_ramp_mode_conf_set, PositionWord
<1>5. Write("CLK_FREQ", ClockFrequency) = <<WriteOp("CLK_FREQ", ClockFrequency)>>
  BY <1>1, DecidingWrite, Zenon
<1>6. tmc4361a_general_conf_set = <<>> BY IdleWrite DEF tmc4361a_general_conf_set, Deciding
<1>7. tmc4361a_reference_conf_set = <<>> BY IdleWrite DEF tmc4361a_reference_conf_set, Deciding
<1>8. tmc4361a_input_filt_conf_set = <<>> BY IdleWrite DEF tmc4361a_input_filt_conf_set, Deciding
<1>9. tmc4361a_current_conf_set = <<>> BY IdleWrite DEF tmc4361a_current_conf_set, Deciding
<1>10. tmc4361a_scale_values_conf_set = <<>>
  BY IdleWrite DEF tmc4361a_scale_values_conf_set, Deciding
<1>11. tmc4361a_enc_in_conf_set = <<>> BY IdleWrite DEF tmc4361a_enc_in_conf_set, Deciding
<1>12. tmc4361a_enc_in_data_conf_set = <<>>
  BY IdleWrite DEF tmc4361a_enc_in_data_conf_set, Deciding
<1>13. tmc4361a_enc_out_data_conf_set = <<>>
  BY IdleWrite DEF tmc4361a_enc_out_data_conf_set, Deciding
<1>14. tmc4361a_step_conf_set = <<>> BY IdleWrite DEF tmc4361a_step_conf_set, Deciding
<1>15. tmc4361a_spi_status_selection_conf_set = <<>>
  BY IdleWrite DEF tmc4361a_spi_status_selection_conf_set, Deciding
<1>16. tmc4361a_events_clear_conf_set = <<>>
  BY IdleWrite DEF tmc4361a_events_clear_conf_set, Deciding
<1>17. tmc4361a_intr_conf_set = <<>> BY IdleWrite DEF tmc4361a_intr_conf_set, Deciding
<1>18. tmc4361a_stp_length_add_conf_set = <<>>
  BY IdleWrite DEF tmc4361a_stp_length_add_conf_set, Deciding
<1>19. tmc4361a_freeze_conf_set = <<>> BY IdleWrite DEF tmc4361a_freeze_conf_set, Deciding
<1>20. /\ Write("START_DELAY", 0) = <<>> /\ Write("VSTALL_LIMIT", 1000) = <<>>
       /\ Write("VIRT_STOP_LEFT", 0) = <<>> /\ Write("VIRT_STOP_RIGHT", 0) = <<>>
  BY IdleWrite DEF Deciding
<1> DEFINE a == <<WriteOp("START_CONF", StartWord)>>
           b == <<WriteOp("SPIOUT_CONF", SpiOutWord)>>
           c == <<WriteOp("RAMPMODE", PositionWord)>>
           d == <<WriteOp("CLK_FREQ", ClockFrequency)>>
<1>21. drv_init_tmc4361a
         = <<>> \o <<>> \o a \o <<>> \o b \o <<>> \o <<>> \o <<>> \o <<>> \o <<>>
           \o <<>> \o <<>> \o <<>> \o <<>> \o <<>> \o <<>> \o c \o d
           \o <<>> \o <<>> \o <<>> \o <<>>
  BY <1>2, <1>3, <1>4, <1>5, <1>6, <1>7, <1>8, <1>9, <1>10, <1>11, <1>12, <1>13, <1>14,
     <1>15, <1>16, <1>17, <1>18, <1>19, <1>20, Zenon DEF drv_init_tmc4361a
<1>22. PICK S : /\ a \in Seq(S) /\ a \o b \in Seq(S) /\ a \o b \o c \o d \in Seq(S)
  <2> WITNESS {WriteOp("START_CONF", StartWord), WriteOp("SPIOUT_CONF", SpiOutWord),
               WriteOp("RAMPMODE", PositionWord), WriteOp("CLK_FREQ", ClockFrequency)}
  <2> QED OBVIOUS
<1> HIDE DEF a, b, c, d
<1>23. <<>> \o <<>> \o a = a BY <1>22, ConcatEmptySeq, EmptySeq
<1>24. \A x \in Seq(S) : x \o <<>> = x BY ConcatEmptySeq
<1>25. drv_init_tmc4361a = a \o b \o c \o d
  BY <1>21, <1>22, <1>23, <1>24, Zenon
<1> QED BY <1>25 DEF a, b, c, d, MotionInit

Covered(reg, word) == <<WriteOp("COVER_HIGH_WR", <<"write", reg>>)>>
                      \o <<WriteOp("COVER_LOW_WR", word)>>

PowerInit == Covered("GCONF", GlobalWord) \o Covered("IHOLD_IRUN", CurrentWord)
             \o Covered("CHOPCONF", ChopWord) \o Covered("COOLCONF", CoolWord)
             \o Covered("TPOWERDOWN", PowerDownWord) \o Covered("TPWMTHRS", PwmWord)
             \o Covered("TCOOLTHRS", SwitchWord)

LEMMA PowerPieces == drv_init_tmc5160_covers = PowerInit
<1>1. tmc5160_general_conf_set = Cover("GCONF", GlobalWord)
  BY Zenon DEF tmc5160_general_conf_set, GlobalWord
<1>2. tmc5160_ihold_irun_conf_set = Cover("IHOLD_IRUN", CurrentWord)
  BY Zenon DEF tmc5160_ihold_irun_conf_set, CurrentWord
<1>3. tmc5160_chop_conf_set = Cover("CHOPCONF", ChopWord)
  BY Zenon DEF tmc5160_chop_conf_set, ChopWord
<1>4. tmc5160_cool_conf_set = Cover("COOLCONF", CoolWord)
  BY Zenon DEF tmc5160_cool_conf_set, CoolWord
<1>5. drv_init_tmc5160_covers
        = tmc5160_general_conf_set \o tmc5160_ihold_irun_conf_set
          \o tmc5160_chop_conf_set \o tmc5160_cool_conf_set
          \o Cover("TPOWERDOWN", PowerDownWord) \o Cover("TPWMTHRS", PwmWord)
          \o Cover("TCOOLTHRS", SwitchWord)
  BY SMT DEF drv_init_tmc5160_covers, PowerDownWord, PwmWord, SwitchWord
<1>6. \A reg, word : Cover(reg, word) = Covered(reg, word) BY CoverPieces DEF Covered
<1> QED BY <1>1, <1>2, <1>3, <1>4, <1>5, <1>6 DEF PowerInit

\* The reset and configuration of the chips, operation by operation.
ResetOps ==
  <<Do("read"), PinOp("VCC_IO", 0), PinOp("VCC_IO", 1), PinOp("NRST", 0), PinOp("NRST", 1),
    WriteOp("START_CONF", StartWord), WriteOp("SPIOUT_CONF", SpiOutWord),
    WriteOp("RAMPMODE", PositionWord), WriteOp("CLK_FREQ", ClockFrequency),
    WriteOp("COVER_HIGH_WR", <<"write", "GCONF">>), WriteOp("COVER_LOW_WR", GlobalWord),
    WriteOp("COVER_HIGH_WR", <<"write", "IHOLD_IRUN">>), WriteOp("COVER_LOW_WR", CurrentWord),
    WriteOp("COVER_HIGH_WR", <<"write", "CHOPCONF">>), WriteOp("COVER_LOW_WR", ChopWord),
    WriteOp("COVER_HIGH_WR", <<"write", "COOLCONF">>), WriteOp("COVER_LOW_WR", CoolWord),
    WriteOp("COVER_HIGH_WR", <<"write", "TPOWERDOWN">>), WriteOp("COVER_LOW_WR", PowerDownWord),
    WriteOp("COVER_HIGH_WR", <<"write", "TPWMTHRS">>), WriteOp("COVER_LOW_WR", PwmWord),
    WriteOp("COVER_HIGH_WR", <<"write", "TCOOLTHRS">>), WriteOp("COVER_LOW_WR", SwitchWord)>>

LEMMA ResetProgram ==
  /\ drv_reset_and_enable \in Work /\ Len(drv_reset_and_enable) = 23
  /\ \A i \in 1 .. 23 : drv_reset_and_enable[i] = ResetOps[i]
<1> DEFINE s == ResetPins \o MotionInit \o PowerInit
<1>1. drv_reset_and_enable = s
  BY ResetPieces, MotionPieces, PowerPieces DEF drv_reset_and_enable
<1> USE DEF ResetPins, MotionInit, PowerInit, Covered
<1>2. s \in Work
  <2>1. \A reg \in CoverRegisters : <<"write", reg>> \in ConfigWords BY DEF ConfigWords
  <2> HIDE DEF ConfigWords, Hardware
  <2> QED BY <2>1, ConfigWordsHold, WritesAreHardware, OthersAreHardware
          DEF CoverRegisters, Deciding, Work
<1>3. Len(s) = 23 OBVIOUS
<1>4. \A i \in 1 .. 23 : s[i] = ResetOps[i] BY DEF ResetOps
<1> HIDE DEF s
<1> QED BY <1>1, <1>2, <1>3, <1>4

\* The signal handler's work.
HandlerOps == <<Do("read"), PinOp("VCC_IO", 0), PinOp("VCC_IO", 1), PinOp("NRST", 0),
                PinOp("NRST", 1), Do("exit")>>
HandlerProgram == resetMotorDrivers \o Step("exit")

LEMMA HandlerWork ==
  /\ HandlerProgram \in Work /\ Len(HandlerProgram) = 6
  /\ \A i \in 1 .. 6 : HandlerProgram[i] = HandlerOps[i]
<1> DEFINE s == ResetPins \o <<Do("exit")>>
<1>1. HandlerProgram = s BY ResetPieces, Pieces DEF HandlerProgram
<1> USE DEF ResetPins
<1>2. s \in Work
  <2> HIDE DEF Hardware
  <2> QED BY OthersAreHardware DEF Work
<1>3. Len(s) = 6 OBVIOUS
<1>4. \A i \in 1 .. 6 : s[i] = HandlerOps[i] BY DEF HandlerOps
<1> HIDE DEF s
<1> QED BY <1>1, <1>2, <1>3, <1>4

\* What the main thread does before it starts the bus cycle: it sets itself and
\* the pins up, resets and configures the chips, and checks them.
SetUpOps == <<Do("catch_signals"), Do("open_spi"), PinOp("VCC_IO", 1),
              PinOp("CLK", ClockFrequency), PinOp("NRST", 1)>>
CheckOps(x) ==
  <<Do("read"), WriteOp("COVER_HIGH_WR", <<"read", "INP_OUT">>), WriteOp("COVER_LOW_WR", Zero),
    Do("read"), WriteOp("XACTUAL", x), Do("read"), WriteOp("XACTUAL", 0),
    WriteOp("COVER_HIGH_WR", <<"read", "DRVSTATUS">>), WriteOp("COVER_LOW_WR", Zero),
    Do("read"), Do("start_thread")>>

CoverReads(reg) == <<WriteOp("COVER_HIGH_WR", <<"read", reg>>)>>
                   \o <<WriteOp("COVER_LOW_WR", Zero)>> \o <<Do("read")>>
SetUp == <<Do("catch_signals")>> \o <<Do("open_spi")>>
         \o (<<PinOp("VCC_IO", 1)>> \o <<PinOp("CLK", ClockFrequency)>> \o <<PinOp("NRST", 1)>>)
Check(x) == (<<Do("read")>> \o CoverReads("INP_OUT"))
            \o (<<WriteOp("XACTUAL", x)>> \o <<Do("read")>> \o <<WriteOp("XACTUAL", 0)>>)
            \o CoverReads("DRVSTATUS")

LEMMA CheckPieces ==
  ASSUME NEW x
  PROVE  drv_check_and_enable(x) = Check(x)
<1>1. Write("XACTUAL", x) = <<WriteOp("XACTUAL", x)>>
      /\ Write("XACTUAL", 0) = <<WriteOp("XACTUAL", 0)>>
  BY DecidingWrite DEF Deciding
<1>2. \A reg : CoverRead(reg) = CoverReads(reg) BY CoverPieces DEF CoverReads
<1> QED BY <1>1, <1>2, Pieces
        DEF drv_check_and_enable, drv_read_ic_versions, test_tmc4361a, read_motor_currents, Check

LEMMA CyclicPieces ==
  ASSUME NEW x
  PROVE  main("CYCLIC", x)
           = (SetUp \o ResetPins) \o MotionInit \o PowerInit \o Check(x) \o <<Do("start_thread")>>
<1>1. gpio_configure_TMC5160_and_TMC4361_pins
        = <<PinOp("VCC_IO", 1)>> \o <<PinOp("CLK", ClockFrequency)>> \o <<PinOp("NRST", 1)>>
  BY Pieces DEF gpio_configure_TMC5160_and_TMC4361_pins
<1>2. drv_init_spi_and_pins = SetUp \o ResetPins
  BY <1>1, Pieces, ResetPieces DEF drv_init_spi_and_pins, SetUp
<1>3. drv_init_spi_and_drivers = (SetUp \o ResetPins) \o MotionInit \o PowerInit
  BY <1>2, MotionPieces, PowerPieces DEF drv_init_spi_and_drivers
<1>4. main("CYCLIC", x)
        = drv_init_spi_and_drivers \o drv_check_and_enable(x) \o Step("start_thread")
  BY DEF main
<1> QED BY <1>3, <1>4, CheckPieces, Pieces

LEMMA CyclicProgram ==
  ASSUME NEW x \in Positions
  PROVE  /\ main("CYCLIC", x) \in ThreadWork /\ Len(main("CYCLIC", x)) = 39
         /\ \A i \in 1 .. 5 : main("CYCLIC", x)[i] = SetUpOps[i]
         /\ \A i \in 1 .. 23 : main("CYCLIC", x)[5 + i] = ResetOps[i]
         /\ \A i \in 1 .. 11 : main("CYCLIC", x)[28 + i] = CheckOps(x)[i]
<1> DEFINE s == (SetUp \o ResetPins) \o MotionInit \o PowerInit \o Check(x)
                \o <<Do("start_thread")>>
<1>1. main("CYCLIC", x) = s BY CyclicPieces
<1> USE DEF SetUp, ResetPins, MotionInit, PowerInit, Covered, Check, CoverReads
<1>2. s \in ThreadWork
  <2>1. \A reg \in CoverRegisters : /\ <<"write", reg>> \in ConfigWords
                                   /\ <<"read", reg>> \in ConfigWords
    BY DEF ConfigWords
  <2>2. 0 \in Positions BY PositionAssumption DEF Positions
  <2>3. Hardware \subseteq Alphabet
        /\ \A name \in {"catch_signals", "open_spi", "start_thread"} : Do(name) \in Alphabet
    <3> HIDE DEF Hardware
    <3> QED BY DEF Alphabet, Do
  <2> HIDE DEF ConfigWords, Hardware, Alphabet
  <2> QED BY <2>1, <2>2, <2>3, ConfigWordsHold, WritesAreHardware, OthersAreHardware
          DEF CoverRegisters, Deciding, ThreadWork
<1>3. Len(s) = 39 OBVIOUS
<1>4. \A i \in 1 .. 5 : s[i] = SetUpOps[i] BY DEF SetUpOps
<1>5. \A i \in 1 .. 23 : s[5 + i] = ResetOps[i] BY DEF ResetOps
<1>6. \A i \in 1 .. 11 : s[28 + i] = CheckOps(x)[i] BY DEF CheckOps
<1> HIDE DEF s
<1> QED BY <1>1, <1>2, <1>3, <1>4, <1>5, <1>6

\* Of a concatenation its first part leaves the second.
LEMMA ConcatRest ==
  ASSUME NEW S, NEW a \in Seq(S), NEW b \in Seq(S)
  PROVE  /\ a \o b \in Seq(S) /\ Len(a \o b) = Len(a) + Len(b)
         /\ \A i \in 1 .. Len(a) : (a \o b)[i] = a[i]
         /\ SubSeq(a \o b, Len(a) + 1, Len(a \o b)) = b
<1>1. PICK c : c = a \o b OBVIOUS
<1>2. /\ c \in Seq(S) /\ Len(c) = Len(a) + Len(b)
      /\ \A i \in 1 .. Len(a) + Len(b) : c[i] = IF i <= Len(a) THEN a[i] ELSE b[i - Len(a)]
  BY <1>1, ConcatProperties, Zenon
<1>3. Len(a) \in Nat /\ Len(b) \in Nat BY LenProperties
<1>4. PICK d : d = SubSeq(c, Len(a) + 1, Len(c)) OBVIOUS
<1>5. \A i \in Len(a) + 1 .. Len(c) : c[i] \in S BY <1>2, <1>3, ElementOfSeq
<1>6. /\ d \in Seq(S)
      /\ Len(d) = (IF Len(a) + 1 <= Len(c) THEN Len(c) - (Len(a) + 1) + 1 ELSE 0)
      /\ \A i \in 1 .. Len(c) - (Len(a) + 1) + 1 : d[i] = c[Len(a) + 1 + i - 1]
  BY <1>2, <1>3, <1>4, <1>5, SubSeqProperties
<1>7. Len(d) = Len(b) BY <1>2, <1>3, <1>6
<1>8. ASSUME NEW i \in 1 .. Len(d) PROVE d[i] = b[i]
  <2>1. d[i] = c[Len(a) + 1 + i - 1] BY <1>2, <1>3, <1>6, <1>7
  <2>2. Len(a) + 1 + i - 1 = Len(a) + i BY <1>3
  <2>3. c[Len(a) + i] = b[Len(a) + i - Len(a)]
    <3>1. Len(a) + i \in 1 .. Len(a) + Len(b) /\ ~(Len(a) + i <= Len(a)) BY <1>3, <1>7
    <3> QED BY <1>2, <3>1
  <2>4. Len(a) + i - Len(a) = i BY <1>3
  <2> QED BY <2>1, <2>2, <2>3, <2>4
<1>9. d = b BY <1>6, <1>7, <1>8, SeqEqual
<1> QED BY <1>1, <1>2, <1>3, <1>4, <1>9

\* What a bus cycle asks of the hardware.
Cycle(v, x, reset) == Write("VMAX", v) \o Write("X_TARGET", x) \o Trigger
                      \o (IF reset THEN drv_reset_and_enable ELSE <<>>)
CycleOps(v, x) == <<WriteOp("VMAX", v), WriteOp("X_TARGET", x), Do("trigger")>>

LEMMA CyclePieces ==
  ASSUME NEW v, NEW x, NEW reset
  PROVE  Cycle(v, x, reset)
           = <<WriteOp("VMAX", v)>> \o <<WriteOp("X_TARGET", x)>> \o <<Do("trigger")>>
             \o (IF reset THEN drv_reset_and_enable ELSE <<>>)
<1>1. /\ Write("VMAX", v) = <<WriteOp("VMAX", v)>>
      /\ Write("X_TARGET", x) = <<WriteOp("X_TARGET", x)>>
  BY DecidingWrite DEF Deciding
<1> QED BY <1>1, Pieces DEF Cycle

LEMMA CycleProgram ==
  ASSUME NEW v \in {0, 1}, NEW x \in Positions, NEW reset \in BOOLEAN
  PROVE  /\ Cycle(v, x, reset) \in Work
         /\ Len(Cycle(v, x, reset)) = 3 + (IF reset THEN 23 ELSE 0)
         /\ \A i \in 1 .. 3 : Cycle(v, x, reset)[i] = CycleOps(v, x)[i]
         /\ SubSeq(Cycle(v, x, reset), 4, Len(Cycle(v, x, reset)))
              = IF reset THEN drv_reset_and_enable ELSE <<>>
<1> DEFINE a == <<WriteOp("VMAX", v)>> \o <<WriteOp("X_TARGET", x)>> \o <<Do("trigger")>>
           b == IF reset THEN drv_reset_and_enable ELSE <<>>
<1>1. Cycle(v, x, reset) = a \o b BY CyclePieces
<1>2. a \in Work
  <2> HIDE DEF Hardware
  <2> QED BY WritesAreHardware, OthersAreHardware DEF Work
<1>3. Len(a) = 3 /\ \A i \in 1 .. 3 : a[i] = CycleOps(v, x)[i] BY DEF CycleOps
<1>4. b \in Work /\ Len(b) = (IF reset THEN 23 ELSE 0) /\ (~reset => b = <<>>)
  BY ResetProgram, EmptyWork
<1> HIDE DEF a, b
<1>5. /\ a \o b \in Work /\ Len(a \o b) = 3 + Len(b)
      /\ \A i \in 1 .. 3 : (a \o b)[i] = a[i]
      /\ SubSeq(a \o b, 4, Len(a \o b)) = b
  <2>1. /\ a \o b \in Work /\ Len(a \o b) = Len(a) + Len(b)
        /\ \A i \in 1 .. Len(a) : (a \o b)[i] = a[i]
        /\ SubSeq(a \o b, Len(a) + 1, Len(a \o b)) = b
    BY <1>2, <1>4, ConcatRest, Zenon DEF Work
  <2>2. Len(a) + 1 = 4 /\ Len(a) = 3 BY <1>3
  <2> QED BY <2>1, <2>2, Zenon
<1> QED BY <1>1, <1>3, <1>4, <1>5 DEF b

LEMMA SingleWork == \A op \in Hardware : <<op>> \in Work
<1> HIDE DEF Hardware
<1> QED BY DEF Work

LEMMA CoverWork ==
  ASSUME NEW reg \in CoverRegisters
  PROVE  CoverRead(reg) \in Work /\ \A word \in ConfigWords : Cover(reg, word) \in Work
<1>1. <<"write", reg>> \in ConfigWords /\ <<"read", reg>> \in ConfigWords BY DEF ConfigWords
<1>2. \A word \in ConfigWords : /\ WriteOp("COVER_HIGH_WR", word) \in Hardware
                                /\ WriteOp("COVER_LOW_WR", word) \in Hardware
  <2> HIDE DEF ConfigWords, Hardware
  <2> QED BY WritesAreHardware DEF Deciding
<1> HIDE DEF ConfigWords, Hardware
<1>3. ASSUME NEW word \in ConfigWords PROVE Cover(reg, word) \in Work
  <2>1. <<WriteOp("COVER_HIGH_WR", <<"write", reg>>)>> \o <<WriteOp("COVER_LOW_WR", word)>> \in Work
    BY <1>1, <1>2 DEF Work
  <2> QED BY <2>1, CoverPieces, Zenon
<1>4. CoverRead(reg) \in Work
  <2>1. /\ WriteOp("COVER_HIGH_WR", <<"read", reg>>) \in Hardware
        /\ WriteOp("COVER_LOW_WR", Zero) \in Hardware /\ Do("read") \in Hardware
    BY <1>1, <1>2, ConfigWordsHold, OthersAreHardware
  <2>2. <<WriteOp("COVER_HIGH_WR", <<"read", reg>>)>> \o <<WriteOp("COVER_LOW_WR", Zero)>>
          \o <<Do("read")>> \in Work
    BY <2>1 DEF Work
  <2> QED BY <2>2, CoverPieces, Zenon
<1> QED BY <1>3, <1>4

LEMMA OscillateWork == Oscillate(1, MaxPosition) \in Work
<1>1. /\ Write("AMAX", 256) \in Work /\ Write("DMAX", 256) \in Work
      /\ Write("BOW1", 32) \in Work /\ Write("BOW2", 32) \in Work
      /\ Write("BOW3", 32) \in Work /\ Write("BOW4", 32) \in Work
      /\ Write("X_PIPE0", 0) \in Work /\ Write("X_PIPE1", MaxPosition) \in Work
  BY IdleWrite, EmptyWork DEF Deciding
<1>2. Write("GENERAL_CONF", [DIRECT_ACC_VAL_EN |-> 1, DIRECT_BOW_VAL_EN |-> 1,
                             STDBY_CLK_PIN_ASSIGNMENT |-> 3]) \in Work
  BY IdleWrite, EmptyWork DEF Deciding
<1>3. \A reg \in {"RAMPMODE", "START_CONF"}, word \in ConfigWords : Write(reg, word) \in Work
  <2> HIDE DEF ConfigWords, Hardware
  <2> QED BY DecidingWrite, WritesAreHardware, SingleWork DEF Deciding
<1>4. Write("RAMPMODE", [RAMP_PROFILE |-> 2, OPERATION_MODE |-> 1]) \in Work
  <2>1. Write("RAMPMODE", RampWord) \in Work BY <1>3, ConfigWordsHold
  <2> QED BY <2>1, Zenon DEF RampWord
<1>5. Write("START_CONF", [TRIGGER_EVENTS1 |-> 1, PIPELINE_EN0 |-> 1,
                           XPIPE_REWRITE_REG2 |-> 1]) \in Work
  <2>1. Write("START_CONF", PipeWord) \in Work BY <1>3, ConfigWordsHold
  <2> QED BY <2>1, Zenon DEF PipeWord
<1>6. MaxPosition \in Positions BY PositionAssumption DEF Positions
<1>7. Write("VMAX", 1) \in Work /\ Write("X_TARGET", MaxPosition) \in Work
  BY <1>6, DecidingWrite, WritesAreHardware, SingleWork DEF Deciding
<1> QED BY <1>1, <1>2, <1>4, <1>5, <1>7, ConcatWork DEF Oscillate

LEMMA OtherProgramsWork ==
  ASSUME NEW program \in Programs \ {"CYCLIC"}, NEW rand_xactual
  PROVE  main(program, rand_xactual) \in Work
<1>2. CASE program = "TEST_MOVE"
  <2>1. CoverRead("DRVSTATUS") \in Work /\ CoverRead("LOST_STEPS") \in Work
    BY CoverWork DEF CoverRegisters
  <2> QED BY <1>2, <2>1, OscillateWork, ConcatWork DEF main, test_motors_oscillating_move
<1>3. CASE program = "HYST_TUNE"
  <2>1. CoverRead("CHOPCONF") \in Work BY CoverWork DEF CoverRegisters
  <2>2. Cover("CHOPCONF", HendWord) \in Work
    BY ConfigWordsHold, CoverWork DEF CoverRegisters
  <2>3. calibrate_spread_cycle(1, MaxPosition, Zero)
          = Oscillate(1, MaxPosition) \o CoverRead("CHOPCONF") \o Cover("CHOPCONF", HendWord)
    BY Zenon DEF calibrate_spread_cycle, HendWord
  <2> QED BY <1>3, <2>1, <2>2, <2>3, OscillateWork, ConcatWork DEF main
<1>4. CASE program = "REG_READ"
  <2>1. CoverRead("CHOPCONF") \in Work BY CoverWork DEF CoverRegisters
  <2>2. Read \in Work /\ Step("exit") \in Work BY Pieces, OthersAreHardware, SingleWork
  <2> QED BY <1>4, <2>1, <2>2, ConcatWork DEF main, interactive_reg_print
<1> QED BY <1>2, <1>3, <1>4 DEF Programs
-----------------------------------------------------------------------------
\* The types, with those of the threads' work and of the ramp's registers.
MotionOK ==
    /\ "VMAX" \in DOMAIN motion => motion["VMAX"] \in {0, 1}
    /\ "X_TARGET" \in DOMAIN motion => motion["X_TARGET"] \in Positions

TypeInv ==
    /\ threads \subseteq Threads
    /\ interrupted \in {"none", "main", "rt"}
    /\ todo \in [Threads -> ThreadWork]
    /\ catches \in BOOLEAN /\ vcc_wired \in BOOLEAN
    /\ hspi \in {"closed", "open", "failed"}
    /\ ended \in {"none", "alone", "beside", "returned", "killed"}
    /\ pins \in [VCC_IO : {0, 1}, NRST : {0, 1}, CLK : {0, ClockFrequency}]
    /\ ramp \in [VMAX : {0, 1}, X_TARGET : Positions]
    /\ xactual \in Positions
    /\ MotionOK

LEMMA TypeInvTypes == TypeInv => TypeOK
<1> SUFFICES ASSUME TypeInv PROVE TypeOK OBVIOUS
<1>1. ASSUME NEW t \in Threads, NEW i \in DOMAIN todo[t] PROVE todo[t][i].do \in Ops
  <2>1. todo[t] \in ThreadWork BY DEF TypeInv
  <2>2. i \in 1 .. Len(todo[t]) BY <2>1, LenProperties DEF ThreadWork
  <2>3. todo[t][i] \in Alphabet BY <2>1, <2>2, ElementOfSeq DEF ThreadWork
  <2> QED BY <2>3 DEF Alphabet, Hardware, WriteOps, PinOps, Ops
<1> QED BY <1>1 DEF TypeInv, TypeOK

LEMMA ProgramNamed ==
  ASSUME NEW args \in Arguments, process_command_line(args) # "none"
  PROVE  process_command_line(args) \in Programs
<1> DEFINE named == {i \in DOMAIN args : args[i] \in Programs}
<1>1. DOMAIN args \subseteq {1, 2} BY DEF Arguments
<1>2. CASE named = {}
  BY <1>2 DEF process_command_line, Programs
<1>3. CASE named # {}
  <2>1. \E i \in named : \A j \in named : j <= i
    <3>1. CASE 2 \in named BY <1>1, <3>1
    <3>2. CASE 2 \notin named BY <1>1, <1>3, <3>2
    <3> QED BY <3>1, <3>2
  <2>2. (CHOOSE i \in named : \A j \in named : j <= i) \in named BY <2>1
  <2> QED BY <1>3, <2>2 DEF process_command_line
<1> QED BY <1>2, <1>3

LEMMA TypeInvInit == Init => TypeInv
<1> SUFFICES ASSUME Init PROVE TypeInv OBVIOUS
<1>1. todo \in [Threads -> ThreadWork] BY EmptyWork DEF Init
<1>2. ramp \in [VMAX : {0, 1}, X_TARGET : Positions]
  BY PositionAssumption DEF Init, Still, RampRegisters, Positions
<1>3. pins \in [VCC_IO : {0, 1}, NRST : {0, 1}, CLK : {0, ClockFrequency}] BY DEF Init
<1>4. MotionOK BY DEF Init, MotionOK, NoRegisters
<1>5. /\ threads \subseteq Threads /\ interrupted \in {"none", "main", "rt"}
      /\ catches \in BOOLEAN /\ vcc_wired \in BOOLEAN
      /\ hspi \in {"closed", "open", "failed"}
      /\ ended \in {"none", "alone", "beside", "returned", "killed"}
  BY DEF Init
<1>6. xactual \in Positions BY PositionAssumption DEF Init, Positions
<1> QED BY <1>1, <1>2, <1>3, <1>4, <1>5, <1>6 DEF TypeInv

LEMMA EffectTypes ==
  ASSUME TypeInv, NEW op \in Alphabet, Effect(op)
  PROVE  /\ pins' \in [VCC_IO : {0, 1}, NRST : {0, 1}, CLK : {0, ClockFrequency}]
         /\ ramp' \in [VMAX : {0, 1}, X_TARGET : Positions]
         /\ xactual' \in Positions
         /\ MotionOK'
<1> USE PositionAssumption DEF TypeInv, Positions
<1>1. CASE op.do = "write" /\ Receives
  <2>1. Obey(op.reg, op.word) BY <1>1, Zenon DEF Effect
  <2>2. op \in WriteOps BY <1>1 DEF Alphabet, Hardware, PinOps
  <2>3. /\ op.reg = "VMAX" => op.word \in {0, 1}
        /\ op.reg \in {"X_TARGET", "XACTUAL"} => op.word \in Positions
    <3> HIDE DEF ConfigWords
    <3> QED BY <2>2 DEF WriteOps, Deciding
  <2>4. pins' = pins BY <2>1 DEF Obey
  <2>5. ramp' \in [VMAX : {0, 1}, X_TARGET : Positions]
    BY <2>1, <2>3 DEF Obey, RampRegisters
  <2>6. xactual' \in Positions BY <2>1, <2>3 DEF Obey
  <2>7. MotionOK' BY <2>1, <2>3 DEF Obey, MotionOK, Put
  <2> QED BY <2>4, <2>5, <2>6, <2>7
<1>2. CASE op.do = "pin"
  <2>1. SetPin(op.pin, op.level) BY <1>2, Zenon DEF Effect
  <2>2. op \in PinOps BY <1>2 DEF Alphabet, Hardware, WriteOps
  <2>3. pins' \in [VCC_IO : {0, 1}, NRST : {0, 1}, CLK : {0, ClockFrequency}]
    BY <2>1, <2>2 DEF SetPin, PinOps
  <2>4. ramp' \in [VMAX : {0, 1}, X_TARGET : Positions]
    BY <2>1 DEF SetPin, Still, RampRegisters
  <2>5. xactual' \in Positions /\ MotionOK' BY <2>1 DEF SetPin, MotionOK, NoRegisters
  <2> QED BY <2>3, <2>4, <2>5
<1>3. CASE op.do = "trigger"
  <2>1. drv_send_start_trigger BY <1>3, Zenon DEF Effect
  <2>2. ramp' \in [VMAX : {0, 1}, X_TARGET : Positions]
    BY <2>1 DEF drv_send_start_trigger, RampRegisters, MotionOK
  <2> QED BY <2>1, <2>2 DEF drv_send_start_trigger, MotionOK
<1>4. CASE /\ ~(op.do = "write" /\ Receives)
           /\ op.do # "pin" /\ op.do # "trigger"
  <2>1. UNCHANGED chipVars BY <1>4, Zenon DEF Effect
  <2> QED BY <2>1 DEF chipVars, MotionOK
<1> QED BY <1>1, <1>2, <1>3, <1>4

LEMMA TypeInvStep == TypeInv /\ [Next]_vars => TypeInv'
<1> SUFFICES ASSUME TypeInv, [Next]_vars PROVE TypeInv' OBVIOUS
<1> USE DEF TypeInv
<1>1. ASSUME NEW args \in Arguments, Start(args) PROVE TypeInv'
  <2>1. process_command_line(args) \in Programs BY <1>1, ProgramNamed DEF Start
  <2>2. PICK x \in Positions :
           todo' = [todo EXCEPT !["main"] = main(process_command_line(args), x),
                                 !["rt"] = <<>>]
    BY <1>1, Zenon DEF Start
  <2>3. todo' \in [Threads -> ThreadWork]
    BY <2>1, <2>2, CyclicProgram, OtherProgramsWork, WorkIsThreadWork, EmptyWork
  <2>4. /\ threads' = {"main"} /\ interrupted' = "none" /\ catches' = FALSE
        /\ hspi' = "closed" /\ ended' = "none" /\ UNCHANGED <<vcc_wired, chipVars>>
    BY <1>1, Zenon DEF Start
  <2> QED BY <2>3, <2>4 DEF Threads, chipVars, MotionOK
<1>2. ASSUME NEW t \in Threads, Operate(t) PROVE TypeInv'
  <2>1. todo[t] \in ThreadWork /\ todo[t] # <<>> BY <1>2 DEF Operate, Does
  <2>2. Head(todo[t]) \in Alphabet /\ Tail(todo[t]) \in ThreadWork BY <2>1, TailWork
  <2>3. todo' \in [Threads -> ThreadWork] BY <1>2, <2>2 DEF Operate
  <2>4. /\ pins' \in [VCC_IO : {0, 1}, NRST : {0, 1}, CLK : {0, ClockFrequency}]
        /\ ramp' \in [VMAX : {0, 1}, X_TARGET : Positions]
        /\ xactual' \in Positions
        /\ MotionOK'
    BY <1>2, <2>2, EffectTypes DEF Operate
  <2> QED BY <1>2, <2>3, <2>4 DEF Operate
<1>3. ASSUME NEW t \in Threads, Collide(t) PROVE TypeInv'
  <2>1. /\ todo[t] \in ThreadWork /\ todo[t] # <<>>
        /\ todo["handler"] \in ThreadWork /\ todo["handler"] # <<>>
    BY <1>3 DEF Collide, Does, Threads
  <2>2. Tail(todo[t]) \in ThreadWork /\ Tail(todo["handler"]) \in ThreadWork BY <2>1, TailWork
  <2>3. t # "handler" BY <1>3 DEF Collide, Does
  <2>4. todo' \in [Threads -> ThreadWork] BY <1>3, <2>2, <2>3 DEF Collide
  <2>5. /\ UNCHANGED <<threads, interrupted, catches, hspi, ended, vcc_wired>>
        /\ UNCHANGED <<pins, motion, driver, ramp, xactual>>
    BY <1>3 DEF Collide, chipVars
  <2>6. MotionOK' BY <2>5 DEF MotionOK
  <2> QED BY <2>4, <2>5, <2>6
<1>4. ASSUME NEW t \in Threads, Exit(t) PROVE TypeInv'
  <2>1. todo' \in [Threads -> ThreadWork] BY <1>4, EmptyWork DEF Exit
  <2>2. ended' \in {"none", "alone", "beside", "returned", "killed"} BY <1>4 DEF Exit
  <2> QED BY <1>4, <2>1, <2>2 DEF Exit, chipVars, MotionOK
<1>5. ASSUME CatchSignals \/ OpenSpi \/ StartThread PROVE TypeInv'
  <2>1. todo["main"] \in ThreadWork /\ todo["main"] # <<>>
    BY <1>5 DEF CatchSignals, OpenSpi, StartThread, Does, Threads
  <2>2. Tail(todo["main"]) \in ThreadWork BY <2>1, TailWork
  <2>3. todo' \in [Threads -> ThreadWork]
    BY <1>5, <2>2, EmptyWork DEF CatchSignals, OpenSpi, StartThread
  <2> QED BY <1>5, <2>3
          DEF CatchSignals, OpenSpi, StartThread, Threads, chipVars, MotionOK
<1>6. ASSUME step_ctrl_main PROVE TypeInv'
  <2>1. PICK v \in {0, 1}, x \in Positions, reset \in BOOLEAN :
           todo' = [todo EXCEPT !["rt"] = Cycle(v, x, reset)]
    BY <1>6, Zenon DEF step_ctrl_main, Cycle
  <2>2. Cycle(v, x, reset) \in ThreadWork BY CycleProgram, WorkIsThreadWork
  <2>3. todo' \in [Threads -> ThreadWork] BY <2>1, <2>2
  <2> QED BY <1>6, <2>3 DEF step_ctrl_main, chipVars, MotionOK
<1>7. ASSUME gpio_terminate_pigpio PROVE TypeInv'
  <2>1. todo' = [todo EXCEPT !["handler"] = HandlerProgram]
    BY <1>7, Zenon DEF gpio_terminate_pigpio, HandlerProgram
  <2>2. todo' \in [Threads -> ThreadWork] BY <2>1, HandlerWork, WorkIsThreadWork
  <2>3. threads' \subseteq Threads /\ interrupted' \in {"none", "main", "rt"}
    BY <1>7 DEF gpio_terminate_pigpio, Threads
  <2> QED BY <1>7, <2>2, <2>3 DEF gpio_terminate_pigpio, chipVars, MotionOK
<1>8. ASSUME Kill PROVE TypeInv'
  <2>1. todo' \in [Threads -> ThreadWork] BY <1>8, EmptyWork DEF Kill
  <2> QED BY <1>8, <2>1 DEF Kill, chipVars, MotionOK
<1>9. ASSUME ChipStep PROVE TypeInv'
  <2>1. xactual' \in Positions
    BY <1>9, PositionAssumption DEF ChipStep, Counts, Positions
  <2> QED BY <1>9, <2>1 DEF ChipStep, programVars, MotionOK
<1>10. ASSUME UNCHANGED vars PROVE TypeInv'
  BY <1>10 DEF vars, programVars, chipVars, MotionOK
<1> QED BY <1>1, <1>2, <1>3, <1>4, <1>5, <1>6, <1>7, <1>8, <1>9, <1>10 DEF Next

\* The threads, the pins and the registers keep their types, and a position
\* never leaves the range of the targets.
THEOREM TypeCorrect == Spec => []TypeOK
<1>1. TypeInv => TypeOK BY TypeInvTypes
<1> QED BY <1>1, TypeInvInit, TypeInvStep, PTL DEF Spec
-----------------------------------------------------------------------------
\* What is left of a program after n operations.
Left(program, n) == SubSeq(program, n + 1, Len(program))

LEMMA LeftStep ==
  ASSUME NEW S, NEW s \in Seq(S), NEW n \in 0 .. Len(s)
  PROVE  /\ Left(s, 0) = s
         /\ n < Len(s) => /\ Left(s, n) # <<>>
                          /\ Head(Left(s, n)) = s[n + 1]
                          /\ Tail(Left(s, n)) = Left(s, n + 1)
         /\ Left(s, Len(s)) = <<>>
<1>1. Left(s, 0) = s BY SubSeqFull DEF Left
<1>2. Len(s) \in Nat BY LenProperties
<1>3. ASSUME n < Len(s)
      PROVE  /\ Left(s, n) # <<>>
             /\ Head(Left(s, n)) = s[n + 1]
             /\ Tail(Left(s, n)) = Left(s, n + 1)
  <2>1. n + 1 \in 1 .. Len(s) /\ Len(s) \in n + 1 .. Len(s) BY <1>2, <1>3
  <2>2. /\ Head(SubSeq(s, n + 1, Len(s))) = s[n + 1]
        /\ Tail(SubSeq(s, n + 1, Len(s))) = SubSeq(s, n + 1 + 1, Len(s))
    BY <2>1, HeadTailOfSubSeq
  <2>3. Len(SubSeq(s, n + 1, Len(s))) = Len(s) - (n + 1) + 1
    BY <1>2, <1>3, <2>1, SubSeqProperties, ElementOfSeq
  <2>4. SubSeq(s, n + 1, Len(s)) # <<>>
    <3>1. Len(<<>>) = 0 OBVIOUS
    <3>2. Len(s) - (n + 1) + 1 # 0 BY <1>2, <1>3
    <3> QED BY <2>3, <3>1, <3>2, Zenon
  <2> QED BY <2>2, <2>4, Zenon DEF Left
<1>4. Left(s, Len(s)) = <<>> BY <1>2, SubSeqEmpty DEF Left
<1> QED BY <1>1, <1>3, <1>4

\* Alone, once it has pulled NRST, the handler leaves no speed in effect: the
\* thread it runs on is the only other one with anything to do.
Alone == "rt" \notin threads \ {interrupted}

HandlerInv ==
    /\ "rt" \in threads => todo["main"] = <<>>
    /\ "handler" \in threads =>
          /\ interrupted \in threads \ {"handler"}
          /\ \E i \in 0 .. 5 :
                todo["handler"] = Left(HandlerProgram, i) /\ (Alone /\ i >= 4 => ramp["VMAX"] = 0)
    /\ ended = "alone" => threads = {} /\ ramp["VMAX"] = 0

LEMMA HandlerInvStops == HandlerInv => HandlerStops
BY DEF HandlerInv, HandlerStops, Turning, Counts

\* The handler's work is done from the front.
LEMMA HandlerGoesOn ==
  ASSUME NEW i \in 0 .. 5
  PROVE  /\ Left(HandlerProgram, i) # <<>>
         /\ i = 3 => Head(Left(HandlerProgram, i)) = PinOp("NRST", 0)
         /\ i = 4 => Head(Left(HandlerProgram, i)) = PinOp("NRST", 1)
         /\ Head(Left(HandlerProgram, i)).do
              = IF i = 0 THEN "read" ELSE IF i = 5 THEN "exit" ELSE "pin"
         /\ i < 5 => Tail(Left(HandlerProgram, i)) = Left(HandlerProgram, i + 1)
<1>1. i \in 0 .. Len(HandlerProgram) /\ i < Len(HandlerProgram) BY HandlerWork
<1>2. /\ Left(HandlerProgram, i) # <<>>
      /\ Head(Left(HandlerProgram, i)) = HandlerProgram[i + 1]
      /\ Tail(Left(HandlerProgram, i)) = Left(HandlerProgram, i + 1)
  BY <1>1, HandlerWork, LeftStep DEF Work
<1>3. HandlerProgram[i + 1] = HandlerOps[i + 1] BY HandlerWork
<1>4. /\ i = 3 => HandlerOps[i + 1] = PinOp("NRST", 0)
      /\ i = 4 => HandlerOps[i + 1] = PinOp("NRST", 1)
  BY DEF HandlerOps
<1>5. HandlerOps[i + 1].do = IF i = 0 THEN "read" ELSE IF i = 5 THEN "exit" ELSE "pin"
  BY DEF HandlerOps, Do, PinOp
<1> QED BY <1>2, <1>3, <1>4, <1>5

LEMMA HandlerInvInit == Init => HandlerInv
BY DEF Init, HandlerInv

\* Who could set a speed while the handler is alone.
LEMMA OnlyHandlerActs ==
  ASSUME TypeInv, HandlerInv, "handler" \in threads, Alone,
         NEW t \in Threads, t \in threads, t # interrupted, todo[t] # <<>>
  PROVE  t = "handler"
BY DEF TypeInv, HandlerInv, Alone, Threads

LEMMA HandlerOperates ==
  ASSUME TypeInv, HandlerInv, Operate("handler")
  PROVE  HandlerInv'
<1> USE DEF HandlerInv
<1>1. PICK i \in 0 .. 5 :
         todo["handler"] = Left(HandlerProgram, i) /\ (Alone /\ i >= 4 => ramp["VMAX"] = 0)
  BY DEF Operate, Does
<1>2. i < 5 BY <1>1, HandlerGoesOn DEF Operate, Does
<1>3. /\ todo'["handler"] = Left(HandlerProgram, i + 1)
      /\ todo'["main"] = todo["main"]
  BY <1>1, <1>2, HandlerGoesOn DEF Operate, TypeInv, Threads
<1>4. UNCHANGED <<threads, interrupted, ended>> BY DEF Operate
<1>5. Effect(Head(todo["handler"])) BY DEF Operate
<1>6. i + 1 >= 4 /\ Alone => ramp'["VMAX"] = 0
  <2>1. CASE i = 3
    <3>1. Head(todo["handler"]) = PinOp("NRST", 0) BY <1>1, <2>1, HandlerGoesOn
    <3>2. SetPin("NRST", 0) BY <1>5, <3>1 DEF Effect, PinOp
    <3> QED BY <3>2 DEF SetPin, Still, RampRegisters
  <2>2. CASE i = 4
    <3>1. Head(todo["handler"]) = PinOp("NRST", 1) BY <1>1, <2>2, HandlerGoesOn
    <3>2. SetPin("NRST", 1) BY <1>5, <3>1 DEF Effect, PinOp
    <3>3. ramp' = ramp BY <3>2 DEF SetPin
    <3> QED BY <1>1, <2>2, <3>3
  <2> QED BY <1>2, <2>1, <2>2
<1>7. "handler" \in threads /\ ended # "alone"
  BY DEF Operate, Does
<1>8. Alone' = Alone BY <1>4 DEF Alone
<1> QED BY <1>2, <1>3, <1>4, <1>6, <1>7, <1>8

LEMMA HandlerInvStep == TypeInv /\ HandlerInv /\ [Next]_vars => HandlerInv'
<1> SUFFICES ASSUME TypeInv, HandlerInv, [Next]_vars PROVE HandlerInv' OBVIOUS
<1>1. ASSUME NEW args \in Arguments, Start(args) PROVE HandlerInv'
  BY <1>1 DEF Start, HandlerInv
<1>2. ASSUME NEW t \in Threads, Operate(t) PROVE HandlerInv'
  <2>1. CASE t = "handler" BY <1>2, <2>1, HandlerOperates
  <2>2. CASE t # "handler"
    <3>1. /\ t \in threads /\ t # interrupted /\ todo[t] # <<>>
          /\ UNCHANGED <<threads, interrupted, ended>>
          /\ todo'["handler"] = todo["handler"]
          /\ t # "main" => todo'["main"] = todo["main"]
      BY <1>2, <2>2 DEF Operate, Does, TypeInv, Threads
    <3>2. ~("handler" \in threads /\ Alone) BY <2>2, <3>1, OnlyHandlerActs
    <3>3. "rt" \in threads => t # "main" BY <3>1 DEF HandlerInv
    <3> QED BY <3>1, <3>2, <3>3 DEF HandlerInv, Alone
  <2> QED BY <2>1, <2>2
<1>3. ASSUME NEW t \in Threads, Collide(t) PROVE HandlerInv'
  <2>1. PICK i \in 0 .. 5 :
           todo["handler"] = Left(HandlerProgram, i) /\ (Alone /\ i >= 4 => ramp["VMAX"] = 0)
    BY <1>3 DEF Collide, Does, HandlerInv
  <2>2. i = 0 BY <1>3, <2>1, HandlerGoesOn DEF Collide, Does, PinOp
  <2>3. t # "handler" /\ t \in threads /\ todo[t] # <<>> BY <1>3 DEF Collide, Does
  <2>4. todo'["handler"] = Left(HandlerProgram, 1)
    <3>1. Tail(todo["handler"]) = Left(HandlerProgram, 1) BY <2>1, <2>2, HandlerGoesOn
    <3> QED BY <1>3, <2>3, <3>1 DEF Collide, TypeInv, Threads
  <2>5. "rt" \in threads => todo'["main"] = todo["main"]
    BY <1>3, <2>3 DEF Collide, TypeInv, Threads, HandlerInv
  <2>6. UNCHANGED <<threads, interrupted, ended, ramp>> BY <1>3 DEF Collide, chipVars
  <2> QED BY <1>3, <2>4, <2>5, <2>6 DEF HandlerInv, Collide, Does
<1>4. ASSUME NEW t \in Threads, Exit(t) PROVE HandlerInv'
  <2>1. threads' = {} /\ UNCHANGED ramp BY <1>4 DEF Exit, chipVars
  <2>2. ended' = "alone" => ramp["VMAX"] = 0
    <3> SUFFICES ASSUME ended' = "alone" PROVE ramp["VMAX"] = 0 OBVIOUS
    <3>1. t = "handler" /\ Alone /\ "handler" \in threads
          /\ Head(todo["handler"]).do = "exit"
      BY <1>4 DEF Exit, Alone, Does
    <3>2. PICK i \in 0 .. 5 :
             todo["handler"] = Left(HandlerProgram, i) /\ (Alone /\ i >= 4 => ramp["VMAX"] = 0)
      BY <3>1 DEF HandlerInv
    <3>3. i = 5 BY <3>1, <3>2, HandlerGoesOn DEF PinOp
    <3> QED BY <3>1, <3>2, <3>3
  <2> QED BY <2>1, <2>2 DEF HandlerInv
<1>5. ASSUME CatchSignals \/ OpenSpi PROVE HandlerInv'
  <2>1. /\ "main" \in threads /\ todo["main"] # <<>>
        /\ UNCHANGED <<threads, interrupted, ended, ramp>>
        /\ todo'["handler"] = todo["handler"]
    BY <1>5 DEF CatchSignals, OpenSpi, Does, chipVars, TypeInv, Threads
  <2> QED BY <2>1 DEF HandlerInv, Alone
<1>6. ASSUME StartThread PROVE HandlerInv'
  <2>1. /\ "main" \in threads /\ todo["main"] # <<>> /\ "main" # interrupted
        /\ threads' = threads \cup {"rt"} /\ UNCHANGED <<interrupted, ended, ramp>>
        /\ todo'["handler"] = todo["handler"] /\ todo'["main"] = <<>>
    BY <1>6 DEF StartThread, Does, chipVars, TypeInv, Threads
  <2>2. "handler" \notin threads
    <3> SUFFICES ASSUME "handler" \in threads PROVE FALSE OBVIOUS
    <3>1. interrupted = "rt" BY <2>1 DEF HandlerInv, TypeInv, Threads
    <3> QED BY <2>1, <3>1 DEF HandlerInv
  <2> QED BY <2>1, <2>2 DEF HandlerInv
<1>7. ASSUME step_ctrl_main PROVE HandlerInv'
  <2>1. /\ "rt" \in threads \ {interrupted}
        /\ UNCHANGED <<threads, interrupted, ended, ramp>>
        /\ todo'["handler"] = todo["handler"] /\ todo'["main"] = todo["main"]
    BY <1>7 DEF step_ctrl_main, chipVars, TypeInv, Threads
  <2> QED BY <2>1 DEF HandlerInv, Alone
<1>8. ASSUME gpio_terminate_pigpio PROVE HandlerInv'
  <2>1. /\ "handler" \notin threads /\ interrupted' \in threads
        /\ threads' = threads \cup {"handler"} /\ UNCHANGED <<ended, ramp>>
        /\ todo'["handler"] = resetMotorDrivers \o Step("exit")
        /\ todo'["main"] = todo["main"]
    BY <1>8 DEF gpio_terminate_pigpio, chipVars, TypeInv, Threads
  <2>2. todo'["handler"] = Left(HandlerProgram, 0)
    <3>1. HandlerProgram \in Seq(Hardware) /\ 0 \in 0 .. Len(HandlerProgram)
      BY HandlerWork DEF Work
    <3> QED BY <2>1, <3>1, LeftStep DEF HandlerProgram
  <2>3. ended # "alone" BY <2>1 DEF HandlerInv
  <2>4. \E i \in 0 .. 5 :
           todo'["handler"] = Left(HandlerProgram, i) /\ (Alone' /\ i >= 4 => ramp'["VMAX"] = 0)
    BY <2>2, 0 \in 0 .. 5
  <2> QED BY <2>1, <2>3, <2>4 DEF HandlerInv
<1>9. ASSUME Kill PROVE HandlerInv' BY <1>9 DEF Kill, HandlerInv
<1>10. ASSUME ChipStep PROVE HandlerInv'
  BY <1>10 DEF ChipStep, programVars, HandlerInv, Alone
<1>11. ASSUME UNCHANGED vars PROVE HandlerInv'
  BY <1>11 DEF vars, programVars, chipVars, HandlerInv, Alone
<1> QED BY <1>1, <1>2, <1>3, <1>4, <1>5, <1>6, <1>7, <1>8, <1>9, <1>10, <1>11 DEF Next

\* When the signal handler has run on the only thread at work, the motors stand:
\* whatever was being written when the signal came, wherever the chips were in
\* their configuration, with the power stages switched off or not.
THEOREM HandlerLeavesMotorsStanding == Spec => []HandlerStops
<1>1. Init => TypeInv /\ HandlerInv BY TypeInvInit, HandlerInvInit
<1>2. TypeInv /\ HandlerInv /\ [Next]_vars => TypeInv' /\ HandlerInv'
  BY TypeInvStep, HandlerInvStep
<1> QED BY <1>1, <1>2, HandlerInvStops, PTL DEF Spec
-----------------------------------------------------------------------------
\* What the words mean, and what a write does to a bank of registers.
LEMMA WordFields ==
  /\ Field(StartWord, "START_EN0") = 1 /\ Field(SpiOutWord, "SPI_OUTPUT_FORMAT") = 12
  /\ Field(PositionWord, "OPERATION_MODE") = 1
  /\ Field(CurrentWord, "IRUN") > 0 /\ Field(ChopWord, "TOFF") > 0
BY DEF Field, StartWord, SpiOutWord, PositionWord, CurrentWord, ChopWord

LEMMA RegisterPut ==
  ASSUME NEW bank, NEW reg, NEW word
  PROVE  /\ \A r : Register(Put(bank, reg, word), r) = IF r = reg THEN word ELSE Register(bank, r)
         /\ reg \in DOMAIN Put(bank, reg, word) /\ Put(bank, reg, word)[reg] = word
<1>1. DOMAIN Put(bank, reg, word) = DOMAIN bank \cup {reg} BY DEF Put
<1>2. \A r \in DOMAIN bank \cup {reg} :
         Put(bank, reg, word)[r] = IF r = reg THEN word ELSE bank[r]
  BY DEF Put
<1> QED BY <1>1, <1>2 DEF Register

LEMMA EffectOfWrite ==
  ASSUME NEW reg, NEW word, hspi = "open", pins.NRST = 1, Effect(WriteOp(reg, word))
  PROVE  Obey(reg, word)
BY DEF Effect, WriteOp, Receives

LEMMA EffectOfPin ==
  ASSUME NEW pin, NEW level, Effect(PinOp(pin, level))
  PROVE  SetPin(pin, level)
BY DEF Effect, PinOp

LEMMA EffectOfRead ==
  ASSUME Effect(Do("read"))
  PROVE  UNCHANGED <<pins, motion, driver, ramp, xactual>>
BY DEF Effect, Do, chipVars

\* A write to a register of the motion controller's own, not of its ramp.
LEMMA OwnWrite ==
  ASSUME NEW reg, NEW word, Obey(reg, word),
         reg \notin {"XACTUAL", "COVER_LOW_WR", "VMAX", "X_TARGET"}
  PROVE  /\ UNCHANGED <<pins, driver, ramp, xactual>>
         /\ motion' = Put(motion, reg, word)
         /\ \A r : Register(motion', r) = IF r = reg THEN word ELSE Register(motion, r)
         /\ reg \in DOMAIN motion' /\ motion'[reg] = word
<1>1. motion' = Put(motion, reg, word) BY DEF Obey
<1>2. UNCHANGED <<pins, driver, ramp, xactual>> BY DEF Obey, RampRegisters
<1> QED BY <1>1, <1>2, RegisterPut

\* A cover datagram reaches the power stage if the motion controller sends them
\* in its format and the power stage is not in reset.
LEMMA CoverSent ==
  ASSUME NEW reg, NEW word, Obey("COVER_LOW_WR", word),
         SendsCovers, pins.VCC_IO = 1,
         "COVER_HIGH_WR" \in DOMAIN motion, motion["COVER_HIGH_WR"] = <<"write", reg>>
  PROVE  /\ UNCHANGED <<pins, motion, ramp, xactual>>
         /\ \A r : Register(driver', r) = IF r = reg THEN word ELSE Register(driver, r)
<1>1. UNCHANGED <<pins, motion, ramp, xactual>> BY DEF Obey, RampRegisters
<1>2. driver' = Put(driver, reg, word) BY DEF Obey, DriverInReset
<1> QED BY <1>1, <1>2, RegisterPut

LEMMA CoverReadSent ==
  ASSUME NEW word, Obey("COVER_LOW_WR", word), motion["COVER_HIGH_WR"][1] = "read"
  PROVE  UNCHANGED <<pins, motion, driver, ramp, xactual>>
BY DEF Obey, RampRegisters
-----------------------------------------------------------------------------
\* How far the chips are when k operations of drv_reset_and_enable are done.
IhasRun == Field(Register(driver, "IHOLD_IRUN"), "IRUN") > 0

ChipsAfter(k) ==
    /\ pins.CLK = ClockFrequency
    /\ pins.VCC_IO = (IF k = 2 THEN 0 ELSE 1) /\ pins.NRST = (IF k = 4 THEN 0 ELSE 1)
    /\ k >= 4 => ramp["VMAX"] = 0
    /\ k >= 6 => WaitsForStart
    /\ k >= 7 => SendsCovers
    /\ k >= 8 => PositionMode
    /\ k >= 9 => Register(motion, "CLK_FREQ") = ClockFrequency
    /\ k \in {10, 12, 14, 16, 18, 20, 22} =>
          "COVER_HIGH_WR" \in DOMAIN motion /\ motion["COVER_HIGH_WR"] = ResetOps[k].word
    /\ k >= 13 => IhasRun
    /\ k >= 15 => Powered

\* A real-time thread resets chips that are configured: until NRST is low the
\* motion controller keeps its configuration, and the power stage is either
\* off or configured.
MotionReady == /\ PositionMode /\ WaitsForStart /\ SendsCovers
               /\ Register(motion, "CLK_FREQ") = ClockFrequency
DriverReady == Powered /\ IhasRun

Resetting(k) ==
    /\ ChipsAfter(k)
    /\ k < 4 => MotionReady
    /\ k < 2 => DriverReady
    /\ k \in {2, 3} => ~Powered \/ DriverReady

RtPhase ==
    \/ todo["rt"] = <<>> /\ Resetting(0)
    \/ \E v \in {0, 1}, x \in Positions, reset \in BOOLEAN, n \in 0 .. 2 :
          todo["rt"] = Left(Cycle(v, x, reset), n) /\ Resetting(0)
    \/ \E k \in 0 .. 22 : todo["rt"] = Left(drv_reset_and_enable, k) /\ Resetting(k)

RtStage == ("rt" \in threads /\ "handler" \notin threads /\ hspi = "open") => RtPhase

\* The main thread comes to the same from chips in any state.
MainChips(m) ==
    /\ m \in {3, 4} => pins.VCC_IO = 1
    /\ m = 4 => pins.CLK = ClockFrequency
    /\ m >= 5 => ChipsAfter(IF m <= 28 THEN m - 5 ELSE 23)
    /\ m \in {30, 36} => "COVER_HIGH_WR" \in DOMAIN motion /\ motion["COVER_HIGH_WR"][1] = "read"
    /\ m >= 35 => xactual = 0

MainPhase ==
    \/ hspi = "closed" /\ todo["main"] \in Work
    \/ \E x \in Positions, m \in 0 .. 38 :
          todo["main"] = Left(main("CYCLIC", x), m) /\ (hspi = "open" => MainChips(m))

MainStage ==
    ("main" \in threads /\ "rt" \notin threads /\ "handler" \notin threads) => MainPhase

BootInv ==
    /\ "rt" \notin threads => todo["rt"] = <<>>
    /\ MainStage /\ RtStage

\* An operation of drv_reset_and_enable takes the chips to the next stage.
LEMMA ReadStage ==
  ASSUME ChipsAfter(0), Effect(ResetOps[1])
  PROVE  ChipsAfter(1)' /\ UNCHANGED <<motion, driver>>
<1>1. UNCHANGED <<pins, motion, driver, ramp, xactual>> BY EffectOfRead DEF ResetOps
<1> QED BY <1>1 DEF ChipsAfter

LEMMA PinStage ==
  ASSUME TypeInv, NEW k \in 1 .. 4, ChipsAfter(k), Effect(ResetOps[k + 1])
  PROVE  /\ ChipsAfter(k + 1)'
         /\ k # 3 => motion' = motion
         /\ k # 1 => driver' = driver
         /\ driver' \in {driver, NoRegisters}
<1> DEFINE pin == IF k < 3 THEN "VCC_IO" ELSE "NRST"
           level == IF k \in {1, 3} THEN 0 ELSE 1
<1>1. ResetOps[k + 1] = PinOp(pin, level)
  <2>1. k = 1 \/ k = 2 \/ k = 3 \/ k = 4 OBVIOUS
  <2> QED BY <2>1 DEF ResetOps
<1>2. SetPin(pin, level) BY <1>1, EffectOfPin
<1>3. /\ pins'.CLK = pins.CLK
      /\ pins'.VCC_IO = (IF pin = "VCC_IO" THEN level ELSE pins.VCC_IO)
      /\ pins'.NRST = (IF pin = "NRST" THEN level ELSE pins.NRST)
  BY <1>2 DEF SetPin, TypeInv
<1>4. ramp' = IF k = 3 THEN Still ELSE ramp BY <1>2 DEF SetPin
<1>5. k + 1 >= 4 => ramp'["VMAX"] = 0 BY <1>4 DEF Still, RampRegisters, ChipsAfter
<1>6. /\ k # 3 => motion' = motion
      /\ k # 1 => driver' = driver
      /\ driver' \in {driver, NoRegisters}
  BY <1>2 DEF SetPin
<1> QED BY <1>3, <1>5, <1>6 DEF ChipsAfter

LEMMA MotionStage ==
  ASSUME NEW k \in 5 .. 8, ChipsAfter(k), hspi = "open", Effect(ResetOps[k + 1])
  PROVE  ChipsAfter(k + 1)'
<1> DEFINE reg == IF k = 5 THEN "START_CONF" ELSE IF k = 6 THEN "SPIOUT_CONF"
                  ELSE IF k = 7 THEN "RAMPMODE" ELSE "CLK_FREQ"
           word == IF k = 5 THEN StartWord ELSE IF k = 6 THEN SpiOutWord
                   ELSE IF k = 7 THEN PositionWord ELSE ClockFrequency
<1>1. ResetOps[k + 1] = WriteOp(reg, word)
  <2>1. k = 5 \/ k = 6 \/ k = 7 \/ k = 8 OBVIOUS
  <2> QED BY <2>1 DEF ResetOps
<1>2. Obey(reg, word) BY <1>1, EffectOfWrite DEF ChipsAfter
<1>3. /\ UNCHANGED <<pins, driver, ramp, xactual>>
      /\ \A r : Register(motion', r) = IF r = reg THEN word ELSE Register(motion, r)
  <2>1. reg \notin {"XACTUAL", "COVER_LOW_WR", "VMAX", "X_TARGET"} OBVIOUS
  <2> HIDE DEF reg, word
  <2> QED BY <1>2, <2>1, OwnWrite
<1>4. /\ k >= 5 => WaitsForStart'
      /\ k >= 6 => SendsCovers'
      /\ k >= 7 => PositionMode'
      /\ k >= 8 => Register(motion', "CLK_FREQ") = ClockFrequency
  BY <1>3, WordFields DEF ChipsAfter, WaitsForStart, SendsCovers, PositionMode
<1> QED BY <1>3, <1>4 DEF ChipsAfter

\* The covers: the upper register of one at even stages, the lower at odd ones.
CoverOrder == <<"GCONF", "IHOLD_IRUN", "CHOPCONF", "COOLCONF", "TPOWERDOWN", "TPWMTHRS",
                "TCOOLTHRS">>
CoverWords == <<GlobalWord, CurrentWord, ChopWord, CoolWord, PowerDownWord, PwmWord, SwitchWord>>

LEMMA CoverOp ==
  ASSUME NEW j \in 1 .. 7
  PROVE  /\ ResetOps[2 * j + 8] = WriteOp("COVER_HIGH_WR", <<"write", CoverOrder[j]>>)
         /\ ResetOps[2 * j + 8].word = <<"write", CoverOrder[j]>>
         /\ ResetOps[2 * j + 9] = WriteOp("COVER_LOW_WR", CoverWords[j])
<1>1. j = 1 \/ j = 2 \/ j = 3 \/ j = 4 \/ j = 5 \/ j = 6 \/ j = 7 OBVIOUS
<1>2. /\ ResetOps[2 * j + 8] = WriteOp("COVER_HIGH_WR", <<"write", CoverOrder[j]>>)
      /\ ResetOps[2 * j + 9] = WriteOp("COVER_LOW_WR", CoverWords[j])
  BY <1>1 DEF ResetOps, CoverOrder, CoverWords
<1> QED BY <1>2 DEF WriteOp

LEMMA CoverHighStage ==
  ASSUME NEW j \in 1 .. 7, ChipsAfter(2 * j + 7), hspi = "open", Effect(ResetOps[2 * j + 8])
  PROVE  ChipsAfter(2 * j + 8)'
<1> DEFINE word == <<"write", CoverOrder[j]>>
<1>1. Obey("COVER_HIGH_WR", word) BY CoverOp, EffectOfWrite DEF ChipsAfter
<1> HIDE DEF word
<1>2. /\ UNCHANGED <<pins, driver, ramp, xactual>>
      /\ \A r : r # "COVER_HIGH_WR" => Register(motion', r) = Register(motion, r)
      /\ "COVER_HIGH_WR" \in DOMAIN motion' /\ motion'["COVER_HIGH_WR"] = word
  BY <1>1, OwnWrite
<1>3. WaitsForStart' /\ SendsCovers' /\ PositionMode'
      /\ Register(motion', "CLK_FREQ") = ClockFrequency
  BY <1>2 DEF ChipsAfter, WaitsForStart, SendsCovers, PositionMode
<1>4. word = ResetOps[2 * j + 8].word BY CoverOp DEF word
<1>5. (2 * j + 8 >= 13 => IhasRun') /\ (2 * j + 8 >= 15 => Powered')
  BY <1>2 DEF ChipsAfter, IhasRun, Powered
<1> QED BY <1>2, <1>3, <1>4, <1>5 DEF ChipsAfter

LEMMA CoverLowStage ==
  ASSUME NEW j \in 1 .. 7, ChipsAfter(2 * j + 8), hspi = "open", Effect(ResetOps[2 * j + 9])
  PROVE  ChipsAfter(2 * j + 9)'
<1> DEFINE reg == CoverOrder[j]
           word == CoverWords[j]
<1>1. Obey("COVER_LOW_WR", word) BY CoverOp, EffectOfWrite DEF ChipsAfter
<1>2. "COVER_HIGH_WR" \in DOMAIN motion /\ motion["COVER_HIGH_WR"] = <<"write", reg>>
  <2>1. 2 * j + 8 \in {10, 12, 14, 16, 18, 20, 22} OBVIOUS
  <2> QED BY <2>1, CoverOp DEF ChipsAfter
<1>3. SendsCovers /\ pins.VCC_IO = 1 BY DEF ChipsAfter
<1>4. /\ UNCHANGED <<pins, motion, ramp, xactual>>
      /\ \A r : Register(driver', r) = IF r = reg THEN word ELSE Register(driver, r)
  <2> HIDE DEF reg, word
  <2> QED BY <1>1, <1>2, <1>3, CoverSent
<1>5. /\ reg = "IHOLD_IRUN" <=> j = 2
      /\ reg = "CHOPCONF" <=> j = 3
      /\ j = 2 => word = CurrentWord
      /\ j = 3 => word = ChopWord
  BY DEF CoverOrder, CoverWords
<1> HIDE DEF reg, word
<1>6. j >= 2 => IhasRun' BY <1>4, <1>5, WordFields DEF IhasRun, ChipsAfter
<1>7. j >= 3 => Powered' BY <1>4, <1>5, WordFields DEF Powered, ChipsAfter
<1>8. WaitsForStart' /\ SendsCovers' /\ PositionMode'
      /\ Register(motion', "CLK_FREQ") = ClockFrequency
  BY <1>4 DEF ChipsAfter, WaitsForStart, SendsCovers, PositionMode
<1>9. 2 * j + 9 \notin {10, 12, 14, 16, 18, 20, 22} OBVIOUS
<1> QED BY <1>4, <1>6, <1>7, <1>8, <1>9 DEF ChipsAfter

LEMMA ResetStage ==
  ASSUME TypeInv, hspi = "open", NEW k \in 0 .. 22, ChipsAfter(k), Effect(ResetOps[k + 1])
  PROVE  ChipsAfter(k + 1)'
<1>1. CASE k = 0 BY <1>1, ReadStage
<1>2. CASE k \in 1 .. 4 BY <1>2, PinStage
<1>3. CASE k \in 5 .. 8 BY <1>3, MotionStage
<1>4. CASE k \in 9 .. 22
  <2>1. PICK j \in 1 .. 7 : k = 2 * j + 7 \/ k = 2 * j + 8 BY <1>4
  <2>2. CASE k = 2 * j + 7
    <3>1. k + 1 = 2 * j + 8 BY <2>2
    <3> QED BY <2>2, <3>1, CoverHighStage
  <2>3. CASE k = 2 * j + 8
    <3>1. k + 1 = 2 * j + 9 BY <2>3
    <3> QED BY <2>3, <3>1, CoverLowStage
  <2> QED BY <2>1, <2>2, <2>3
<1> QED BY <1>1, <1>2, <1>3, <1>4

\* So a reset from the real-time thread goes on from stage to stage and ends
\* where it began.
LEMMA ResettingGoesOn ==
  ASSUME TypeInv, hspi = "open", NEW k \in 0 .. 22, Resetting(k), Effect(ResetOps[k + 1])
  PROVE  Resetting(k + 1)'
<1>1. ChipsAfter(k + 1)' BY ResetStage DEF Resetting
<1>2. CASE k = 0
  <2>1. UNCHANGED <<motion, driver>> BY <1>2, ReadStage DEF Resetting
  <2> QED BY <1>1, <1>2, <2>1
          DEF Resetting, MotionReady, DriverReady, PositionMode, WaitsForStart, SendsCovers,
              Powered, IhasRun
<1>3. CASE k \in 1 .. 2
  <2>1. /\ motion' = motion /\ driver' \in {driver, NoRegisters}
        /\ k = 2 => driver' = driver
    BY <1>3, PinStage DEF Resetting
  <2>2. MotionReady'
    BY <1>3, <2>1 DEF Resetting, MotionReady, PositionMode, WaitsForStart, SendsCovers
  <2>3. driver' = NoRegisters => ~Powered'
    BY DEF Powered, Register, NoRegisters, Field, Zero
  <2>4. ~Powered' \/ DriverReady'
    BY <1>3, <2>1, <2>3 DEF Resetting, DriverReady, Powered, IhasRun
  <2> QED BY <1>1, <1>3, <2>2, <2>4 DEF Resetting
<1>4. CASE k \in 3 .. 22 BY <1>1, <1>4 DEF Resetting
<1> QED BY <1>2, <1>3, <1>4

LEMMA ResetDone == ChipsAfter(23) => Resetting(0)
<1> SUFFICES ASSUME ChipsAfter(23) PROVE Resetting(0) OBVIOUS
<1>1. MotionReady /\ DriverReady BY DEF ChipsAfter, MotionReady, DriverReady
<1>2. ChipsAfter(0) BY DEF ChipsAfter
<1> QED BY <1>1, <1>2 DEF Resetting

\* Speed, target and START pulse of a bus cycle leave the configuration alone.
LEMMA CycleStage ==
  ASSUME NEW v \in {0, 1}, NEW x \in Positions, NEW n \in 0 .. 2,
         hspi = "open", Resetting(0), Effect(CycleOps(v, x)[n + 1])
  PROVE  Resetting(0)'
<1>1. /\ UNCHANGED <<pins, driver>>
      /\ \A r : r \notin RampRegisters => Register(motion', r) = Register(motion, r)
  <2>1. CASE n = 0 \/ n = 1
    <3> DEFINE reg == IF n = 0 THEN "VMAX" ELSE "X_TARGET"
               word == IF n = 0 THEN v ELSE x
    <3>1. CycleOps(v, x)[n + 1] = WriteOp(reg, word) BY <2>1 DEF CycleOps
    <3>2. Obey(reg, word) BY <3>1, EffectOfWrite DEF Resetting, ChipsAfter
    <3>3. /\ UNCHANGED <<pins, driver>> /\ motion' = Put(motion, reg, word)
          /\ reg \in RampRegisters
      BY <3>2 DEF Obey, RampRegisters
    <3> HIDE DEF reg, word
    <3> QED BY <3>3, RegisterPut
  <2>2. CASE n = 2
    <3>1. CycleOps(v, x)[n + 1] = Do("trigger") BY <2>2 DEF CycleOps
    <3>2. drv_send_start_trigger BY <3>1 DEF Effect, Do
    <3> QED BY <3>2 DEF drv_send_start_trigger
  <2> QED BY <2>1, <2>2
<1>2. ChipsAfter(0)' BY <1>1 DEF Resetting, ChipsAfter
<1>3. /\ Register(motion', "START_CONF") = Register(motion, "START_CONF")
      /\ Register(motion', "SPIOUT_CONF") = Register(motion, "SPIOUT_CONF")
      /\ Register(motion', "RAMPMODE") = Register(motion, "RAMPMODE")
      /\ Register(motion', "CLK_FREQ") = Register(motion, "CLK_FREQ")
  BY <1>1 DEF RampRegisters
<1>4. MotionReady'
  BY <1>3 DEF Resetting, MotionReady, PositionMode, WaitsForStart, SendsCovers
<1>5. DriverReady' BY <1>1 DEF Resetting, DriverReady, Powered, IhasRun
<1> QED BY <1>2, <1>4, <1>5 DEF Resetting

\* The main thread sets the pins ...
LEMMA SetUpStage ==
  ASSUME TypeInv, NEW m \in 2 .. 4, MainChips(m), Effect(SetUpOps[m + 1])
  PROVE  MainChips(m + 1)'
<1> DEFINE pin == IF m = 2 THEN "VCC_IO" ELSE IF m = 3 THEN "CLK" ELSE "NRST"
           level == IF m = 3 THEN ClockFrequency ELSE 1
<1>1. SetUpOps[m + 1] = PinOp(pin, level)
  <2>1. m = 2 \/ m = 3 \/ m = 4 OBVIOUS
  <2> QED BY <2>1 DEF SetUpOps
<1>2. SetPin(pin, level) BY <1>1, EffectOfPin
<1>3. /\ pins'.CLK = (IF pin = "CLK" THEN level ELSE pins.CLK)
      /\ pins'.VCC_IO = (IF pin = "VCC_IO" THEN level ELSE pins.VCC_IO)
      /\ pins'.NRST = (IF pin = "NRST" THEN level ELSE pins.NRST)
  BY <1>2 DEF SetPin, TypeInv
<1>4. CASE m # 4 BY <1>3, <1>4 DEF MainChips
<1>5. CASE m = 4
  <2>1. ChipsAfter(0)' BY <1>3, <1>5 DEF MainChips, ChipsAfter
  <2> QED BY <1>5, <2>1 DEF MainChips
<1> QED BY <1>4, <1>5

\* ... and checks the chips when it has configured them.
LEMMA CheckStage ==
  ASSUME NEW x \in Positions, NEW i \in 0 .. 9, MainChips(i + 28),
         hspi = "open", Effect(CheckOps(x)[i + 1])
  PROVE  MainChips(i + 29)'
<1>1. ChipsAfter(23) BY DEF MainChips
<1>2. i \in {2, 8} => motion["COVER_HIGH_WR"][1] = "read" BY DEF MainChips
<1>3. i >= 7 => xactual = 0 BY DEF MainChips
<1>4. /\ UNCHANGED <<pins, driver, ramp>>
      /\ \A r : r # "COVER_HIGH_WR" => Register(motion', r) = Register(motion, r)
      /\ i \in {1, 7} => "COVER_HIGH_WR" \in DOMAIN motion' /\ motion'["COVER_HIGH_WR"][1] = "read"
      /\ i >= 6 => xactual' = 0
  <2>1. CASE i \in {0, 3, 5, 9}
    <3>1. CheckOps(x)[i + 1] = Do("read") BY <2>1 DEF CheckOps
    <3> QED BY <2>1, <3>1, <1>3, EffectOfRead
  <2>2. CASE i \in {1, 7}
    <3> DEFINE reg == IF i = 1 THEN "INP_OUT" ELSE "DRVSTATUS"
    <3>1. CheckOps(x)[i + 1] = WriteOp("COVER_HIGH_WR", <<"read", reg>>)
      BY <2>2 DEF CheckOps
    <3> HIDE DEF reg
    <3>2. Obey("COVER_HIGH_WR", <<"read", reg>>) BY <1>1, <3>1, EffectOfWrite DEF ChipsAfter
    <3> QED BY <2>2, <3>2, <1>3, OwnWrite
  <2>3. CASE i \in {2, 8}
    <3>1. CheckOps(x)[i + 1] = WriteOp("COVER_LOW_WR", Zero) BY <2>3 DEF CheckOps
    <3>2. Obey("COVER_LOW_WR", Zero) BY <1>1, <3>1, EffectOfWrite DEF ChipsAfter
    <3>3. UNCHANGED <<pins, motion, driver, ramp, xactual>>
      BY <2>3, <3>2, <1>2, CoverReadSent
    <3> QED BY <2>3, <3>3, <1>3
  <2>4. CASE i \in {4, 6}
    <3> DEFINE word == IF i = 4 THEN x ELSE 0
    <3>1. CheckOps(x)[i + 1] = WriteOp("XACTUAL", word) BY <2>4 DEF CheckOps
    <3>2. Obey("XACTUAL", word) BY <1>1, <3>1, EffectOfWrite DEF ChipsAfter
    <3> QED BY <2>4, <3>2 DEF Obey, RampRegisters
  <2> QED BY <2>1, <2>2, <2>3, <2>4
<1>5. ChipsAfter(23)'
  BY <1>1, <1>4
     DEF ChipsAfter, WaitsForStart, SendsCovers, PositionMode, IhasRun, Powered
<1> QED BY <1>4, <1>5 DEF MainChips

LEMMA MainChipsGoOn ==
  ASSUME TypeInv, NEW x \in Positions, NEW m \in 2 .. 37, MainChips(m),
         hspi = "open", Effect(main("CYCLIC", x)[m + 1])
  PROVE  MainChips(m + 1)'
<1>1. CASE m \in 2 .. 4
  <2>1. main("CYCLIC", x)[m + 1] = SetUpOps[m + 1] BY <1>1, CyclicProgram
  <2> QED BY <1>1, <2>1, SetUpStage
<1>2. CASE m \in 5 .. 27
  <2>1. main("CYCLIC", x)[m + 1] = ResetOps[m - 4]
    <3>1. main("CYCLIC", x)[5 + (m - 4)] = ResetOps[m - 4] BY <1>2, CyclicProgram
    <3>2. 5 + (m - 4) = m + 1 OBVIOUS
    <3> QED BY <3>1, <3>2, Zenon
  <2>2. PICK k \in 0 .. 22 : m - 5 = k /\ m - 4 = k + 1 BY <1>2
  <2>3. ChipsAfter(k) BY <1>2, <2>2 DEF MainChips
  <2>4. Effect(ResetOps[k + 1]) BY <2>1, <2>2
  <2>5. ChipsAfter(k + 1)' BY <2>2, <2>3, <2>4, ResetStage
  <2>6. (IF m + 1 <= 28 THEN m + 1 - 5 ELSE 23) = k + 1 BY <1>2, <2>2
  <2>7. ChipsAfter(IF m + 1 <= 28 THEN m + 1 - 5 ELSE 23)' BY <2>5, <2>6
  <2> QED BY <1>2, <2>7 DEF MainChips
<1>3. CASE m \in 28 .. 37
  <2>1. PICK i \in 0 .. 9 : m = i + 28 BY <1>3
  <2>2. main("CYCLIC", x)[m + 1] = CheckOps(x)[i + 1]
    <3>1. main("CYCLIC", x)[28 + (i + 1)] = CheckOps(x)[i + 1] BY CyclicProgram
    <3>2. 28 + (i + 1) = m + 1 BY <2>1
    <3> QED BY <3>1, <3>2, Zenon
  <2>3. m + 1 = i + 29 BY <2>1
  <2> QED BY <2>1, <2>2, <2>3, CheckStage
<1> QED BY <1>1, <1>2, <1>3

\* What a thread comes to next in each of the programs.
LEMMA MainGoesOn ==
  ASSUME NEW x \in Positions, NEW m \in 0 .. 38
  PROVE  /\ Left(main("CYCLIC", x), 0) = main("CYCLIC", x)
         /\ Left(main("CYCLIC", x), m) # <<>>
         /\ Head(Left(main("CYCLIC", x), m)) = main("CYCLIC", x)[m + 1]
         /\ Tail(Left(main("CYCLIC", x), m)) = Left(main("CYCLIC", x), m + 1)
         /\ m = 0 => main("CYCLIC", x)[m + 1].do = "catch_signals"
         /\ m = 1 => main("CYCLIC", x)[m + 1].do = "open_spi"
         /\ m \in 2 .. 37 => main("CYCLIC", x)[m + 1].do \in {"read", "write", "pin"}
         /\ m = 38 => main("CYCLIC", x)[m + 1].do = "start_thread"
<1>1. main("CYCLIC", x) \in Seq(Alphabet) /\ Len(main("CYCLIC", x)) = 39
  BY CyclicProgram DEF ThreadWork
<1> DEFINE s == main("CYCLIC", x)
<1> HIDE DEF s
<1>2. s \in Seq(Alphabet) /\ Len(s) = 39 BY <1>1 DEF s
<1>3. m \in 0 .. Len(s) /\ m < Len(s) BY <1>2
<1>4. /\ Left(s, 0) = s /\ Left(s, m) # <<>>
      /\ Head(Left(s, m)) = s[m + 1] /\ Tail(Left(s, m)) = Left(s, m + 1)
  BY <1>2, <1>3, LeftStep
<1>5. CASE m \in 0 .. 4
  <2>1. s[m + 1] = SetUpOps[m + 1] BY <1>5, CyclicProgram DEF s
  <2>2. m = 0 \/ m = 1 \/ m = 2 \/ m = 3 \/ m = 4 BY <1>5
  <2>3. /\ m = 0 => SetUpOps[m + 1].do = "catch_signals"
        /\ m = 1 => SetUpOps[m + 1].do = "open_spi"
        /\ m \in 2 .. 4 => SetUpOps[m + 1].do = "pin"
    BY <2>2 DEF SetUpOps, Do, PinOp
  <2> QED BY <1>4, <1>5, <2>1, <2>3 DEF s
<1>6. CASE m \in 5 .. 27
  <2>1. PICK i \in 1 .. 23 : m + 1 = 5 + i BY <1>6
  <2>2. s[m + 1] = ResetOps[i] BY <2>1, CyclicProgram DEF s
  <2>3. ResetOps[i].do \in {"read", "write", "pin"} BY DEF ResetOps, Do, PinOp, WriteOp
  <2> QED BY <1>4, <1>6, <2>2, <2>3 DEF s
<1>7. CASE m \in 28 .. 38
  <2>1. PICK i \in 1 .. 11 : m + 1 = 28 + i BY <1>7
  <2>2. s[m + 1] = CheckOps(x)[i] BY <2>1, CyclicProgram DEF s
  <2>3. /\ i < 11 => CheckOps(x)[i].do \in {"read", "write"}
        /\ i = 11 => CheckOps(x)[i].do = "start_thread"
    BY DEF CheckOps, Do, WriteOp
  <2> QED BY <1>4, <1>7, <2>1, <2>2, <2>3 DEF s
<1> QED BY <1>5, <1>6, <1>7

LEMMA CycleGoesOn ==
  ASSUME NEW v \in {0, 1}, NEW x \in Positions, NEW reset \in BOOLEAN, NEW n \in 0 .. 2
  PROVE  /\ Left(Cycle(v, x, reset), 0) = Cycle(v, x, reset)
         /\ Left(Cycle(v, x, reset), n) # <<>>
         /\ Head(Left(Cycle(v, x, reset), n)) = CycleOps(v, x)[n + 1]
         /\ n < 2 => Tail(Left(Cycle(v, x, reset), n)) = Left(Cycle(v, x, reset), n + 1)
         /\ n = 2 /\ reset => Tail(Left(Cycle(v, x, reset), n)) = Left(drv_reset_and_enable, 0)
         /\ n = 2 /\ ~reset => Tail(Left(Cycle(v, x, reset), n)) = <<>>
<1> DEFINE s == Cycle(v, x, reset)
<1> HIDE DEF s
<1>1. /\ s \in Seq(Hardware) /\ Len(s) = 3 + (IF reset THEN 23 ELSE 0)
      /\ \A i \in 1 .. 3 : s[i] = CycleOps(v, x)[i]
      /\ SubSeq(s, 4, Len(s)) = IF reset THEN drv_reset_and_enable ELSE <<>>
  BY CycleProgram DEF Work, s
<1>2. n \in 0 .. Len(s) /\ n < Len(s) BY <1>1
<1>3. /\ Left(s, 0) = s /\ Left(s, n) # <<>>
      /\ Head(Left(s, n)) = s[n + 1] /\ Tail(Left(s, n)) = Left(s, n + 1)
  BY <1>1, <1>2, LeftStep
<1>4. s[n + 1] = CycleOps(v, x)[n + 1]
  <2>1. n + 1 \in 1 .. 3 OBVIOUS
  <2> QED BY <1>1, <2>1, Zenon
<1>5. Left(s, 3) = SubSeq(s, 4, Len(s)) BY DEF Left
<1>6. Left(drv_reset_and_enable, 0) = drv_reset_and_enable
  <2>1. drv_reset_and_enable \in Seq(Hardware) /\ 0 \in 0 .. Len(drv_reset_and_enable)
    BY ResetProgram DEF Work
  <2> QED BY <2>1, LeftStep
<1>7. /\ n = 2 /\ reset => Left(s, n + 1) = Left(drv_reset_and_enable, 0)
      /\ n = 2 /\ ~reset => Left(s, n + 1) = <<>>
  <2>1. n = 2 => n + 1 = 3 OBVIOUS
  <2> QED BY <1>1, <1>5, <1>6, <2>1, Zenon
<1> QED BY <1>3, <1>4, <1>7, Zenon DEF s

LEMMA ResetGoesOn ==
  ASSUME NEW k \in 0 .. 22
  PROVE  /\ Left(drv_reset_and_enable, k) # <<>>
         /\ Head(Left(drv_reset_and_enable, k)) = ResetOps[k + 1]
         /\ k < 22 => Tail(Left(drv_reset_and_enable, k)) = Left(drv_reset_and_enable, k + 1)
         /\ k = 22 => Tail(Left(drv_reset_and_enable, k)) = <<>>
         /\ ResetOps[k + 1].do \in {"read", "write", "pin"}
         /\ ResetOps[k + 1].do = "write" => ResetOps[k + 1].reg \notin RampRegisters
<1> DEFINE s == drv_reset_and_enable
<1> HIDE DEF s
<1>1. /\ s \in Seq(Hardware) /\ Len(s) = 23 /\ \A i \in 1 .. 23 : s[i] = ResetOps[i]
  BY ResetProgram DEF Work, s
<1>2. k \in 0 .. Len(s) /\ k < Len(s) /\ Len(s) \in 0 .. Len(s) BY <1>1
<1>3. /\ Left(s, k) # <<>> /\ Left(s, Len(s)) = <<>>
      /\ Head(Left(s, k)) = s[k + 1] /\ Tail(Left(s, k)) = Left(s, k + 1)
  BY <1>1, <1>2, LeftStep
<1>4. s[k + 1] = ResetOps[k + 1]
  <2>1. k + 1 \in 1 .. 23 OBVIOUS
  <2> QED BY <1>1, <2>1, Zenon
<1>5. k = 22 => Left(s, k + 1) = <<>>
  <2>1. k = 22 => k + 1 = Len(s) BY <1>1
  <2> QED BY <1>3, <2>1, Zenon
<1>6. /\ ResetOps[k + 1].do \in {"read", "write", "pin"}
      /\ ResetOps[k + 1].do = "write" => ResetOps[k + 1].reg \notin RampRegisters
  <2>1. PICK i \in 1 .. 23 : k + 1 = i OBVIOUS
  <2>2. /\ ResetOps[i].do \in {"read", "write", "pin"}
        /\ ResetOps[i].do = "write" => ResetOps[i].reg \notin RampRegisters
    BY DEF ResetOps, Do, PinOp, WriteOp, RampRegisters
  <2> QED BY <2>1, <2>2
<1> QED BY <1>3, <1>4, <1>5, <1>6 DEF s
-----------------------------------------------------------------------------
LEMMA BootInvInit == Init => BootInv
BY DEF Init, Threads, BootInv, MainStage, RtStage

LEMMA RtOperates ==
  ASSUME TypeInv, RtStage, Operate("rt")
  PROVE  RtStage'
<1> SUFFICES ASSUME ("rt" \in threads /\ "handler" \notin threads /\ hspi = "open")'
             PROVE  RtPhase'
  BY DEF RtStage
<1>1. /\ "rt" \in threads /\ "handler" \notin threads /\ hspi = "open"
      /\ todo["rt"] # <<>> /\ Effect(Head(todo["rt"]))
      /\ todo'["rt"] = Tail(todo["rt"])
  BY DEF Operate, Does, TypeInv, Threads
<1>2. ASSUME NEW v \in {0, 1}, NEW x \in Positions, NEW reset \in BOOLEAN, NEW n \in 0 .. 2,
             todo["rt"] = Left(Cycle(v, x, reset), n), Resetting(0)
      PROVE  RtPhase'
  <2>a. Effect(CycleOps(v, x)[n + 1])
    <3>1. Head(todo["rt"]) = CycleOps(v, x)[n + 1] BY <1>2, CycleGoesOn
    <3> QED BY <1>1, <3>1, Zenon
  <2>1. Resetting(0)' BY <1>1, <1>2, <2>a, CycleStage
  <2>2. CASE n < 2
    <3>1. todo'["rt"] = Left(Cycle(v, x, reset), n + 1) /\ n + 1 \in 0 .. 2
      BY <1>1, <1>2, <2>2, CycleGoesOn
    <3> QED BY <2>1, <3>1 DEF RtPhase
  <2>3. CASE n = 2 /\ reset
    <3>1. Tail(Left(Cycle(v, x, reset), n)) = Left(drv_reset_and_enable, 0)
      BY <2>3, CycleGoesOn, Zenon
    <3>2. todo'["rt"] = Left(drv_reset_and_enable, 0) BY <1>1, <1>2, <3>1
    <3> QED BY <2>1, <3>2 DEF RtPhase
  <2>4. CASE n = 2 /\ ~reset
    <3>1. todo'["rt"] = <<>> BY <1>1, <1>2, <2>4, CycleGoesOn
    <3> QED BY <2>1, <3>1 DEF RtPhase
  <2> QED BY <2>2, <2>3, <2>4
<1>3. ASSUME NEW k \in 0 .. 22, todo["rt"] = Left(drv_reset_and_enable, k), Resetting(k)
      PROVE  RtPhase'
  <2>a. Effect(ResetOps[k + 1])
    <3>1. Head(todo["rt"]) = ResetOps[k + 1] BY <1>3, ResetGoesOn
    <3> QED BY <1>1, <3>1, Zenon
  <2>1. Resetting(k + 1)' BY <1>1, <1>3, <2>a, ResettingGoesOn
  <2>2. CASE k < 22
    <3>1. todo'["rt"] = Left(drv_reset_and_enable, k + 1) BY <1>1, <1>3, <2>2, ResetGoesOn
    <3>2. k + 1 \in 0 .. 22 BY <2>2
    <3> QED BY <2>1, <3>1, <3>2 DEF RtPhase
  <2>3. CASE k = 22
    <3>1. todo'["rt"] = <<>> BY <1>1, <1>3, <2>3, ResetGoesOn
    <3>2. ChipsAfter(23)' BY <2>1, <2>3 DEF Resetting
    <3>3. Resetting(0)' BY <3>2, ResetDone, PTL
    <3> QED BY <3>1, <3>3 DEF RtPhase
  <2> QED BY <2>2, <2>3
<1> QED BY <1>1, <1>2, <1>3 DEF RtStage, RtPhase

\* The main thread, whatever it does next: it operates on the hardware or sets
\* itself up, but it does not start the bus cycle.
LEMMA MainGoesOnInPhase ==
  ASSUME TypeInv, MainPhase,
         todo["main"] # <<>>, todo'["main"] = Tail(todo["main"]),
         \/ Head(todo["main"]).do \in {"write", "read", "pin", "trigger"}
            /\ Effect(Head(todo["main"])) /\ hspi' = hspi
         \/ Head(todo["main"]).do = "catch_signals" /\ hspi' = hspi
         \/ Head(todo["main"]).do = "open_spi" /\ hspi' \in {"open", "failed"}
  PROVE  MainPhase'
<1>1. CASE hspi = "closed" /\ todo["main"] \in Work
  <2>1. Head(todo["main"]) \in Hardware /\ Tail(todo["main"]) \in Work
    BY <1>1, HeadTailProperties DEF Work
  <2>2. Head(todo["main"]).do \notin {"catch_signals", "open_spi"}
    BY <2>1 DEF Hardware, WriteOps, PinOps
  <2> QED BY <1>1, <2>1, <2>2 DEF MainPhase
<1>2. ASSUME NEW x \in Positions, NEW m \in 0 .. 38,
             todo["main"] = Left(main("CYCLIC", x), m), hspi = "open" => MainChips(m)
      PROVE  MainPhase'
  <2>1. /\ Head(todo["main"]) = main("CYCLIC", x)[m + 1]
        /\ todo'["main"] = Left(main("CYCLIC", x), m + 1)
    <3>1. /\ Head(Left(main("CYCLIC", x), m)) = main("CYCLIC", x)[m + 1]
          /\ Tail(Left(main("CYCLIC", x), m)) = Left(main("CYCLIC", x), m + 1)
      BY MainGoesOn, Zenon
    <3> QED BY <1>2, <3>1, Zenon
  <2>2. m # 38 /\ m + 1 \in 0 .. 38
    <3>1. m = 38 => Head(todo["main"]).do = "start_thread" BY <2>1, MainGoesOn
    <3>2. m # 38 BY <3>1
    <3> QED BY <3>2
  <2>3. hspi' = "open" => MainChips(m + 1)'
    <3>1. CASE m \in {0, 1} BY <3>1 DEF MainChips
    <3>2. CASE m \in 2 .. 37
      <4>1. Head(todo["main"]).do \in {"read", "write", "pin"} BY <2>1, <3>2, MainGoesOn
      <4>2. Effect(Head(todo["main"])) /\ hspi' = hspi BY <4>1
      <4>3. Effect(main("CYCLIC", x)[m + 1]) BY <2>1, <4>2, Zenon
      <4> QED BY <1>2, <3>2, <4>2, <4>3, MainChipsGoOn
    <3> QED BY <2>2, <3>1, <3>2
  <2> QED BY <2>1, <2>2, <2>3 DEF MainPhase
<1> QED BY <1>1, <1>2 DEF MainPhase

\* The bus cycle is started on chips that are ready for it.
LEMMA MainReady ==
  ASSUME TypeInv, HandlerInv, BootInv, StartThread, hspi = "open"
  PROVE  "rt" \notin threads => /\ Resetting(0) /\ ramp["VMAX"] = 0 /\ xactual = 0
<1> SUFFICES ASSUME "rt" \notin threads
             PROVE  Resetting(0) /\ ramp["VMAX"] = 0 /\ xactual = 0
  OBVIOUS
<1>1. "main" \in threads /\ "main" # interrupted /\ Head(todo["main"]).do = "start_thread"
      /\ todo["main"] # <<>>
  BY DEF StartThread, Does
<1>2. "handler" \notin threads BY <1>1 DEF HandlerInv, TypeInv, Threads
<1>3. MainPhase BY <1>1, <1>2 DEF BootInv, MainStage
<1>4. PICK x \in Positions, m \in 0 .. 38 :
         todo["main"] = Left(main("CYCLIC", x), m) /\ MainChips(m)
  BY <1>3 DEF MainPhase
<1>5. Head(todo["main"]) = main("CYCLIC", x)[m + 1]
  <2>1. Head(Left(main("CYCLIC", x), m)) = main("CYCLIC", x)[m + 1] BY MainGoesOn, Zenon
  <2> QED BY <1>4, <2>1, Zenon
<1>6. m = 38
  <2>1. m \in 0 .. 37 => main("CYCLIC", x)[m + 1].do # "start_thread"
    <3>1. CASE m = 0 BY <3>1, MainGoesOn
    <3>2. CASE m = 1 BY <3>2, MainGoesOn
    <3>3. CASE m \in 2 .. 37 BY <3>3, MainGoesOn
    <3> QED BY <3>1, <3>2, <3>3
  <2> QED BY <1>1, <1>5, <2>1
<1>7. ChipsAfter(23) /\ xactual = 0 BY <1>4, <1>6 DEF MainChips
<1> QED BY <1>7, ResetDone DEF ChipsAfter

LEMMA BootInvStep == TypeInv /\ HandlerInv /\ BootInv /\ [Next]_vars => BootInv'
<1> SUFFICES ASSUME TypeInv, HandlerInv, BootInv, [Next]_vars PROVE BootInv' OBVIOUS
<1>1. ASSUME NEW args \in Arguments, Start(args) PROVE BootInv'
  <2>1. process_command_line(args) \in Programs BY <1>1, ProgramNamed DEF Start
  <2>2. PICK x \in Positions :
           todo' = [todo EXCEPT !["main"] = main(process_command_line(args), x),
                                 !["rt"] = <<>>]
    BY <1>1, Zenon DEF Start
  <2>3. threads' = {"main"} /\ hspi' = "closed" BY <1>1, Zenon DEF Start
  <2>4. /\ todo'["main"] = main(process_command_line(args), x) /\ todo'["rt"] = <<>>
    BY <2>2 DEF TypeInv, Threads
  <2>5. MainPhase'
    <3>1. CASE process_command_line(args) = "CYCLIC"
      <4>1. todo'["main"] = Left(main("CYCLIC", x), 0) BY <2>4, <3>1, MainGoesOn
      <4>2. 0 \in 0 .. 38 /\ hspi' # "open" BY <2>3
      <4> QED BY <4>1, <4>2 DEF MainPhase
    <3>2. CASE process_command_line(args) # "CYCLIC"
      <4>1. todo'["main"] \in Work BY <2>1, <2>4, <3>2, OtherProgramsWork
      <4> QED BY <2>3, <4>1 DEF MainPhase
    <3> QED BY <3>1, <3>2
  <2> QED BY <2>3, <2>4, <2>5 DEF BootInv, MainStage, RtStage
<1>2. ASSUME NEW t \in Threads, Operate(t) PROVE BootInv'
  <2>1. /\ t \in threads /\ todo[t] # <<>> /\ UNCHANGED <<threads, hspi>>
        /\ Head(todo[t]).do \in {"write", "read", "pin", "trigger"} /\ Effect(Head(todo[t]))
        /\ todo'[t] = Tail(todo[t]) /\ \A u \in Threads \ {t} : todo'[u] = todo[u]
    BY <1>2 DEF Operate, Does, TypeInv
  <2>2. CASE t = "main"
    <3>1. "rt" \notin threads BY <2>1, <2>2 DEF HandlerInv
    <3>2. todo'["rt"] = <<>> BY <2>1, <2>2, <3>1 DEF BootInv, Threads
    <3>3. "handler" \notin threads => MainPhase'
      BY <2>1, <2>2, <3>1, MainGoesOnInPhase DEF BootInv, MainStage
    <3> QED BY <2>1, <3>1, <3>2, <3>3 DEF BootInv, MainStage, RtStage
  <2>3. CASE t = "rt"
    <3>1. RtStage' BY <1>2, <2>3, RtOperates DEF BootInv
    <3> QED BY <2>1, <2>3, <3>1 DEF BootInv, MainStage
  <2>4. CASE t = "handler"
    BY <2>1, <2>4 DEF BootInv, MainStage, RtStage, Threads
  <2> QED BY <2>2, <2>3, <2>4 DEF Threads
<1>3. ASSUME NEW t \in Threads, Collide(t) PROVE BootInv'
  <2>1. /\ "handler" \in threads' /\ t \in threads /\ threads' = threads
        /\ \A u \in Threads \ {t, "handler"} : todo'[u] = todo[u]
    BY <1>3 DEF Collide, Does, TypeInv
  <2> QED BY <2>1 DEF BootInv, MainStage, RtStage, Threads
<1>4. ASSUME (\E t \in Threads : Exit(t)) \/ Kill PROVE BootInv'
  <2>1. threads' = {} /\ todo'["rt"] = <<>> BY <1>4 DEF Exit, Kill, Threads
  <2> QED BY <2>1 DEF BootInv, MainStage, RtStage
<1>5. ASSUME CatchSignals \/ OpenSpi PROVE BootInv'
  <2>1. /\ "main" \in threads /\ todo["main"] # <<>> /\ threads' = threads
        /\ todo'["main"] = Tail(todo["main"]) /\ todo'["rt"] = todo["rt"]
        /\ \/ Head(todo["main"]).do = "catch_signals" /\ hspi' = hspi
           \/ Head(todo["main"]).do = "open_spi" /\ hspi' \in {"open", "failed"}
    BY <1>5 DEF CatchSignals, OpenSpi, Does, TypeInv, Threads
  <2>2. "rt" \notin threads BY <2>1 DEF HandlerInv
  <2>3. "handler" \notin threads => MainPhase'
    BY <2>1, <2>2, MainGoesOnInPhase DEF BootInv, MainStage
  <2> QED BY <2>1, <2>2, <2>3 DEF BootInv, MainStage, RtStage
<1>6. ASSUME StartThread PROVE BootInv'
  <2>1. /\ "main" \in threads /\ todo["main"] # <<>> /\ threads' = threads \cup {"rt"}
        /\ UNCHANGED <<hspi, pins, motion, driver, ramp, xactual>>
        /\ todo'["rt"] = todo["rt"]
    BY <1>6 DEF StartThread, Does, chipVars, TypeInv, Threads
  <2>2. "rt" \notin threads BY <2>1 DEF HandlerInv
  <2>3. todo'["rt"] = <<>> BY <2>1, <2>2 DEF BootInv
  <2>4. hspi = "open" => Resetting(0) BY <1>6, <2>2, MainReady
  <2>5. Resetting(0)' = Resetting(0)
    BY <2>1 DEF Resetting, ChipsAfter, MotionReady, DriverReady, PositionMode, WaitsForStart,
                SendsCovers, IhasRun, Powered
  <2> QED BY <2>1, <2>3, <2>4, <2>5 DEF BootInv, MainStage, RtStage, RtPhase
<1>7. ASSUME step_ctrl_main PROVE BootInv'
  <2>1. PICK v \in {0, 1}, x \in Positions, reset \in BOOLEAN :
           todo' = [todo EXCEPT !["rt"] = Cycle(v, x, reset)]
    BY <1>7, Zenon DEF step_ctrl_main, Cycle
  <2>2. /\ "rt" \in threads /\ todo["rt"] = <<>>
        /\ UNCHANGED <<threads, hspi, pins, motion, driver, ramp, xactual>>
    BY <1>7 DEF step_ctrl_main, chipVars
  <2>3. todo'["rt"] = Left(Cycle(v, x, reset), 0)
    BY <2>1, 0 \in 0 .. 2, CycleGoesOn DEF TypeInv, Threads
  <2>4. "handler" \notin threads /\ hspi = "open" => Resetting(0)
    BY <2>2, CycleGoesOn, ResetGoesOn DEF BootInv, RtStage, RtPhase
  <2>5. Resetting(0)' = Resetting(0)
    BY <2>2 DEF Resetting, ChipsAfter, MotionReady, DriverReady, PositionMode, WaitsForStart,
                SendsCovers, IhasRun, Powered
  <2> QED BY <2>2, <2>3, <2>4, <2>5, 0 \in 0 .. 2 DEF BootInv, MainStage, RtStage, RtPhase
<1>8. ASSUME gpio_terminate_pigpio PROVE BootInv'
  <2>1. /\ threads' = threads \cup {"handler"} /\ todo'["rt"] = todo["rt"]
    BY <1>8 DEF gpio_terminate_pigpio, TypeInv, Threads
  <2> QED BY <2>1 DEF BootInv, MainStage, RtStage
<1>9. ASSUME ChipStep PROVE BootInv'
  <2>1. /\ Counts /\ UNCHANGED <<threads, todo, hspi, pins, motion, driver, ramp>>
    BY <1>9 DEF ChipStep, programVars
  <2>2. \A k \in 0 .. 23 : ChipsAfter(k)' = ChipsAfter(k)
    BY <2>1 DEF ChipsAfter, PositionMode, WaitsForStart, SendsCovers, IhasRun, Powered
  <2>3. \A k \in 0 .. 22 : Resetting(k)' = Resetting(k)
    BY <2>1, <2>2 DEF Resetting, MotionReady, DriverReady, PositionMode, WaitsForStart,
                      SendsCovers, IhasRun, Powered
  <2>4. \A m \in 0 .. 38 : MainChips(m) => MainChips(m)'
    <3> SUFFICES ASSUME NEW m \in 0 .. 38, MainChips(m) PROVE MainChips(m)' OBVIOUS
    <3>1. m >= 35 => FALSE
      <4> SUFFICES ASSUME m >= 35 PROVE FALSE OBVIOUS
      <4>1. m >= 29 => ChipsAfter(23) BY DEF MainChips
      <4> QED BY <2>1, <4>1 DEF ChipsAfter, Counts
    <3>2. CASE m < 5 BY <2>1, <3>2 DEF MainChips
    <3>3. CASE m >= 5
      <4>1. (IF m <= 28 THEN m - 5 ELSE 23) \in 0 .. 23 BY <3>3
      <4>2. ChipsAfter(IF m <= 28 THEN m - 5 ELSE 23)' = ChipsAfter(IF m <= 28 THEN m - 5 ELSE 23)
        BY <2>2, <4>1
      <4> QED BY <2>1, <3>1, <3>3, <4>2 DEF MainChips
    <3> QED BY <3>2, <3>3
  <2>5. MainPhase => MainPhase' BY <2>1, <2>4 DEF MainPhase
  <2>6. RtPhase => RtPhase' BY <2>1, <2>3 DEF RtPhase
  <2> QED BY <2>1, <2>5, <2>6 DEF BootInv, MainStage, RtStage
<1>10. ASSUME UNCHANGED vars PROVE BootInv'
  <2>1. UNCHANGED <<threads, todo, hspi, pins, motion, driver, ramp, xactual>>
    BY <1>10 DEF vars, programVars, chipVars
  <2>2. \A k \in 0 .. 23 : ChipsAfter(k)' = ChipsAfter(k)
    BY <2>1 DEF ChipsAfter, PositionMode, WaitsForStart, SendsCovers, IhasRun, Powered
  <2>3. \A k \in 0 .. 22 : Resetting(k)' = Resetting(k)
    BY <2>1, <2>2 DEF Resetting, MotionReady, DriverReady, PositionMode, WaitsForStart,
                      SendsCovers, IhasRun, Powered
  <2>4. \A m \in 0 .. 38 : MainChips(m) => MainChips(m)' BY <2>1, <2>2 DEF MainChips
  <2>5. MainPhase => MainPhase' BY <2>1, <2>4 DEF MainPhase
  <2>6. RtPhase => RtPhase' BY <2>1, <2>3 DEF RtPhase
  <2> QED BY <2>1, <2>5, <2>6 DEF BootInv, MainStage, RtStage
<1> QED BY <1>1, <1>2, <1>3, <1>4, <1>5, <1>6, <1>7, <1>8, <1>9, <1>10 DEF Next
-----------------------------------------------------------------------------
\* What the invariant says of the three properties.
LEMMA ReadyIsConfigured == Resetting(0) => Configured
BY DEF Resetting, ChipsAfter, MotionReady, DriverReady, IhasRun, Configured

LEMMA BootInvCycles == BootInv => CyclesOnConfigured
<1> SUFFICES ASSUME BootInv, Writes("rt", RampRegisters), "handler" \notin threads, hspi = "open"
             PROVE  Configured
  BY DEF CyclesOnConfigured
<1>1. /\ "rt" \in threads /\ todo["rt"] # <<>>
      /\ Head(todo["rt"]).do = "write" /\ Head(todo["rt"]).reg \in RampRegisters
  BY DEF Writes, Does
<1>2. RtPhase BY <1>1 DEF BootInv, RtStage
<1>3. ASSUME NEW k \in 0 .. 22, todo["rt"] = Left(drv_reset_and_enable, k) PROVE FALSE
  <2>1. Head(todo["rt"]) = ResetOps[k + 1] BY <1>3, ResetGoesOn
  <2> QED BY <1>1, <2>1, ResetGoesOn
<1> QED BY <1>1, <1>2, <1>3, ReadyIsConfigured DEF RtPhase

\* While the chips are being reset the motor stands or they are configured.
LEMMA ResettingControls ==
  ASSUME NEW k \in 0 .. 22, Resetting(k), Turning
  PROVE  Configured
<1>1. k < 4 BY DEF Resetting, ChipsAfter, Turning, Counts
<1>2. MotionReady /\ DriverReady BY <1>1 DEF Resetting, Turning
<1>3. pins.CLK = ClockFrequency BY DEF Resetting, ChipsAfter
<1> QED BY <1>2, <1>3 DEF MotionReady, DriverReady, IhasRun, Configured

\* The main thread has still to pull NRST as long as it has not.
LEMMA ResetToCome ==
  ASSUME NEW x \in Positions, NEW m \in 0 .. 8
  PROVE  \E i \in DOMAIN Left(main("CYCLIC", x), m) : Resets(Left(main("CYCLIC", x), m)[i])
<1> DEFINE s == main("CYCLIC", x)
           rest == Left(s, m)
<1>1. s \in Seq(Alphabet) /\ Len(s) = 39 BY CyclicProgram DEF ThreadWork
<1>2. s[9] = PinOp("NRST", 0)
  <2>1. s[5 + 4] = ResetOps[4] BY CyclicProgram
  <2> QED BY <2>1 DEF ResetOps
<1> HIDE DEF s
<1>3. ASSUME NEW i \in m + 1 .. 39 PROVE s[i] \in Alphabet
  <2>1. i \in 1 .. Len(s) BY <1>1
  <2> QED BY <1>1, <2>1, ElementOfSeq
<1>4. /\ Len(rest) = 39 - m
      /\ \A i \in 1 .. 39 - m : rest[i] = s[m + i]
      /\ rest \in Seq(Alphabet)
  <2>1. /\ SubSeq(s, m + 1, 39) \in Seq(Alphabet)
        /\ Len(SubSeq(s, m + 1, 39)) = (IF m + 1 <= 39 THEN 39 - (m + 1) + 1 ELSE 0)
        /\ \A i \in 1 .. 39 - (m + 1) + 1 : SubSeq(s, m + 1, 39)[i] = s[m + 1 + i - 1]
    BY <1>1, <1>3, SubSeqProperties
  <2>2. 39 - (m + 1) + 1 = 39 - m /\ m + 1 <= 39 /\ \A i \in Nat : m + 1 + i - 1 = m + i
    OBVIOUS
  <2>3. rest = SubSeq(s, m + 1, 39) BY <1>1 DEF Left
  <2> HIDE DEF rest
  <2> QED BY <2>1, <2>2, <2>3
<1> HIDE DEF rest
<1>5. 9 - m \in 1 .. 39 - m /\ m + (9 - m) = 9 OBVIOUS
<1>6. rest[9 - m] = PinOp("NRST", 0)
  <2>1. rest[9 - m] = s[m + (9 - m)] BY <1>4, <1>5
  <2> QED BY <1>2, <1>5, <2>1
<1>7. 9 - m \in DOMAIN rest BY <1>4, <1>5, LenProperties
<1>8. Resets(rest[9 - m]) BY <1>6 DEF Resets, PinOp
<1> QED BY <1>7, <1>8 DEF rest, s

LEMMA BootInvControls == BootInv => UnderControl
<1> SUFFICES ASSUME BootInv, HasReset, "handler" \notin threads, Turning PROVE Configured
  BY DEF UnderControl
<1>1. "main" \in threads /\ hspi = "open"
      /\ \A i \in DOMAIN todo["main"] : ~Resets(todo["main"][i])
  BY DEF HasReset
<1>2. CASE "rt" \in threads
  <2>1. RtPhase BY <1>1, <1>2 DEF BootInv, RtStage
  <2> QED BY <2>1, ReadyIsConfigured, ResettingControls DEF RtPhase
<1>3. CASE "rt" \notin threads
  <2>1. PICK x \in Positions, m \in 0 .. 38 :
           todo["main"] = Left(main("CYCLIC", x), m) /\ MainChips(m)
    BY <1>1, <1>3 DEF BootInv, MainStage, MainPhase
  <2>2. m >= 9
    <3>1. m \in 0 .. 8 => FALSE BY <1>1, <2>1, ResetToCome
    <3> QED BY <3>1
  <2>3. PICK k \in 4 .. 23 : ChipsAfter(k)
    <3>1. (IF m <= 28 THEN m - 5 ELSE 23) \in 4 .. 23 BY <2>2
    <3> QED BY <2>1, <2>2, <3>1 DEF MainChips
  <2> QED BY <2>3 DEF ChipsAfter, Turning, Counts
<1> QED BY <1>2, <1>3

LEMMA BootInvStarts == TypeInv /\ HandlerInv /\ BootInv /\ [Next]_vars => StartsStep
<1> SUFFICES ASSUME TypeInv, HandlerInv, BootInv, [Next]_vars,
                    "rt" \notin threads, "rt" \in threads', hspi = "open"
             PROVE  Configured /\ ~Counts /\ xactual = 0
  BY DEF StartsStep
<1>1. StartThread
  <2>1. threads' \notin {threads, {}, {"main"}, threads \cup {"handler"}} OBVIOUS
  <2>2. ASSUME NEW args \in Arguments, Start(args) PROVE FALSE BY <2>1, <2>2, Zenon DEF Start
  <2>3. ASSUME NEW t \in Threads, Operate(t) \/ Collide(t) \/ Exit(t) PROVE FALSE
    BY <2>1, <2>3 DEF Operate, Collide, Exit
  <2>4. ASSUME CatchSignals \/ OpenSpi \/ step_ctrl_main \/ gpio_terminate_pigpio \/ Kill
        PROVE  FALSE
    BY <2>1, <2>4 DEF CatchSignals, OpenSpi, step_ctrl_main, gpio_terminate_pigpio, Kill
  <2>5. ASSUME ChipStep \/ UNCHANGED vars PROVE FALSE
    BY <2>1, <2>5 DEF ChipStep, vars, programVars
  <2> QED BY <2>2, <2>3, <2>4, <2>5 DEF Next
<1>2. Resetting(0) /\ ramp["VMAX"] = 0 /\ xactual = 0 BY <1>1, MainReady
<1> QED BY <1>2, ReadyIsConfigured DEF Counts

LEMMA BootInvariants == Spec => [](TypeInv /\ HandlerInv /\ BootInv)
<1>1. Init => TypeInv /\ HandlerInv /\ BootInv BY TypeInvInit, HandlerInvInit, BootInvInit
<1>2. TypeInv /\ HandlerInv /\ BootInv /\ [Next]_vars => (TypeInv /\ HandlerInv /\ BootInv)'
  BY TypeInvStep, HandlerInvStep, BootInvStep
<1> QED BY <1>1, <1>2, PTL DEF Spec

\* Speed and target are written only to chips that are configured, whatever
\* process was killed on them before and wherever a reset from the real-time
\* thread has come to.
THEOREM CyclesWriteToConfigured == Spec => []CyclesOnConfigured
BY BootInvariants, BootInvCycles, PTL

\* From the first reset on, a motor turns only on chips wholly configured, also
\* while drv_update_state has them reset in the middle of motion.
THEOREM MotorsUnderControl == Spec => []UnderControl
BY BootInvariants, BootInvControls, PTL

\* The bus cycle takes over motors at rest, with positions counted from zero.
THEOREM BusCycleStartsAtRest == Spec => StartsAtRest
<1>1. TypeInv /\ HandlerInv /\ BootInv /\ [Next]_vars => StartsStep BY BootInvStarts
<1>2. StartsStep \/ UNCHANGED vars <=> [StartsStep]_vars OBVIOUS
<1> QED BY <1>1, BootInvariants, PTL DEF Spec, StartsAtRest
=============================================================================
