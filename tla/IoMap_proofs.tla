---------------------------- MODULE IoMap_proofs ----------------------------
(***************************************************************************)
(* Proofs about IoMap: which outputs may be on, for any map of the pins and *)
(* whatever GBC, the connection and the drives do.                          *)
(***************************************************************************)
EXTENDS IoMap, GbcLink_proofs

\* With its inputs and outputs the program still makes the steps of GbcLink.
LEMMA IoStep ==
    ASSUME [IoNext]_<<allVars, ioVars>>
    PROVE  [LinkNext]_allVars
  BY DEF IoNext, IoBusCycle, LinkNext, BusCycle

\* GBC is told the state of the machine, or nothing before the first cycle.
WordIsState == machine_word # "NONE" => machine_word = current_state

LEMMA WordIsStateStep == WordIsState /\ [Next]_vars => WordIsState'
<1>1. ASSUME WordIsState, NEW out \in Outputs, HandleEvent(out)
      PROVE  WordIsState'
  BY <1>1, MachineMoves
     DEF WordIsState, StaysPut, FirstStep, Trips, Stops, Enables, QuickStops,
         ComesToRest
<1> QED
  BY <1>1 DEF Next, step_ctrl_main, WordIsState, vars, smVars

\* What the proof of OutputsCut needs of the cycles before: an output that is
\* on was left on by the last cycle that ran.
OnWhenEnabled ==
    (machine_word # "NONE" /\ \E pin \in OutputPins : levels[pin])
        => current_state = "OPERATION_ENABLED"

LEMMA OnWhenEnabledStep ==
    OnWhenEnabled /\ [IoNext]_<<allVars, ioVars>> => OnWhenEnabled'
<1> SUFFICES ASSUME OnWhenEnabled, [IoNext]_<<allVars, ioVars>>
             PROVE  OnWhenEnabled'
  OBVIOUS
<1>1. CASE ServeDigitals
  <2>1. \A pin \in OutputPins : levels'[pin] => Outputting
    BY <1>1 DEF ServeDigitals, step_ctrl_process_iomap_out
  <2> QED
    BY <2>1 DEF Outputting, OnWhenEnabled
<1>2. CASE UNCHANGED <<vars, ioVars>>
  BY <1>2 DEF OnWhenEnabled, ioVars, vars, smVars
<1> QED
  BY <1>1, <1>2
     DEF IoNext, IoBusCycle, GbcCommand, GbcEcho, GbcGoes, GbcStarts, CycleIdles,
         allVars, ioVars

\* Once a first cycle has run no output is on but in OPERATION_ENABLED, with the
\* echo of GBC in the tolerance and without a fault, at the last cycle that ran.
THEOREM OutputsAreCut == IoSafeSpec => []OutputsCut
<1>1. IoInit => LinkInit /\ OnWhenEnabled
  BY DEF IoInit, LinkInit, Init, OnWhenEnabled
<1>2. WordIsState /\ SilenceTrips /\ FaultWords /\ OnWhenEnabled => OutputsCut
  BY DEF WordIsState, SilenceTrips, FaultWords, OnWhenEnabled, OutputsCut
<1>3. [IoNext]_<<allVars, ioVars>> => [LinkNext]_allVars
  BY IoStep
<1>4. LinkSafeSpec => SafeSpec
  BY LinkDrivesTheMachine, PTL DEF DrivesTheMachine
<1>5. SafeSpec => [](WordIsState /\ SilenceTrips)
  <2>1. Init => WordIsState /\ SilenceTrips
    BY HeartbeatAssumption DEF Init, WordIsState, SilenceTrips, heartbeat_ok, lag
  <2>2. SilenceTrips /\ [Next]_vars => SilenceTrips'
    <3>1. ASSUME SilenceTrips, UNCHANGED vars
          PROVE  SilenceTrips'
      BY <3>1 DEF vars, smVars, SilenceTrips, heartbeat_ok, lag
    <3> QED
      BY <3>1, SilenceTripsStep DEF Next
  <2> QED
    BY <2>1, <2>2, WordIsStateStep, PTL DEF SafeSpec
<1> QED
  BY <1>1, <1>2, <1>3, <1>4, <1>5, OnWhenEnabledStep, FaultWordsAgree, PTL
     DEF IoSafeSpec, LinkSafeSpec
=============================================================================
