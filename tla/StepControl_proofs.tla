-------------------------- MODULE StepControl_proofs --------------------------
(***************************************************************************)
(* Proofs about StepControl, for any number of drives, any timeout, any     *)
(* heartbeat tolerance and modulus, and whatever GBC and the chips do.      *)
(***************************************************************************)
EXTENDS StepControl, TLAPS

\* A cycle in which the machine sees no fault ran with the counter within the
\* timeout, a heartbeat within the tolerance, no stall flag left over from the
\* cycle before, and no drive in fault reaction.
LEMMA NoFaultFacts ==
    ASSUME NEW out, FaultCauses(out) = {}
    PROVE  /\ ~(cycle_count > Timeout)
           /\ heartbeat_ok(gbsm_heartbeat', gbc_heartbeat')
           /\ \A d \in Drive : "stall" \notin g_drv_status_flag[d]
           /\ \A d \in Drive : g_drv_cia_state'[d] # "FAULT_REACTION_ACTIVE"
<1>1. \A cause \in FaultCause : ~FaultPresent(out)[cause]
  BY DEF FaultCauses
<1>2. /\ ~FaultPresent(out).DRIVE_STATE_CHANGE_TIMEOUT
      /\ ~FaultPresent(out).HEARTBEAT_LOST
      /\ ~FaultPresent(out).DRIVE_FOLLOW_ERROR
      /\ ~FaultPresent(out).DRIVE_FAULT
  BY <1>1 DEF FaultCause
<1> QED
  BY <1>2 DEF FaultPresent, HeartbeatLost, TimedOut, AnyDrive

\* Where a command takes a drive is always a state.
LEMMA MoveType ==
    ASSUME NEW cmd \in CiaCommands, NEW state \in CiaStates
    PROVE  CommandMove(state, cmd) \in CiaStates
  BY DEF CommandMove, DriveMoves, CiaStates, CiaCommands

\* Only ENABLE_OPERATION starts a drive, from SWITCHED_ON or QUICK_STOP_ACTIVE,
\* and a quick stop always stops it.
LEMMA MoveToOperation ==
    ASSUME NEW cmd \in CiaCommands, NEW state \in CiaStates,
           CommandMove(state, cmd) = "OPERATION_ENABLED"
    PROVE  \/ /\ state \in {"SWITCHED_ON", "QUICK_STOP_ACTIVE"}
              /\ cmd = "ENABLE_OPERATION"
           \/ state = "OPERATION_ENABLED" /\ cmd # "QUICK_STOP"
  BY DEF CommandMove, DriveMoves, CiaStates, CiaCommands

\* ENABLE_OPERATION brings no drive to the brink of moving that was not there.
LEMMA MoveByEnable ==
    ASSUME NEW state \in CiaStates,
           CommandMove(state, "ENABLE_OPERATION")
              \in {"SWITCHED_ON", "QUICK_STOP_ACTIVE", "OPERATION_ENABLED"}
    PROVE  state \in {"SWITCHED_ON", "QUICK_STOP_ACTIVE", "OPERATION_ENABLED"}
  BY DEF CommandMove, DriveMoves, CiaStates, CiaCommands

-----------------------------------------------------------------------------
\* What drv_update_state leaves in a drive: fault reaction if an error flag is
\* up, the first state if the drive is not enabled, else the commanded move.
LEMMA DriveStep ==
    ASSUME TypeOK, ReadInputs, NEW d \in Drive
    PROVE  /\ g_drv_cia_state'[d] \in CiaStates
           /\ "stall" \in g_drv_status_flag'[d]
                 => g_drv_cia_state'[d] = "FAULT_REACTION_ACTIVE"
           /\ g_drv_cia_state'[d] \in
                 {"FAULT_REACTION_ACTIVE", "NOT_READY_TO_SWITCH_ON",
                  CommandMove(g_drv_cia_state[d], g_drv_ctrlwrd[d])}
<1>1. PICK flags \in [Drive -> FlagSets] : drv_update_state(flags)
  BY DEF ReadInputs
<1>2. /\ g_drv_status_flag'[d] = flags[d]
      /\ g_drv_cia_state'[d] =
            drive_process_state(g_drv_ctrlwrd[d], g_drv_cia_state[d],
                                flags[d], d \in EnabledDrives)
  BY <1>1 DEF drv_update_state, Processed
<1>3. CommandMove(g_drv_cia_state[d], g_drv_ctrlwrd[d]) \in CiaStates
  BY MoveType DEF TypeOK, DrvTypeOK
<1> QED
  BY <1>2, <1>3 DEF drive_process_state, check_for_error, CiaStates

\* Updating the bank keeps its part of the type invariant.
LEMMA UpdateType ==
    ASSUME TypeOK, ReadInputs
    PROVE  /\ g_drv_cia_state' \in [Drive -> CiaStates]
           /\ g_drv_status_flag' \in [Drive -> FlagSets \cup {{}}]
           /\ ticks_in_fault_reaction_active' \in [Drive -> 0 .. MaxTicks]
           /\ chips_reset' \in BOOLEAN
           /\ gbsm_heartbeat' \in 0 .. HbModulus - 1
           /\ gbc_heartbeat' \in 0 .. HbModulus - 1
<1>1. PICK flags \in [Drive -> FlagSets] : drv_update_state(flags)
  BY DEF ReadInputs
<1>2. g_drv_cia_state' \in [Drive -> CiaStates]
  <2>1. \A d \in Drive : g_drv_cia_state'[d] \in CiaStates
    BY DriveStep
  <2> QED
    BY <1>1, <2>1 DEF drv_update_state, Processed
<1>3. g_drv_status_flag' \in [Drive -> FlagSets \cup {{}}]
  BY <1>1 DEF drv_update_state
<1>4. ticks_in_fault_reaction_active' \in [Drive -> 0 .. MaxTicks]
  <2>1. \A n \in 0 .. MaxTicks : Tick(n) \in 0 .. MaxTicks
    BY ResetTicksAssumption DEF Tick, MaxTicks
  <2>2. 0 \in 0 .. MaxTicks
    BY ResetTicksAssumption DEF MaxTicks
  <2> QED
    BY <1>1, <2>1, <2>2 DEF drv_update_state, TypeOK, DrvTypeOK
<1>5. chips_reset' \in BOOLEAN
  BY <1>1 DEF drv_update_state, trigger_reset
<1>6. gbsm_heartbeat' \in 0 .. HbModulus - 1
  BY HeartbeatAssumption DEF ReadInputs, Heartbeat, TypeOK
<1>7. gbc_heartbeat' \in 0 .. HbModulus - 1
  BY DEF ReadInputs, Heartbeat, TypeOK
<1> QED
  BY <1>2, <1>3, <1>4, <1>5, <1>6, <1>7

\* Every word is one of the seven commands.
LEMMA WordType ==
    ASSUME NEW word \in CiaCommands, drv_set_ctrl_wrd(word)
    PROVE  g_drv_ctrlwrd' \in [Drive -> CiaCommands]
  BY DEF drv_set_ctrl_wrd

\* The event leaves the machine's own variables in their types.  A guard that
\* counts saw no fault, so the counter was within the timeout.
EventTypeOK ==
    /\ current_state' \in CiaStates
    /\ cycle_count' \in 0 .. MaxCount
    /\ reset_in_progress' \in 0 .. 4
    /\ machine_word' \in CiaStates \cup {"NONE"}
    /\ active_fault_word' \subseteq FaultCause
    /\ fault_history_word' \subseteq FaultCause
    /\ g_drv_ctrlwrd' \in [Drive -> CiaCommands]

LEMMA FollowType ==
    ASSUME TypeOK, NEW out, NEW from, NEW commands, NEW to \in CiaStates,
           NEW word \in CiaCommands, Follow(out, from, commands, to, word)
    PROVE  EventTypeOK
<1>1. FaultCauses(out) = {} /\ active_fault_word' = {}
  BY DEF Follow, NoFaultCondition
<1>2. cycle_count \in 0 .. Timeout
  BY <1>1, NoFaultFacts, TimeoutAssumption DEF TypeOK, MaxCount
<1>3. cycle_count' \in 0 .. MaxCount
  BY <1>2, TimeoutAssumption DEF Follow, MaxCount
<1>4. g_drv_ctrlwrd' \in [Drive -> CiaCommands]
  BY WordType DEF Follow, TypeOK, DrvTypeOK
<1> QED
  BY <1>1, <1>3, <1>4 DEF EventTypeOK, Follow, Enter, Remain, TypeOK

LEMMA EventType ==
    ASSUME TypeOK, NEW out, HandleEvent(out)
    PROVE  EventTypeOK
<1> USE DEF EventTypeOK
<1>1. CASE Trn1(out)
  BY <1>1 DEF Trn1, NoFaultCondition, Enter, TypeOK, DrvTypeOK, CiaStates
<1>2. CASE Trn2(out)
  <2>1. g_drv_ctrlwrd' \in [Drive -> CiaCommands]
    BY <1>2, WordType DEF Trn2, TypeOK, DrvTypeOK, CiaCommands
  <2> QED
    BY <1>2, <2>1 DEF Trn2, NoFaultCondition, Enter, Remain, TypeOK, CiaStates
<1>3. CASE Trn3(out)
  BY <1>3, FollowType DEF Trn3, CiaStates, CiaCommands
<1>4. CASE Trn4(out)
  BY <1>4, FollowType DEF Trn4, CiaStates, CiaCommands
<1>5. CASE Trn5(out)
  BY <1>5, FollowType, DisableOperationWordAssumption
     DEF Trn5, CiaStates, CiaCommands
<1>6. CASE Trn6(out)
  BY <1>6, FollowType DEF Trn6, CiaStates, CiaCommands
<1>7. CASE Trn7(out)
  BY <1>7, FollowType DEF Trn7, CiaStates, CiaCommands
<1>8. CASE Trn8(out)
  BY <1>8, FollowType DEF Trn8, CiaStates, CiaCommands
<1>9. CASE Trn9(out)
  BY <1>9, FollowType DEF Trn9, CiaStates, CiaCommands
<1>10. CASE Trn10(out)
  BY <1>10, FollowType DEF Trn10, CiaStates, CiaCommands
<1>11. CASE Trn11(out)
  <2>1. cycle_count \in 0 .. Timeout
    BY <1>11, NoFaultFacts, TimeoutAssumption
       DEF Trn11, NoFaultCondition, TypeOK, MaxCount
  <2>2. cycle_count' \in 0 .. MaxCount
    BY <1>11, <2>1, TimeoutAssumption DEF Trn11, MaxCount
  <2>3. g_drv_ctrlwrd' \in [Drive -> CiaCommands]
    BY <1>11, WordType DEF Trn11, TypeOK, DrvTypeOK, CiaCommands
  <2> QED
    BY <1>11, <2>2, <2>3
       DEF Trn11, NoFaultCondition, Enter, Remain, TypeOK, CiaStates
<1>12. CASE Trn12(out)
  <2>1. cycle_count \in 0 .. Timeout
    BY <1>12, NoFaultFacts, TimeoutAssumption
       DEF Trn12, NoFaultCondition, TypeOK, MaxCount
  <2>2. cycle_count' \in 0 .. MaxCount
    BY <1>12, <2>1, TimeoutAssumption DEF Trn12, MaxCount
  <2>3. g_drv_ctrlwrd' \in [Drive -> CiaCommands]
    BY <1>12, WordType, EnableOperationEnumAssumption DEF Trn12, TypeOK, DrvTypeOK
  <2> QED
    BY <1>12, <2>2, <2>3
       DEF Trn12, NoFaultCondition, Enter, Remain, TypeOK, CiaStates
<1>13. CASE Trn13(out)
  <2>1. g_drv_ctrlwrd' \in [Drive -> CiaCommands]
    BY <1>13, WordType DEF Trn13, CiaCommands
  <2> QED
    BY <1>13, <2>1
       DEF Trn13, FaultCondition, FaultCauses, Enter, TypeOK, CiaStates
<1>14. CASE Trn14(out)
  BY <1>14 DEF Trn14, NoFaultCondition, Enter, TypeOK, DrvTypeOK, CiaStates
<1>15. CASE Trn15(out)
  BY <1>15, FollowType DEF Trn15, CiaStates, CiaCommands
<1>16. CASE Trn16(out)
  BY <1>16, TimeoutAssumption
     DEF Trn16, NoFaultCondition, Enter, TypeOK, DrvTypeOK, MaxCount, CiaStates
<1>17. CASE FaultReaction(out)
  <2>1. reset_in_progress' \in 0 .. 4
    BY <1>17 DEF FaultReaction, TypeOK
  <2>2. g_drv_ctrlwrd' \in [Drive -> CiaCommands]
    BY <1>17, WordType DEF FaultReaction, TypeOK, DrvTypeOK, ZeroWord, CiaCommands
  <2> QED
    BY <1>17, <2>1, <2>2 DEF FaultReaction, FaultCauses, Remain, TypeOK
<1>18. CASE NoTransition(out)
  BY <1>18 DEF NoTransition, NoFaultCondition, Remain, TypeOK, DrvTypeOK
<1> QED
  BY <1>1, <1>2, <1>3, <1>4, <1>5, <1>6, <1>7, <1>8, <1>9, <1>10, <1>11, <1>12,
     <1>13, <1>14, <1>15, <1>16, <1>17, <1>18 DEF HandleEvent

LEMMA TypeInit == Init => TypeOK
<1> SUFFICES ASSUME Init PROVE TypeOK
  OBVIOUS
<1>1. DrvTypeOK
  <2>1. 0 \in 0 .. MaxTicks
    BY ResetTicksAssumption DEF MaxTicks
  <2>2. "NOT_READY_TO_SWITCH_ON" \in CiaStates /\ ZeroWord \in CiaCommands
    BY DEF CiaStates, CiaCommands, ZeroWord
  <2> QED
    BY <2>1, <2>2 DEF Init, DrvInit, DrvTypeOK
<1> QED
  BY <1>1, TimeoutAssumption, HeartbeatAssumption
     DEF Init, TypeOK, CiaStates, MaxCount

LEMMA TypeStep == TypeOK /\ [Next]_vars => TypeOK'
<1>1. ASSUME TypeOK, NEW out \in Outputs, step_ctrl_main(out)
      PROVE  TypeOK'
  <2>1. EventTypeOK
    BY <1>1, EventType DEF step_ctrl_main
  <2> QED
    BY <1>1, <2>1, UpdateType DEF step_ctrl_main, EventTypeOK, TypeOK, DrvTypeOK
<1>2. ASSUME TypeOK, UNCHANGED vars
      PROVE  TypeOK'
  BY <1>2 DEF vars, drvVars, smVars, TypeOK, DrvTypeOK
<1> QED
  BY <1>1, <1>2 DEF Next

\* Every variable stays in its type; in particular the cycle counter, a uint32
\* that nothing in the code bounds, never passes the timeout by more than two.
THEOREM TypeCorrect == SafeSpec => []TypeOK
<1>1. Init => TypeOK
  BY TypeInit
<1>2. TypeOK /\ [Next]_vars => TypeOK'
  BY TypeStep
<1> QED
  BY <1>1, <1>2, PTL DEF SafeSpec
-----------------------------------------------------------------------------
\* The moves of the machine, and what a cycle that makes one does to the words.
\* All but the first two alternatives enter a state the drives have reached.
StaysPut == /\ current_state' = current_state
            /\ machine_word' = machine_word
FirstStep == /\ current_state = "NOT_READY_TO_SWITCH_ON"
             /\ current_state' = "SWITCH_ON_DISABLED"
             /\ machine_word' = current_state'
Trips == /\ current_state # "FAULT_REACTION_ACTIVE"
         /\ current_state' = "FAULT_REACTION_ACTIVE"
         /\ machine_word' = current_state'
         /\ drv_set_ctrl_wrd("QUICK_STOP")
Stops == /\ current_state # "FAULT_REACTION_ACTIVE"
         /\ current_state # "NOT_READY_TO_SWITCH_ON"
         /\ current_state' \in {"READY_TO_SWITCH_ON", "SWITCH_ON_DISABLED"}
         /\ current_state = "FAULT" => current_state' = "SWITCH_ON_DISABLED"
         /\ machine_word' = current_state'
         /\ AllDrives(current_state')
Enables == /\ \/ /\ current_state \in {"READY_TO_SWITCH_ON", "OPERATION_ENABLED"}
                 /\ current_state' = "SWITCHED_ON"
              \/ /\ current_state \in {"SWITCHED_ON", "QUICK_STOP_ACTIVE"}
                 /\ current_state' = "OPERATION_ENABLED"
           /\ machine_word' = current_state'
           /\ AllDrives(current_state')
QuickStops == /\ current_state = "OPERATION_ENABLED"
              /\ current_state' = "QUICK_STOP_ACTIVE"
              /\ machine_word' = current_state'
              /\ AllDrives("QUICK_STOP_ACTIVE") \/ AllDrives("SWITCH_ON_DISABLED")
ComesToRest == /\ current_state = "FAULT_REACTION_ACTIVE"
            /\ current_state' = "FAULT"
            /\ machine_word' = current_state'
            /\ AllDrives("SWITCH_ON_DISABLED")

LEMMA MachineMoves ==
    ASSUME NEW out, HandleEvent(out)
    PROVE  StaysPut \/ FirstStep \/ Trips \/ Stops \/ Enables \/ QuickStops
           \/ ComesToRest
<1> USE DEF Enter, Remain
<1>1. CASE Trn1(out)
  BY <1>1 DEF Trn1, FirstStep
<1>2. CASE Trn2(out)
  BY <1>2 DEF Trn2, Stops, StaysPut
<1>3. CASE Trn3(out)
  BY <1>3 DEF Trn3, Follow, Enables, StaysPut
<1>4. CASE Trn4(out)
  BY <1>4 DEF Trn4, Follow, Enables, StaysPut
<1>5. CASE Trn5(out)
  BY <1>5 DEF Trn5, Follow, Enables, StaysPut
<1>6. CASE Trn6(out)
  BY <1>6 DEF Trn6, Follow, Stops, StaysPut
<1>7. CASE Trn7(out)
  BY <1>7 DEF Trn7, Follow, Stops, StaysPut
<1>8. CASE Trn8(out)
  BY <1>8 DEF Trn8, Follow, Stops, StaysPut
<1>9. CASE Trn9(out)
  BY <1>9 DEF Trn9, Follow, Stops, StaysPut
<1>10. CASE Trn10(out)
  BY <1>10 DEF Trn10, Follow, Stops, StaysPut
<1>11. CASE Trn11(out)
  BY <1>11 DEF Trn11, QuickStops, StaysPut
<1>12. CASE Trn12(out)
  BY <1>12 DEF Trn12, Stops, StaysPut
<1>13. CASE Trn13(out)
  BY <1>13 DEF Trn13, Trips
<1>14. CASE Trn14(out)
  BY <1>14 DEF Trn14, ComesToRest
<1>15. CASE Trn15(out)
  BY <1>15 DEF Trn15, Follow, Stops, StaysPut
<1>16. CASE Trn16(out)
  BY <1>16 DEF Trn16, Enables
<1>17. CASE FaultReaction(out)
  BY <1>17 DEF FaultReaction, StaysPut
<1>18. CASE NoTransition(out)
  BY <1>18 DEF NoTransition, StaysPut
<1> QED
  BY <1>1, <1>2, <1>3, <1>4, <1>5, <1>6, <1>7, <1>8, <1>9, <1>10, <1>11, <1>12,
     <1>13, <1>14, <1>15, <1>16, <1>17, <1>18 DEF HandleEvent

\* Outside the permit states no guard sends ENABLE_OPERATION.
LEMMA WordsWithoutPermit ==
    ASSUME NEW out, HandleEvent(out), current_state \notin PermitStates
    PROVE  \/ UNCHANGED g_drv_ctrlwrd
           \/ \A d \in Drive : g_drv_ctrlwrd'[d] # "ENABLE_OPERATION"
<1> USE DEF PermitStates, drv_set_ctrl_wrd
<1>1. CASE Trn1(out) \/ Trn14(out) \/ NoTransition(out)
  BY <1>1 DEF Trn1, Trn14, NoTransition
<1>2. CASE Trn2(out)
  BY <1>2 DEF Trn2
<1>3. CASE Trn3(out) \/ Trn7(out) \/ Trn15(out)
  BY <1>3 DEF Trn3, Trn7, Trn15, Follow
<1>4. CASE Trn13(out)
  BY <1>4 DEF Trn13
<1>5. CASE FaultReaction(out)
  BY <1>5 DEF FaultReaction, ZeroWord
<1>6. CASE \/ Trn4(out) \/ Trn5(out) \/ Trn6(out) \/ Trn8(out) \/ Trn9(out)
           \/ Trn10(out) \/ Trn11(out) \/ Trn12(out) \/ Trn16(out)
  BY <1>6 DEF Trn4, Trn5, Trn6, Trn8, Trn9, Trn10, Trn11, Trn12, Trn16, Follow
<1> QED
  BY <1>1, <1>2, <1>3, <1>4, <1>5, <1>6 DEF HandleEvent
-----------------------------------------------------------------------------
\* A cycle that begins without the permit ends with no drive moving, and with no
\* drive one ENABLE_OPERATION short of it that has that word standing.
LEMMA Settled ==
    ASSUME TypeOK, MotionAuthority, ReadInputs, current_state \notin PermitStates
    PROVE  /\ Moving' = {}
           /\ \A d \in Drive :
                 g_drv_ctrlwrd[d] = "ENABLE_OPERATION" =>
                    g_drv_cia_state'[d] \notin {"SWITCHED_ON", "QUICK_STOP_ACTIVE",
                                                "OPERATION_ENABLED"}
<1>1. ASSUME NEW d \in Drive
      PROVE  /\ g_drv_cia_state'[d] # "OPERATION_ENABLED"
             /\ g_drv_ctrlwrd[d] = "ENABLE_OPERATION" =>
                   g_drv_cia_state'[d] \notin {"SWITCHED_ON", "QUICK_STOP_ACTIVE",
                                               "OPERATION_ENABLED"}
  <2> DEFINE state == g_drv_cia_state[d]
             word == g_drv_ctrlwrd[d]
             close == {"SWITCHED_ON", "QUICK_STOP_ACTIVE", "OPERATION_ENABLED"}
  <2>1. state \in CiaStates /\ word \in CiaCommands
    BY <1>1 DEF TypeOK, DrvTypeOK
  <2>2. /\ state = "OPERATION_ENABLED" => word = "QUICK_STOP"
        /\ word = "ENABLE_OPERATION" => state \notin close
    BY <1>1 DEF MotionAuthority, Moving
  <2>3. CommandMove(state, word) # "OPERATION_ENABLED"
    BY <2>1, <2>2, MoveToOperation
  <2>4. word = "ENABLE_OPERATION" => CommandMove(state, word) \notin close
    BY <2>1, <2>2, MoveByEnable
  <2>5. g_drv_cia_state'[d] \in {"FAULT_REACTION_ACTIVE", "NOT_READY_TO_SWITCH_ON",
                                 CommandMove(state, word)}
    BY <1>1, DriveStep
  <2> QED
    BY <2>3, <2>4, <2>5
<1> QED
  BY <1>1 DEF Moving

\* The words the cycle leaves keep a drive from moving when the cycle takes
\* the permit away or never had it.
LEMMA MotionAuthorityStep ==
    ASSUME TypeOK, MotionAuthority, NEW out \in Outputs, step_ctrl_main(out)
    PROVE  MotionAuthority'
<1>1. ReadInputs /\ HandleEvent(out)
  BY DEF step_ctrl_main
<1> SUFFICES ASSUME current_state' \notin PermitStates, NEW d \in Drive
             PROVE  /\ g_drv_cia_state'[d] = "OPERATION_ENABLED" =>
                          /\ current_state' = "FAULT_REACTION_ACTIVE"
                          /\ g_drv_ctrlwrd'[d] = "QUICK_STOP"
                    /\ g_drv_ctrlwrd'[d] = "ENABLE_OPERATION" =>
                          g_drv_cia_state'[d] \notin
                             {"SWITCHED_ON", "QUICK_STOP_ACTIVE",
                              "OPERATION_ENABLED"}
  BY DEF MotionAuthority, Moving
<1>2. CASE current_state \notin PermitStates
  <2>1. /\ g_drv_cia_state'[d] # "OPERATION_ENABLED"
        /\ g_drv_ctrlwrd[d] = "ENABLE_OPERATION" =>
              g_drv_cia_state'[d] \notin
                 {"SWITCHED_ON", "QUICK_STOP_ACTIVE", "OPERATION_ENABLED"}
    BY <1>1, <1>2, Settled DEF Moving
  <2> QED
    BY <1>1, <1>2, <2>1, WordsWithoutPermit
<1>3. CASE current_state \in PermitStates
  <2>1. Trips \/ Stops
    BY <1>1, <1>3, MachineMoves
       DEF StaysPut, FirstStep, Enables, QuickStops, ComesToRest, PermitStates
  <2>2. CASE Trips
    BY <2>2 DEF Trips, drv_set_ctrl_wrd
  <2>3. CASE Stops
    BY <2>3 DEF Stops, AllDrives
  <2> QED
    BY <2>1, <2>2, <2>3
<1> QED
  BY <1>2, <1>3

LEMMA MotionAuthorityInit == Init => MotionAuthority
  BY DEF Init, DrvInit, MotionAuthority, Moving, ZeroWord

\* Whatever words, flags and echoes arrive, a drive is enabled only under the
\* permit or for the one cycle a quick stop takes, and no stale ENABLE_OPERATION
\* can start it again: MotionAuthority is an invariant for every bank of drives.
THEOREM MotionNeedsPermit == SafeSpec => []MotionAuthority
<1>1. Init => MotionAuthority
  BY MotionAuthorityInit
<1>2. TypeOK /\ MotionAuthority /\ [Next]_vars => MotionAuthority'
  <2>1. ASSUME MotionAuthority, UNCHANGED vars
        PROVE  MotionAuthority'
    BY <2>1 DEF vars, drvVars, smVars, MotionAuthority, Moving
  <2> QED
    BY <2>1, MotionAuthorityStep DEF Next
<1> QED
  BY <1>1, <1>2, TypeCorrect, PTL DEF SafeSpec
-----------------------------------------------------------------------------
\* A cycle is a step of the motion permit, or leaves it alone.
LEMMA PermitStep ==
    ASSUME TypeOK, MotionAuthority, NEW out \in Outputs, step_ctrl_main(out)
    PROVE  [Permit!Next]_Permit!vars
<1> DEFINE tripped == {"FAULT_REACTION_ACTIVE", "FAULT"}
<1> USE DEF Permit!Next, Permit!vars, Permit!Grant, Permit!Work,
            Permit!HandBack, Permit!Trip, Permit!Reset
<1>1. ReadInputs /\ HandleEvent(out)
  BY DEF step_ctrl_main
<1>2. StaysPut \/ FirstStep \/ Trips \/ Stops \/ Enables \/ QuickStops
      \/ ComesToRest
  BY <1>1, MachineMoves
<1>3. current_state \notin PermitStates => Moving' = {}
  BY <1>1, Settled
<1>4. current_state \notin PermitStates \cup {"FAULT_REACTION_ACTIVE"}
         => Moving = {}
  BY DEF MotionAuthority, Moving
<1>5. CASE StaysPut
  BY <1>3, <1>4, <1>5 DEF StaysPut, PermitStates
<1>6. CASE FirstStep
  BY <1>3, <1>4, <1>6 DEF FirstStep, PermitStates
<1>7. CASE Trips
  BY <1>3, <1>7 DEF Trips, PermitStates
<1>8. CASE Stops
  <2>1. Moving' = {}
    BY <1>8 DEF Stops, AllDrives, Moving
  <2>2. CASE current_state \in PermitStates
    BY <2>1, <2>2, <1>8 DEF Stops, PermitStates
  <2>3. CASE current_state \notin PermitStates
    BY <2>1, <2>3, <1>4, <1>8 DEF Stops, PermitStates
  <2> QED
    BY <2>2, <2>3
<1>9. CASE Enables
  <2>1. current_state \notin tripped /\ current_state' \in PermitStates \ tripped
    BY <1>9 DEF Enables, PermitStates
  <2>2. CASE current_state \in PermitStates
    BY <2>1, <2>2
  <2>3. CASE current_state \notin PermitStates
    BY <2>1, <2>3, <1>3, <1>4
  <2> QED
    BY <2>2, <2>3
<1>10. CASE QuickStops
  BY <1>10 DEF QuickStops, PermitStates
<1>11. CASE ComesToRest
  BY <1>3, <1>11 DEF ComesToRest, PermitStates
<1> QED
  BY <1>2, <1>5, <1>6, <1>7, <1>8, <1>9, <1>10, <1>11

\* The machine and its bank implement the motion permit: every cycle is a step
\* of MotionPermit, so a fault stops all drives by the end of the next cycle and
\* no drive starts again before a reset and a new grant, both at standstill.
THEOREM ImplementsMotionPermit == SafeSpec => KeepsMotionPermit
<1>1. Init => Permit!Init
  BY DEF Init, DrvInit, Permit!Init, PermitStates, Moving
<1>2. TypeOK /\ MotionAuthority /\ [Next]_vars => [Permit!Next]_Permit!vars
  <2>1. ASSUME UNCHANGED vars
        PROVE  UNCHANGED Permit!vars
    BY <2>1 DEF vars, drvVars, smVars, Permit!vars, Moving
  <2> QED
    BY <2>1, PermitStep DEF Next
<1> QED
  BY <1>1, <1>2, TypeCorrect, MotionNeedsPermit, PTL
     DEF SafeSpec, KeepsMotionPermit, Permit!Spec
-----------------------------------------------------------------------------
\* A cycle that sees a fault ends in fault reaction.
LEMMA FaultTrips ==
    ASSUME NEW out, HandleEvent(out), FaultCauses(out) # {}
    PROVE  /\ current_state' = "FAULT_REACTION_ACTIVE"
           /\ UNCHANGED cycle_count
<1>1. Trn13(out) \/ FaultReaction(out)
  BY DEF HandleEvent, NoFaultCondition, Follow, Trn1, Trn2, Trn3, Trn4, Trn5,
         Trn6, Trn7, Trn8, Trn9, Trn10, Trn11, Trn12, Trn14, Trn15, Trn16,
         NoTransition
<1> QED
  BY <1>1 DEF Trn13, FaultReaction, Enter, Remain

\* Why a late echo stops the drives: with the heartbeat out of tolerance the
\* machine is in fault reaction already.
SilenceTrips ==
    ~heartbeat_ok(gbsm_heartbeat, gbc_heartbeat)
        => current_state = "FAULT_REACTION_ACTIVE"

LEMMA SilenceTripsStep ==
    ASSUME NEW out \in Outputs, step_ctrl_main(out)
    PROVE  SilenceTrips'
<1>1. CASE FaultCauses(out) = {}
  BY <1>1, NoFaultFacts DEF SilenceTrips, heartbeat_ok, lag
<1>2. CASE FaultCauses(out) # {}
  BY <1>2, FaultTrips DEF SilenceTrips, step_ctrl_main
<1> QED
  BY <1>1, <1>2

\* One cycle after the echo has fallen out of tolerance no drive is enabled,
\* whatever command is left standing in the shared memory.
THEOREM SilenceStops == SafeSpec => SilentGbcStops
<1>1. Init => SilenceTrips
  BY HeartbeatAssumption DEF Init, SilenceTrips, heartbeat_ok, lag
<1>2. SilenceTrips /\ [Next]_vars => SilenceTrips'
  <2>1. ASSUME SilenceTrips, UNCHANGED vars
        PROVE  SilenceTrips'
    BY <2>1 DEF vars, smVars, SilenceTrips, heartbeat_ok, lag
  <2> QED
    BY <2>1, SilenceTripsStep DEF Next
<1>3. TypeOK /\ MotionAuthority /\ SilenceTrips /\ [Next]_vars => [SilenceStep]_vars
  BY Settled DEF Next, step_ctrl_main, SilenceTrips, SilenceStep, PermitStates
<1> QED
  BY <1>1, <1>2, <1>3, TypeCorrect, MotionNeedsPermit, PTL
     DEF SafeSpec, SilentGbcStops

\* Once the counter has passed the timeout the machine goes to fault reaction
\* and stays there, with the counter as it is, whatever GBC does.
THEOREM TimeoutIsFinal == SafeSpec => TimeoutLatches
<1>1. ASSUME NEW out \in Outputs, step_ctrl_main(out), cycle_count > Timeout
      PROVE  cycle_count' = cycle_count /\ current_state' = "FAULT_REACTION_ACTIVE"
  <2>1. FaultCauses(out) # {}
    BY <1>1, NoFaultFacts
  <2> QED
    BY <1>1, <2>1, FaultTrips DEF step_ctrl_main
<1>2. [Next]_vars => [TimeoutStep]_vars
  BY <1>1 DEF Next, TimeoutStep
<1> QED
  BY <1>2, PTL DEF SafeSpec, TimeoutLatches
-----------------------------------------------------------------------------
\* A stall flag has put the machine into fault reaction by the time the follow
\* error would be looked at.
StallTrips ==
    (\E d \in Drive : "stall" \in g_drv_status_flag[d])
        => current_state = "FAULT_REACTION_ACTIVE"

LEMMA StallTripsStep ==
    ASSUME TypeOK, NEW out \in Outputs, step_ctrl_main(out)
    PROVE  StallTrips'
<1>1. ReadInputs /\ HandleEvent(out)
  BY DEF step_ctrl_main
<1> SUFFICES ASSUME NEW d \in Drive, "stall" \in g_drv_status_flag'[d]
             PROVE  current_state' = "FAULT_REACTION_ACTIVE"
  BY DEF StallTrips
<1>2. g_drv_cia_state'[d] = "FAULT_REACTION_ACTIVE"
  BY <1>1, DriveStep
<1>3. FaultCauses(out) # {}
  BY <1>2, NoFaultFacts
<1> QED
  BY <1>1, <1>3, FaultTrips

LEMMA FaultWordsStep ==
    ASSUME StallTrips, FaultWords, NEW out \in Outputs, step_ctrl_main(out)
    PROVE  FaultWords'
<1> USE DEF FaultWords
<1>1. HandleEvent(out)
  BY DEF step_ctrl_main
<1>2. CASE FaultCauses(out) = {}
  <2>1. active_fault_word' = {}
    BY <1>1, <1>2
       DEF HandleEvent, NoFaultCondition, Follow, Trn1, Trn2, Trn3, Trn4, Trn5,
           Trn6, Trn7, Trn8, Trn9, Trn10, Trn11, Trn12, Trn13, Trn14, Trn15,
           Trn16, FaultCondition, FaultReaction, NoTransition
  <2>2. /\ fault_history_word' = fault_history_word
        /\ current_state' \in {"FAULT_REACTION_ACTIVE", "FAULT"}
              => current_state \in {"FAULT_REACTION_ACTIVE", "FAULT"}
    BY <1>1, <1>2
       DEF HandleEvent, NoFaultCondition, Follow, Trn1, Trn2, Trn3, Trn4, Trn5,
           Trn6, Trn7, Trn8, Trn9, Trn10, Trn11, Trn12, Trn13, Trn14, Trn15,
           Trn16, FaultCondition, FaultReaction, NoTransition, Enter, Remain
  <2> QED
    BY <2>1, <2>2
<1>3. CASE FaultCauses(out) # {}
  <2>1. current_state' = "FAULT_REACTION_ACTIVE"
    BY <1>1, <1>3, FaultTrips
  <2>2. Trn13(out) \/ FaultReaction(out)
    BY <1>1, <1>3
       DEF HandleEvent, NoFaultCondition, Follow, Trn1, Trn2, Trn3, Trn4, Trn5,
           Trn6, Trn7, Trn8, Trn9, Trn10, Trn11, Trn12, Trn14, Trn15, Trn16,
           NoTransition
  <2>3. CASE Trn13(out)
    <3>1. fault_history_word' = FaultCauses(out)
      BY <2>3 DEF Trn13, FaultCondition, Enter
    <3>2. \A d \in Drive : "stall" \notin g_drv_status_flag[d]
      BY <2>3 DEF Trn13, StallTrips
    <3>3. "DRIVE_FOLLOW_ERROR" \notin FaultCauses(out)
      BY <3>2 DEF FaultCauses, FaultPresent
    <3> QED
      BY <1>3, <2>1, <3>1, <3>3
  <2>4. CASE FaultReaction(out)
    BY <2>1, <2>4 DEF FaultReaction, Remain
  <2> QED
    BY <2>2, <2>3, <2>4
<1> QED
  BY <1>2, <1>3

\* The two fault words tell GBC one story, and a stall is in it as DRIVE_FAULT
\* and never as DRIVE_FOLLOW_ERROR.
THEOREM FaultWordsAgree == SafeSpec => []FaultWords
<1>1. Init => StallTrips /\ FaultWords
  BY DEF Init, DrvInit, StallTrips, FaultWords
<1>2. TypeOK /\ StallTrips /\ [Next]_vars => StallTrips'
  <2>1. ASSUME StallTrips, UNCHANGED vars
        PROVE  StallTrips'
    BY <2>1 DEF vars, drvVars, smVars, StallTrips
  <2> QED
    BY <2>1, StallTripsStep DEF Next
<1>3. StallTrips /\ FaultWords /\ [Next]_vars => FaultWords'
  <2>1. ASSUME FaultWords, UNCHANGED vars
        PROVE  FaultWords'
    BY <2>1 DEF vars, smVars, FaultWords
  <2> QED
    BY <2>1, FaultWordsStep DEF Next
<1> QED
  BY <1>1, <1>2, <1>3, TypeCorrect, PTL DEF SafeSpec
-----------------------------------------------------------------------------
\* Only a machine that has never moved has told GBC nothing.
FirstWord == current_state = "NOT_READY_TO_SWITCH_ON" => machine_word = "NONE"

\* A state reported to GBC is one all drives have reached.
THEOREM ReportsWhatDrivesReached == SafeSpec => EntryInSync
<1>1. Init => FirstWord
  BY DEF Init, FirstWord
<1>2. FirstWord /\ [Next]_vars => FirstWord'
  <2>1. ASSUME FirstWord, NEW out \in Outputs, HandleEvent(out)
        PROVE  FirstWord'
    BY <2>1, MachineMoves
       DEF FirstWord, StaysPut, FirstStep, Trips, Stops, Enables, QuickStops,
           ComesToRest
  <2> QED
    BY <2>1 DEF Next, step_ctrl_main, FirstWord, vars, smVars
<1>3. TypeOK /\ FirstWord /\ [Next]_vars => [EntryStep]_vars
  <2> SUFFICES ASSUME TypeOK, FirstWord, NEW out \in Outputs, step_ctrl_main(out),
                      machine_word' \notin {machine_word, "FAULT_REACTION_ACTIVE"},
                      machine_word # "NONE"
               PROVE  \E s \in ArrivedIn(machine_word') :
                         g_drv_cia_state' = [d \in Drive |-> s]
    BY DEF Next, EntryStep
  <2>1. \A s : AllDrives(s) => g_drv_cia_state' = [d \in Drive |-> s]
    BY UpdateType DEF step_ctrl_main, AllDrives
  <2>2. \E s \in ArrivedIn(machine_word') : AllDrives(s)
    BY MachineMoves
       DEF step_ctrl_main, FirstWord, StaysPut, FirstStep, Trips, Stops, Enables,
           QuickStops, ComesToRest, ArrivedIn
  <2> QED
    BY <2>1, <2>2
<1> QED
  BY <1>1, <1>2, <1>3, TypeCorrect, PTL DEF SafeSpec, EntryInSync
-----------------------------------------------------------------------------
Faulty == {"FAULT_REACTION_ACTIVE", "FAULT"}
AtRest == {"SWITCH_ON_DISABLED"} \cup Faulty

\* Facts about the table of drive_process_state.  A fault is left in two resets,
\* and then to SWITCH_ON_DISABLED; the zero word disables every drive.
LEMMA LeavesFault ==
    ASSUME NEW cmd \in CiaCommands, NEW state \in Faulty,
           CommandMove(state, cmd) \notin Faulty
    PROVE  /\ state = "FAULT" /\ cmd = "FAULT_RESET"
           /\ CommandMove(state, cmd) = "SWITCH_ON_DISABLED"
  BY DEF CommandMove, DriveMoves, Faulty, CiaCommands

LEMMA ComesToFault ==
    ASSUME NEW cmd \in CiaCommands, NEW state \in CiaStates,
           CommandMove(state, cmd) = "FAULT"
    PROVE  \/ state = "FAULT_REACTION_ACTIVE" /\ cmd = "FAULT_RESET"
           \/ state = "FAULT"
  BY DEF CommandMove, DriveMoves, CiaStates, CiaCommands

LEMMA ZeroWordDisables ==
    ASSUME NEW state \in CiaStates
    PROVE  CommandMove(state, ZeroWord) \in AtRest
  BY DEF CommandMove, DriveMoves, CiaStates, CiaCommands, ZeroWord, AtRest, Faulty

LEMMA RestLasts ==
    ASSUME NEW cmd \in {"QUICK_STOP", ZeroWord, "FAULT_RESET"}, NEW state \in AtRest
    PROVE  CommandMove(state, cmd) \in AtRest
  BY DEF CommandMove, DriveMoves, ZeroWord, AtRest, Faulty

\* An enabled drive makes the commanded move or goes to fault reaction.
LEMMA EnabledStep ==
    ASSUME TypeOK, ReadInputs, NEW d \in EnabledDrives
    PROVE  /\ d \in Drive
           /\ g_drv_cia_state[d] \in CiaStates
           /\ g_drv_ctrlwrd[d] \in CiaCommands
           /\ g_drv_cia_state'[d] \in
                 {"FAULT_REACTION_ACTIVE",
                  CommandMove(g_drv_cia_state[d], g_drv_ctrlwrd[d])}
<1>1. d \in Drive
  BY EnabledDrivesAssumption
<1>2. PICK flags \in [Drive -> FlagSets] : drv_update_state(flags)
  BY DEF ReadInputs
<1> QED
  BY <1>1, <1>2
     DEF drv_update_state, Processed, drive_process_state, TypeOK, DrvTypeOK

\* Why the drives keep in step.  They are all sent the same word.  A drive is in
\* a fault state only while the machine is in fault reaction, where trn14 sends
\* the zero word after each fault reset; so between the first reset of a drive,
\* which takes it to FAULT, and the second, the others have been disabled.
OneWord == \A d, e \in Drive : g_drv_ctrlwrd[d] = g_drv_ctrlwrd[e]
FaultsAreSeen ==
    current_state # "FAULT_REACTION_ACTIVE" =>
        \A d \in Drive : g_drv_cia_state[d] \notin Faulty
ResetRhythm ==
    current_state = "FAULT_REACTION_ACTIVE" =>
        \A d \in Drive :
            /\ g_drv_ctrlwrd[d] \in {"QUICK_STOP", ZeroWord, "FAULT_RESET"}
            /\ g_drv_ctrlwrd[d] = "FAULT_RESET" => reset_in_progress = 0
OthersAtRest ==
    \A d, e \in EnabledDrives :
        g_drv_cia_state[d] = "FAULT" =>
            g_drv_ctrlwrd[e] = ZeroWord \/ g_drv_cia_state[e] \in AtRest
StepInv == InStep /\ OneWord /\ FaultsAreSeen /\ ResetRhythm /\ OthersAtRest

LEMMA InStepStep ==
    ASSUME TypeOK, StepInv, ReadInputs
    PROVE  InStep'
<1> SUFFICES ASSUME NEW d \in EnabledDrives, NEW e \in EnabledDrives,
                    g_drv_cia_state'[d] \notin Faulty,
                    g_drv_cia_state'[e] \notin Faulty
             PROVE  g_drv_cia_state'[d] = g_drv_cia_state'[e]
  BY DEF InStep, Faulty
<1> DEFINE Moved(x) == CommandMove(g_drv_cia_state[x], g_drv_ctrlwrd[x])
<1>1. /\ g_drv_cia_state'[d] = Moved(d) /\ Moved(d) \notin Faulty
      /\ g_drv_cia_state'[e] = Moved(e) /\ Moved(e) \notin Faulty
  BY EnabledStep DEF Faulty
<1>2. g_drv_ctrlwrd[d] = g_drv_ctrlwrd[e]
  BY EnabledStep DEF StepInv, OneWord
<1>3. ASSUME NEW x \in {d, e}, NEW y \in {d, e}, g_drv_cia_state[x] \in Faulty
      PROVE  Moved(x) = "SWITCH_ON_DISABLED" /\ Moved(y) = "SWITCH_ON_DISABLED"
  <2>1. /\ g_drv_cia_state[x] = "FAULT" /\ g_drv_ctrlwrd[x] = "FAULT_RESET"
        /\ Moved(x) = "SWITCH_ON_DISABLED"
    BY <1>1, <1>3, LeavesFault, EnabledStep
  <2>2. g_drv_ctrlwrd[y] = "FAULT_RESET" /\ g_drv_cia_state[y] \in AtRest
    BY <1>2, <2>1 DEF StepInv, OthersAtRest, ZeroWord
  <2>3. Moved(y) \in AtRest /\ Moved(y) \notin Faulty
    BY <1>1, <2>2, RestLasts
  <2> QED
    BY <2>1, <2>3 DEF AtRest
<1>4. CASE g_drv_cia_state[d] \notin Faulty /\ g_drv_cia_state[e] \notin Faulty
  <2>1. g_drv_cia_state[d] = g_drv_cia_state[e]
    BY <1>4 DEF StepInv, InStep, Faulty
  <2> QED
    BY <1>1, <1>2, <2>1
<1> QED
  BY <1>1, <1>3, <1>4

\* A cycle that leaves a drive in a fault state ends in fault reaction.
LEMMA FaultsAreSeenStep ==
    ASSUME NEW out, HandleEvent(out)
    PROVE  FaultsAreSeen'
<1> SUFFICES ASSUME NEW d \in Drive, g_drv_cia_state'[d] \in Faulty
             PROVE  current_state' = "FAULT_REACTION_ACTIVE"
  BY DEF FaultsAreSeen
<1>1. FaultPresent(out).DRIVE_FAULT
  BY DEF FaultPresent, AnyDrive, Faulty
<1>2. FaultCauses(out) # {}
  BY <1>1 DEF FaultCauses, FaultCause
<1> QED
  BY <1>2, FaultTrips

\* All guards send one word to all drives, or none.
LEMMA OneWordStep ==
    ASSUME TypeOK, OneWord, NEW out, HandleEvent(out)
    PROVE  OneWord'
<1>1. UNCHANGED g_drv_ctrlwrd \/ \E word : drv_set_ctrl_wrd(word)
  BY DEF HandleEvent, Follow, Trn1, Trn2, Trn3, Trn4, Trn5, Trn6, Trn7, Trn8,
         Trn9, Trn10, Trn11, Trn12, Trn13, Trn14, Trn15, Trn16, FaultReaction,
         NoTransition
<1> QED
  BY <1>1 DEF OneWord, drv_set_ctrl_wrd

\* Into fault reaction goes trn13, and there only trn14 sends words.
LEMMA IntoFaultReaction ==
    ASSUME NEW out, HandleEvent(out), current_state' = "FAULT_REACTION_ACTIVE"
    PROVE  Trn13(out) \/ FaultReaction(out)
  BY DEF HandleEvent, Follow, Trn1, Trn2, Trn3, Trn4, Trn5, Trn6, Trn7, Trn8,
         Trn9, Trn10, Trn11, Trn12, Trn14, Trn15, Trn16, NoTransition, Answered,
         Enter, Remain

LEMMA ResetRhythmStep ==
    ASSUME TypeOK, ResetRhythm, NEW out, HandleEvent(out)
    PROVE  ResetRhythm'
<1> SUFFICES ASSUME current_state' = "FAULT_REACTION_ACTIVE", NEW d \in Drive
             PROVE  /\ g_drv_ctrlwrd'[d] \in {"QUICK_STOP", ZeroWord, "FAULT_RESET"}
                    /\ g_drv_ctrlwrd'[d] = "FAULT_RESET" => reset_in_progress' = 0
  BY DEF ResetRhythm
<1>1. CASE Trn13(out)
  BY <1>1 DEF Trn13, drv_set_ctrl_wrd
<1>2. CASE FaultReaction(out)
  BY <1>2 DEF FaultReaction, drv_set_ctrl_wrd, ResetRhythm, ZeroWord
<1> QED
  BY <1>1, <1>2, IntoFaultReaction

LEMMA OthersAtRestStep ==
    ASSUME TypeOK, StepInv, ReadInputs, NEW out, HandleEvent(out)
    PROVE  OthersAtRest'
<1> SUFFICES ASSUME NEW d \in EnabledDrives, NEW e \in EnabledDrives,
                    g_drv_cia_state'[d] = "FAULT"
             PROVE  g_drv_ctrlwrd'[e] = ZeroWord \/ g_drv_cia_state'[e] \in AtRest
  BY DEF OthersAtRest
<1>1. \/ /\ g_drv_cia_state[d] = "FAULT_REACTION_ACTIVE"
         /\ g_drv_ctrlwrd[d] = "FAULT_RESET"
      \/ g_drv_cia_state[d] = "FAULT"
  BY EnabledStep, ComesToFault
<1>2. current_state = "FAULT_REACTION_ACTIVE"
  BY <1>1, EnabledStep DEF StepInv, FaultsAreSeen, Faulty
<1>3. CASE g_drv_cia_state[d] = "FAULT_REACTION_ACTIVE"
  <2>1. reset_in_progress = 0
    BY <1>1, <1>2, <1>3, EnabledStep DEF StepInv, ResetRhythm
  <2>2. ~AllDrives("SWITCH_ON_DISABLED")
    BY EnabledStep DEF AllDrives
  <2>3. FaultReaction(out)
    BY <1>2, <2>2
       DEF HandleEvent, Follow, Trn1, Trn2, Trn3, Trn4, Trn5, Trn6, Trn7, Trn8,
           Trn9, Trn10, Trn11, Trn12, Trn13, Trn14, Trn15, Trn16, NoTransition,
           Answered
  <2>4. reset_in_progress' = 1 /\ drv_set_ctrl_wrd(ZeroWord)
    BY <2>1, <2>2, <2>3 DEF FaultReaction
  <2> QED
    BY <2>4, EnabledStep DEF drv_set_ctrl_wrd
<1>4. CASE g_drv_cia_state[d] = "FAULT"
  <2>1. CommandMove(g_drv_cia_state[e], g_drv_ctrlwrd[e]) \in AtRest
    <3>1. CASE g_drv_ctrlwrd[e] = ZeroWord
      BY <3>1, ZeroWordDisables, EnabledStep
    <3>2. CASE g_drv_cia_state[e] \in AtRest
      BY <1>2, <3>2, RestLasts, EnabledStep DEF StepInv, ResetRhythm
    <3> QED
      BY <1>4, <3>1, <3>2 DEF StepInv, OthersAtRest
  <2> QED
    BY <2>1, EnabledStep DEF AtRest, Faulty
<1> QED
  BY <1>1, <1>3, <1>4

\* The enabled drives that are not in a fault state are all in one state.
THEOREM DrivesKeepInStep == SafeSpec => []InStep
<1>1. Init => StepInv
  BY EnabledDrivesAssumption
     DEF Init, DrvInit, StepInv, InStep, OneWord, FaultsAreSeen, ResetRhythm,
         OthersAtRest, Faulty
<1>2. TypeOK /\ StepInv /\ [Next]_vars => StepInv'
  <2>1. ASSUME TypeOK, StepInv, NEW out \in Outputs, step_ctrl_main(out)
        PROVE  StepInv'
    <3>1. ReadInputs /\ HandleEvent(out) /\ OneWord /\ ResetRhythm
      BY <2>1 DEF step_ctrl_main, StepInv
    <3> QED
      BY <2>1, <3>1, InStepStep, FaultsAreSeenStep, OneWordStep, ResetRhythmStep,
         OthersAtRestStep DEF StepInv
  <2>2. ASSUME StepInv, UNCHANGED vars
        PROVE  StepInv'
    BY <2>2 DEF vars, drvVars, smVars, StepInv, InStep, OneWord, FaultsAreSeen,
                ResetRhythm, OthersAtRest
  <2> QED
    BY <2>1, <2>2 DEF Next
<1> QED
  BY <1>1, <1>2, TypeCorrect, PTL DEF SafeSpec, StepInv
-----------------------------------------------------------------------------
\* What a GBC process that takes over finds: a cycle on the cleared buffer, whose
\* word is DISABLE_VOLTAGE, leaves words on which no drive moves in the next.

\* No drive moves after the next update, whatever flags that finds.
Stopping ==
    \A d \in Drive :
        CommandMove(g_drv_cia_state[d], g_drv_ctrlwrd[d]) # "OPERATION_ENABLED"

\* In a quick stop no drive moves or has the word to.
QuickStopHolds ==
    current_state = "QUICK_STOP_ACTIVE" =>
        \A d \in Drive : /\ g_drv_cia_state[d] # "OPERATION_ENABLED"
                         /\ g_drv_ctrlwrd[d] # "ENABLE_OPERATION"

\* Why: in OPERATION_ENABLED a drive that still has the word it was enabled with
\* is enabled, so a quick stop is not arrived at on that word.
EnabledStay ==
    current_state = "OPERATION_ENABLED" =>
        \A d \in EnabledDrives :
            g_drv_ctrlwrd[d] = "ENABLE_OPERATION" =>
                g_drv_cia_state[d] = "OPERATION_ENABLED"

QuickStopInv == QuickStopHolds /\ EnabledStay

\* Trn16 sends the enumerator of the command as a word.  All that follows rests
\* on that not being the word for enabling.
EnumeratorIsNoEnable == EnableOperationEnum # "ENABLE_OPERATION"

LEMMA StoppingStops ==
    ASSUME TypeOK, Stopping, ReadInputs
    PROVE  Moving' = {}
<1>1. ASSUME NEW d \in Drive
      PROVE  g_drv_cia_state'[d] # "OPERATION_ENABLED"
  BY <1>1, DriveStep DEF Stopping
<1> QED
  BY <1>1 DEF Moving

\* Outside the permit states every drive is stopping.
LEMMA StoppingWithoutPermit ==
    ASSUME TypeOK, MotionAuthority, current_state \notin PermitStates
    PROVE  Stopping
<1>1. ASSUME NEW d \in Drive
      PROVE  CommandMove(g_drv_cia_state[d], g_drv_ctrlwrd[d]) # "OPERATION_ENABLED"
  <2>1. g_drv_cia_state[d] \in CiaStates /\ g_drv_ctrlwrd[d] \in CiaCommands
    BY <1>1 DEF TypeOK, DrvTypeOK
  <2>2. /\ g_drv_cia_state[d] = "OPERATION_ENABLED" => g_drv_ctrlwrd[d] = "QUICK_STOP"
        /\ g_drv_ctrlwrd[d] = "ENABLE_OPERATION" =>
              g_drv_cia_state[d] \notin {"SWITCHED_ON", "QUICK_STOP_ACTIVE"}
    BY <1>1 DEF MotionAuthority, Moving
  <2> QED
    BY <2>1, <2>2, MoveToOperation
<1> QED
  BY <1>1 DEF Stopping

\* Of the machine's guards only those below end a cycle in a permit state when
\* the command is DISABLE_VOLTAGE.
LEMMA DisableWords ==
    ASSUME NEW out, HandleEvent(out), out.command = ZeroWord,
           current_state' \in PermitStates
    PROVE  \/ drv_set_ctrl_wrd(ZeroWord)
           \/ current_state' = "QUICK_STOP_ACTIVE"
<1> USE DEF PermitStates, ZeroWord
<1>1. CASE Trn9(out) \/ Trn10(out)
  BY <1>1 DEF Trn9, Trn10, Follow, Enter, Remain
<1>2. CASE Trn12(out)
  BY <1>2 DEF Trn12, Enter, Remain
<1>3. CASE NoTransition(out)
  BY <1>3 DEF NoTransition, Answered, Remain
<1>4. CASE \/ Trn1(out) \/ Trn13(out) \/ Trn14(out) \/ FaultReaction(out)
  BY <1>4 DEF Trn1, Trn13, Trn14, FaultReaction, Enter, Remain
<1>5. CASE Trn2(out) \/ Trn11(out) \/ Trn16(out)
  BY <1>5 DEF Trn2, Trn11, Trn16
<1>6. CASE \/ Trn3(out) \/ Trn4(out) \/ Trn5(out) \/ Trn6(out) \/ Trn8(out)
           \/ Trn15(out)
  BY <1>6 DEF Trn3, Trn4, Trn5, Trn6, Trn8, Trn15, Follow
<1>7. CASE Trn7(out)
  BY <1>7 DEF Trn7, Follow, Enter, Remain
<1> QED
  BY <1>1, <1>2, <1>3, <1>4, <1>5, <1>6, <1>7 DEF HandleEvent

LEMMA DisableStops ==
    ASSUME TypeOK, TypeOK', MotionAuthority', QuickStopHolds', NEW out,
           HandleEvent(out), out.command = ZeroWord
    PROVE  Stopping'
<1>1. CASE current_state' \notin PermitStates
  <2>1. (TypeOK /\ MotionAuthority /\ current_state \notin PermitStates
            => Stopping)'
    BY StoppingWithoutPermit, PTL
  <2> QED
    BY <1>1, <2>1
<1>2. CASE drv_set_ctrl_wrd(ZeroWord)
  <2>1. ASSUME NEW d \in Drive
        PROVE  /\ g_drv_ctrlwrd'[d] = ZeroWord
               /\ g_drv_cia_state'[d] \in CiaStates
    BY <1>2, <2>1 DEF drv_set_ctrl_wrd, TypeOK, DrvTypeOK
  <2> QED
    BY <2>1, ZeroWordDisables DEF Stopping, AtRest, Faulty
<1>3. CASE current_state' = "QUICK_STOP_ACTIVE"
  <2>1. ASSUME NEW d \in Drive
        PROVE  /\ g_drv_cia_state'[d] \in CiaStates
               /\ g_drv_ctrlwrd'[d] \in CiaCommands
               /\ g_drv_cia_state'[d] # "OPERATION_ENABLED"
               /\ g_drv_ctrlwrd'[d] # "ENABLE_OPERATION"
    BY <1>3, <2>1 DEF QuickStopHolds, TypeOK, DrvTypeOK
  <2> QED
    BY <2>1, MoveToOperation DEF Stopping
<1> QED
  BY <1>1, <1>2, <1>3, DisableWords
-----------------------------------------------------------------------------
\* What a cycle that ends in OPERATION_ENABLED or in a quick stop can have done.
LEMMA OperationWords ==
    ASSUME NEW out, HandleEvent(out), current_state' = "OPERATION_ENABLED"
    PROVE  \/ AllDrives("OPERATION_ENABLED")
           \/ \A d \in Drive : g_drv_ctrlwrd'[d] # "ENABLE_OPERATION"
           \/ /\ current_state = "OPERATION_ENABLED" /\ FaultCauses(out) = {}
              /\ UNCHANGED g_drv_ctrlwrd
<1> USE DEF drv_set_ctrl_wrd, Enter, Remain
<1>1. CASE Trn1(out) \/ Trn2(out) \/ Trn13(out) \/ Trn14(out) \/ Trn12(out)
  BY <1>1 DEF Trn1, Trn2, Trn13, Trn14, Trn12
<1>2. CASE Trn3(out) \/ Trn6(out) \/ Trn7(out) \/ Trn10(out) \/ Trn15(out)
  BY <1>2 DEF Trn3, Trn6, Trn7, Trn10, Trn15, Follow
<1>3. CASE Trn4(out)
  BY <1>3 DEF Trn4, Follow
<1>4. CASE Trn5(out) \/ Trn8(out) \/ Trn9(out)
  BY <1>4, DisableOperationWordAssumption DEF Trn5, Trn8, Trn9, Follow
<1>5. CASE Trn11(out)
  BY <1>5 DEF Trn11
<1>6. CASE Trn16(out)
  BY <1>6 DEF Trn16
<1>7. CASE FaultReaction(out)
  BY <1>7 DEF FaultReaction
<1>8. CASE NoTransition(out)
  BY <1>8 DEF NoTransition, NoFaultCondition
<1> QED
  BY <1>1, <1>2, <1>3, <1>4, <1>5, <1>6, <1>7, <1>8 DEF HandleEvent

LEMMA QuickStopWords ==
    ASSUME NEW out, HandleEvent(out), current_state' = "QUICK_STOP_ACTIVE",
           EnumeratorIsNoEnable
    PROVE  \/ /\ current_state = "OPERATION_ENABLED"
              /\ AllDrives("QUICK_STOP_ACTIVE") \/ AllDrives("SWITCH_ON_DISABLED")
              /\ UNCHANGED g_drv_ctrlwrd
           \/ /\ current_state = "QUICK_STOP_ACTIVE"
              /\ \/ UNCHANGED g_drv_ctrlwrd
                 \/ \A d \in Drive : g_drv_ctrlwrd'[d] # "ENABLE_OPERATION"
<1> USE DEF drv_set_ctrl_wrd, Enter, Remain
<1>1. CASE Trn1(out) \/ Trn2(out) \/ Trn13(out) \/ Trn14(out) \/ Trn16(out)
  BY <1>1 DEF Trn1, Trn2, Trn13, Trn14, Trn16
<1>2. CASE \/ Trn3(out) \/ Trn4(out) \/ Trn5(out) \/ Trn6(out) \/ Trn7(out)
           \/ Trn8(out) \/ Trn9(out) \/ Trn10(out) \/ Trn15(out)
  BY <1>2 DEF Trn3, Trn4, Trn5, Trn6, Trn7, Trn8, Trn9, Trn10, Trn15, Follow
<1>3. CASE Trn11(out)
  BY <1>3 DEF Trn11
<1>4. CASE Trn12(out)
  BY <1>4 DEF Trn12, EnumeratorIsNoEnable
<1>5. CASE FaultReaction(out) \/ NoTransition(out)
  BY <1>5 DEF FaultReaction, NoTransition, Answered
<1> QED
  BY <1>1, <1>2, <1>3, <1>4, <1>5 DEF HandleEvent

LEMMA EnabledStayStep ==
    ASSUME TypeOK, EnabledStay, NEW out \in Outputs, step_ctrl_main(out)
    PROVE  EnabledStay'
<1>1. ReadInputs /\ HandleEvent(out)
  BY DEF step_ctrl_main
<1> SUFFICES ASSUME current_state' = "OPERATION_ENABLED", NEW d \in EnabledDrives,
                    g_drv_ctrlwrd'[d] = "ENABLE_OPERATION"
             PROVE  g_drv_cia_state'[d] = "OPERATION_ENABLED"
  BY DEF EnabledStay
<1>2. d \in Drive
  BY EnabledDrivesAssumption
<1>3. CASE AllDrives("OPERATION_ENABLED")
  BY <1>2, <1>3 DEF AllDrives
<1>4. CASE /\ current_state = "OPERATION_ENABLED" /\ FaultCauses(out) = {}
           /\ UNCHANGED g_drv_ctrlwrd
  <2>1. /\ g_drv_ctrlwrd[d] = "ENABLE_OPERATION"
        /\ g_drv_cia_state[d] = "OPERATION_ENABLED"
    BY <1>4 DEF EnabledStay
  <2>2. CommandMove("OPERATION_ENABLED", "ENABLE_OPERATION") = "OPERATION_ENABLED"
    BY DEF CommandMove, DriveMoves
  <2>3. g_drv_cia_state'[d] # "FAULT_REACTION_ACTIVE"
    BY <1>2, <1>4, NoFaultFacts
  <2> QED
    BY <1>1, <2>1, <2>2, <2>3, EnabledStep
<1> QED
  BY <1>1, <1>2, <1>3, <1>4, OperationWords

LEMMA QuickStopHoldsStep ==
    ASSUME TypeOK, QuickStopInv, EnumeratorIsNoEnable, NEW out \in Outputs,
           step_ctrl_main(out)
    PROVE  QuickStopHolds'
<1>1. ReadInputs /\ HandleEvent(out)
  BY DEF step_ctrl_main
<1> SUFFICES ASSUME current_state' = "QUICK_STOP_ACTIVE", NEW d \in Drive
             PROVE  /\ g_drv_cia_state'[d] # "OPERATION_ENABLED"
                    /\ g_drv_ctrlwrd'[d] # "ENABLE_OPERATION"
  BY DEF QuickStopHolds
<1>2. CASE /\ current_state = "OPERATION_ENABLED"
           /\ AllDrives("QUICK_STOP_ACTIVE") \/ AllDrives("SWITCH_ON_DISABLED")
           /\ UNCHANGED g_drv_ctrlwrd
  <2>1. g_drv_cia_state'[d] \in {"QUICK_STOP_ACTIVE", "SWITCH_ON_DISABLED"}
    BY <1>2 DEF AllDrives
  <2>2. d \in EnabledDrives
    <3>1. PICK flags \in [Drive -> FlagSets] : drv_update_state(flags)
      BY <1>1 DEF ReadInputs
    <3> QED
      BY <2>1, <3>1 DEF drv_update_state, Processed, drive_process_state
  <2>3. g_drv_cia_state'[d] = CommandMove(g_drv_cia_state[d], g_drv_ctrlwrd[d])
    BY <1>1, <2>1, <2>2, EnabledStep
  <2>4. CommandMove("OPERATION_ENABLED", "ENABLE_OPERATION") = "OPERATION_ENABLED"
    BY DEF CommandMove, DriveMoves
  <2>5. g_drv_ctrlwrd[d] # "ENABLE_OPERATION"
    BY <1>2, <2>1, <2>2, <2>3, <2>4 DEF QuickStopInv, EnabledStay
  <2> QED
    BY <1>2, <2>1, <2>5
<1>3. CASE /\ current_state = "QUICK_STOP_ACTIVE"
           /\ \/ UNCHANGED g_drv_ctrlwrd
              \/ \A e \in Drive : g_drv_ctrlwrd'[e] # "ENABLE_OPERATION"
  <2>1. /\ g_drv_cia_state[d] # "OPERATION_ENABLED"
        /\ g_drv_ctrlwrd[d] # "ENABLE_OPERATION"
    BY <1>3 DEF QuickStopInv, QuickStopHolds
  <2>2. g_drv_cia_state[d] \in CiaStates /\ g_drv_ctrlwrd[d] \in CiaCommands
    BY DEF TypeOK, DrvTypeOK
  <2>3. CommandMove(g_drv_cia_state[d], g_drv_ctrlwrd[d]) # "OPERATION_ENABLED"
    BY <2>1, <2>2, MoveToOperation
  <2> QED
    BY <1>1, <1>3, <2>1, <2>3, DriveStep
<1> QED
  BY <1>1, <1>2, <1>3, QuickStopWords

LEMMA QuickStopInvInit == Init => QuickStopInv
  BY DEF Init, QuickStopInv, QuickStopHolds, EnabledStay

LEMMA QuickStopInvStep ==
    TypeOK /\ QuickStopInv /\ EnumeratorIsNoEnable /\ [Next]_vars => QuickStopInv'
<1>1. ASSUME QuickStopInv, UNCHANGED vars
      PROVE  QuickStopInv'
  BY <1>1 DEF vars, drvVars, smVars, QuickStopInv, QuickStopHolds, EnabledStay
<1>2. ASSUME TypeOK, QuickStopInv, EnumeratorIsNoEnable, NEW out \in Outputs,
             step_ctrl_main(out)
      PROVE  QuickStopInv'
  BY <1>2, EnabledStayStep, QuickStopHoldsStep DEF QuickStopInv
<1> QED
  BY <1>1, <1>2 DEF Next
=============================================================================
