----------------------------- MODULE SetPos_proofs -----------------------------
(***************************************************************************)
(* Proofs about SetPos, for any number of drives and any set positions.     *)
(*                                                                         *)
(* What a motor does now was worked out in the cycle before, written in two *)
(* parts and taken up by a pulse that may come at any time.  SetInv follows *)
(* the numbers along that way: last_set_pos is what the last pulse asked    *)
(* the drive for (Known), a speed is written only together with a new set   *)
(* position and the target that goes with it (Prepared), and a chip with a  *)
(* speed heads for what was asked, one without stands there (Underway).     *)
(***************************************************************************)
EXTENDS SetPos, TLAPS

Known(d) == stage \in {"get_actpos", "set_setpos", "update"} =>
                last_set_pos[d] = asked[d]

Prepared(d) ==
    /\ stage \in {"x_target", "trigger"} =>
          (written[Chip(d)].vmax = 0 => last_set_pos[d] = asked[d])
    /\ (stage = "x_target" /\ written[Chip(d)].vmax # 0) =>
          to_apply[d] = last_set_pos[d]
    /\ (stage = "trigger" /\ written[Chip(d)].vmax # 0) =>
          written[Chip(d)].target = last_set_pos[d]

Underway(d) ==
    /\ speed[Chip(d)] # 0 => x_target[Chip(d)] = asked[d]
    /\ (speed[Chip(d)] = 0 /\ d \notin lost) => xactual[Chip(d)] = asked[d]

SetInv ==
    /\ TypeOK
    /\ \A d \in Drive : Known(d) /\ Prepared(d) /\ Underway(d)

\* Chip pairs the drives with the chips, one to one.
LEMMA ChipIsMirror ==
    /\ \A d \in Drive : Chip(d) \in Drive /\ Chip(Chip(d)) = d
    /\ \A d, e \in Drive : Chip(d) = Chip(e) => d = e
BY SetPosAssumption DEF Drive, Chip

LEMMA AbsIsNat == \A n \in Int : Abs(n) \in Nat /\ (Abs(n) = 0 <=> n = 0)
BY DEF Abs

\* A drive that is given no speed keeps its set position, and one that is given
\* a speed gets the set position GBC asks for.
LEMMA SpeedMeansMove ==
  ASSUME TypeOK, NEW d \in Drive
  PROVE  /\ vmax(d) \in Nat
         /\ Remembered(d) \in Positions
         /\ vmax(d) = 0 => Remembered(d) = last_set_pos[d]
         /\ vmax(d) # 0 => d \in Moved /\ Remembered(d) = set_position[d]
<1>1. set_position[d] \in Int /\ last_set_pos[d] \in Int
  BY SetPosAssumption DEF TypeOK
<1>2. Abs(move_distance(d)) \in Nat /\ Abs(0) = 0
  BY <1>1, AbsIsNat DEF move_distance, Abs
<1>3. CASE d \in Moved
  <2>1. move_distance(d) # 0 /\ move_distance(d) \in Int
    BY <1>1, <1>3 DEF Moved, move_distance
  <2>2. vmax(d) \in Nat /\ vmax(d) # 0
    BY <1>3, <2>1, AbsIsNat DEF vmax
  <2> QED BY <1>3, <2>2 DEF Remembered, TypeOK
<1>4. CASE d \notin Moved
  BY <1>1, <1>2, <1>4 DEF vmax, Remembered, TypeOK
<1> QED BY <1>3, <1>4

\* Every variable keeps its type: a VMAX written is never negative.
THEOREM TypeCorrect == Spec => []TypeOK
<1> USE DEF TypeOK
<1>1. Init => TypeOK
  BY SetPosAssumption DEF Init
<1>2. TypeOK /\ [Next]_spVars => TypeOK'
  <2> SUFFICES ASSUME TypeOK, [Next]_spVars PROVE TypeOK'
    OBVIOUS
  <2>1. CASE drv_get_actpos
    BY <2>1 DEF drv_get_actpos
  <2>2. CASE SetVmax
    <3>1. \A d \in Drive : vmax(d) \in Nat /\ Remembered(d) \in Positions
      BY SpeedMeansMove DEF TypeOK
    <3>2. to_apply' \in [Drive -> Int]
      BY <2>2, SetPosAssumption DEF SetVmax
    <3>3. written' \in [Drive -> [vmax : Nat, target : Int]]
      <4> HIDE DEF TypeOK
      <4>1. written' = [c \in Drive |-> [written[c] EXCEPT !.vmax = vmax(Chip(c))]]
        BY <2>2 DEF SetVmax
      <4>2. written \in [Drive -> [vmax : Nat, target : Int]]
        BY DEF TypeOK
      <4>3. ASSUME NEW c \in Drive
            PROVE  [written[c] EXCEPT !.vmax = vmax(Chip(c))] \in [vmax : Nat, target : Int]
        <5>1. vmax(Chip(c)) \in Nat
          BY <3>1, ChipIsMirror
        <5> QED BY <4>2, <5>1
      <4> QED BY <4>1, <4>3
    <3> QED BY <2>2, <3>1, <3>2, <3>3 DEF SetVmax
  <2>3. CASE SetXTarget
    <3>1. \A c \in Drive : /\ written[c] \in [vmax : Nat, target : Int]
                            /\ to_apply[Chip(c)] \in Int
      BY ChipIsMirror
    <3>2. written' \in [Drive -> [vmax : Nat, target : Int]]
      BY <2>3, <3>1 DEF SetXTarget
    <3> QED BY <2>3, <3>2 DEF SetXTarget
  <2>4. CASE drv_send_start_trigger
    BY <2>4 DEF drv_send_start_trigger, TakeUp
  <2>5. CASE drv_update_state
    BY <2>5 DEF drv_update_state, UpdateStates
  <2>6. ASSUME NEW c \in Drive, Step(c) PROVE TypeOK'
    <3>1. xactual[c] + 1 \in Int /\ xactual[c] - 1 \in Int
      OBVIOUS
    <3>2. xactual' \in [Drive -> Int]
      BY <2>6, <3>1 DEF Step
    <3> QED BY <2>6, <3>2 DEF Step
  <2>7. CASE UNCHANGED spVars
    BY <2>7 DEF spVars
  <2> QED BY <2>1, <2>2, <2>3, <2>4, <2>5, <2>6, <2>7 DEF Next
<1> QED BY <1>1, <1>2, PTL DEF Spec
-----------------------------------------------------------------------------
\* The two halves of drv_set_setpos prepare the next pulse.
LEMMA SetVmaxKeeps ==
  ASSUME SetInv, SetVmax, NEW d \in Drive
  PROVE  (Known(d) /\ Prepared(d) /\ Underway(d))'
<1> USE DEF SetInv
<1>1. Chip(d) \in Drive /\ Chip(Chip(d)) = d
  BY ChipIsMirror
<1>2. last_set_pos[d] = asked[d]
  BY DEF Known, SetVmax
<1>3. /\ written'[Chip(d)].vmax = vmax(d)
      /\ last_set_pos'[d] = Remembered(d)
  <2>1. written[Chip(d)] \in [vmax : Nat, target : Int]
    BY <1>1 DEF TypeOK
  <2> QED BY <1>1, <2>1 DEF SetVmax
<1>4. vmax(d) # 0 => to_apply'[d] = last_set_pos'[d]
  BY <1>3, SpeedMeansMove DEF SetVmax
<1>5. Prepared(d)'
  BY <1>2, <1>3, <1>4, SpeedMeansMove DEF Prepared, SetVmax, Chip
<1>6. Known(d)' /\ Underway(d)'
  BY DEF Known, Underway, SetVmax, Chip
<1> QED BY <1>5, <1>6

LEMMA SetXTargetKeeps ==
  ASSUME SetInv, SetXTarget, NEW d \in Drive
  PROVE  (Known(d) /\ Prepared(d) /\ Underway(d))'
<1> USE DEF SetInv
<1>1. Chip(d) \in Drive /\ Chip(Chip(d)) = d
  BY ChipIsMirror
<1>2. /\ written'[Chip(d)].vmax = written[Chip(d)].vmax
      /\ written'[Chip(d)].target = to_apply[d]
  <2>1. written[Chip(d)] \in [vmax : Nat, target : Int]
    BY <1>1 DEF TypeOK
  <2> QED BY <1>1, <2>1 DEF SetXTarget
<1>3. Prepared(d)'
  BY <1>2 DEF Prepared, SetXTarget, Chip
<1>4. Known(d)' /\ Underway(d)'
  BY DEF Known, Underway, SetXTarget, Chip
<1> QED BY <1>3, <1>4

\* Wherever the chips are when the pulse comes: one that gets a speed gets the
\* new set position, and one that gets none stays at the old one if it is there.
LEMMA TriggerKeeps ==
  ASSUME SetInv, drv_send_start_trigger, NEW d \in Drive
  PROVE  (Known(d) /\ Prepared(d) /\ Underway(d))'
<1> USE DEF SetInv
<1>1. Chip(d) \in Drive
  BY ChipIsMirror
<1>2. /\ speed'[Chip(d)] = written[Chip(d)].vmax
      /\ x_target'[Chip(d)] = written[Chip(d)].target
      /\ asked' = last_set_pos /\ xactual' = xactual
  BY <1>1 DEF drv_send_start_trigger, TakeUp
<1>3. Underway(d)'
  <2>1. CASE written[Chip(d)].vmax # 0
    BY <1>2, <2>1 DEF Prepared, Underway, drv_send_start_trigger, Chip
  <2>2. CASE written[Chip(d)].vmax = 0
    <3>1. d \notin lost' => d \notin lost /\ ~Moving(Chip(d))
      BY <2>2 DEF drv_send_start_trigger
    <3>2. d \notin lost' => xactual[Chip(d)] = asked[d]
      BY <3>1 DEF Underway, Moving
    <3>3. last_set_pos[d] = asked[d]
      BY <2>2 DEF Prepared, drv_send_start_trigger
    <3> QED BY <1>2, <2>2, <3>2, <3>3 DEF Underway, Chip
  <2> QED BY <2>1, <2>2
<1>4. Known(d)' /\ Prepared(d)'
  BY <1>2 DEF Known, Prepared, drv_send_start_trigger, Chip
<1> QED BY <1>3, <1>4

\* A reset stops all chips at position zero.
LEMMA UpdateKeeps ==
  ASSUME SetInv, drv_update_state, NEW d \in Drive
  PROVE  (Known(d) /\ Prepared(d) /\ Underway(d))'
<1> USE DEF SetInv
<1>1. Known(d)' /\ Prepared(d)'
  BY DEF Known, Prepared, drv_update_state, UpdateStates, Chip
<1>2. CASE UNCHANGED <<xactual, x_target, speed, lost>>
  BY <1>1, <1>2 DEF Underway, drv_update_state, UpdateStates, Chip
<1>3. CASE ~UNCHANGED <<xactual, x_target, speed, lost>>
  <2>1. /\ speed' = [c \in Drive |-> 0] /\ xactual' = [c \in Drive |-> 0]
        /\ lost' = {e \in Drive : asked[e] # 0} /\ asked' = asked
    BY <1>3 DEF drv_update_state, UpdateStates
  <2> QED BY <1>1, <2>1, ChipIsMirror DEF Underway, Chip
<1> QED BY <1>2, <1>3

\* A chip that makes a step has a speed.
LEMMA StepKeeps ==
  ASSUME SetInv, NEW c \in Drive, Step(c), NEW d \in Drive
  PROVE  (Known(d) /\ Prepared(d) /\ Underway(d))'
<1> USE DEF SetInv
<1>1. Known(d)' /\ Prepared(d)'
  BY DEF Known, Prepared, Step, Chip
<1>2. speed[Chip(d)] = 0 => xactual'[Chip(d)] = xactual[Chip(d)]
  BY ChipIsMirror DEF Step, Moving, TypeOK
<1>3. Underway(d)'
  BY <1>2 DEF Underway, Step, Chip
<1> QED BY <1>1, <1>3

LEMMA SetInvInvariant == Spec => []SetInv
<1>1. Init => SetInv
  <2> SUFFICES ASSUME Init PROVE SetInv
    OBVIOUS
  <2>1. TypeOK
    BY SetPosAssumption DEF Init, TypeOK
  <2>2. ASSUME NEW d \in Drive PROVE Known(d) /\ Prepared(d) /\ Underway(d)
    BY ChipIsMirror DEF Init, Known, Prepared, Underway
  <2> QED BY <2>1, <2>2 DEF SetInv
<1>2. SetInv /\ TypeOK' /\ [Next]_spVars => SetInv'
  <2> SUFFICES ASSUME SetInv, [Next]_spVars, NEW d \in Drive
               PROVE  (Known(d) /\ Prepared(d) /\ Underway(d))'
    BY DEF SetInv, Drive
  <2>1. CASE drv_get_actpos
    BY <2>1 DEF drv_get_actpos, SetInv, Known, Prepared, Underway, Chip
  <2>2. CASE SetVmax
    BY <2>2, SetVmaxKeeps
  <2>3. CASE SetXTarget
    BY <2>3, SetXTargetKeeps
  <2>4. CASE drv_send_start_trigger
    BY <2>4, TriggerKeeps
  <2>5. CASE drv_update_state
    BY <2>5, UpdateKeeps
  <2>6. ASSUME NEW c \in Drive, Step(c)
        PROVE  (Known(d) /\ Prepared(d) /\ Underway(d))'
    BY <2>6, StepKeeps
  <2>7. CASE UNCHANGED spVars
    BY <2>7 DEF spVars, SetInv, Known, Prepared, Underway, Chip
  <2> QED BY <2>1, <2>2, <2>3, <2>4, <2>5, <2>6, <2>7 DEF Next
<1> QED BY <1>1, <1>2, TypeCorrect, PTL DEF Spec

\* Whatever GBC asks for, whichever drives are enabled when, and whenever the
\* pulses come: a motor comes to rest where last_set_pos had it, unless a pulse
\* that came too early stopped it on the way or its chip was reset, and that only
\* until its drive is given a new position.
THEOREM MotorsRestAtSetPos == Spec => []RestsAtSetPos
<1>1. SetInv => RestsAtSetPos
  BY DEF SetInv, Underway, RestsAtSetPos, Moving
<1> QED BY <1>1, SetInvInvariant, PTL

\* No step of a motor leads away from the set position of its own drive, with
\* nothing assumed of when the pulses come and no drive excepted.
THEOREM MotorsHeadForSetPos == Spec => HeadsForSetPos
<1>1. ASSUME SetInv, NEW d \in Drive, Step(Chip(d))
      PROVE  Abs(xactual'[Chip(d)] - asked[d]) < Abs(xactual[Chip(d)] - asked[d])
  <2>1. Chip(d) \in Drive /\ xactual[Chip(d)] \in Int /\ asked[d] \in Int
    BY <1>1, ChipIsMirror, SetPosAssumption DEF SetInv, TypeOK
  <2>2. x_target[Chip(d)] = asked[d] /\ xactual[Chip(d)] # asked[d]
    BY <1>1 DEF SetInv, Underway, Step, Moving
  <2>3. xactual'[Chip(d)] = IF xactual[Chip(d)] < asked[d] THEN xactual[Chip(d)] + 1
                                                         ELSE xactual[Chip(d)] - 1
    BY <1>1, <2>1, <2>2 DEF Step, SetInv, TypeOK
  <2> QED BY <2>1, <2>2, <2>3 DEF Abs
<1>2. SetInv => [\A d \in Drive : Step(Chip(d)) =>
           Abs(xactual'[Chip(d)] - asked[d]) < Abs(xactual[Chip(d)] - asked[d])]_spVars
  BY <1>1
<1> QED BY <1>2, SetInvInvariant, PTL DEF Spec, HeadsForSetPos

\* What a disabled drive's chip is told: nothing from the pulse on, for no steps
\* were written for it while it was disabled.
StillInv ==
    /\ stage \in {"x_target", "trigger"} =>
          \A d \in Drive \ enabled : written[Chip(d)].vmax = 0
    /\ \A d \in still : speed[Chip(d)] = 0

\* A drive that is not enabled when the pulse comes stands still until the next
\* one, whatever target is written or was never computed for it.
THEOREM DisabledDrivesStandStill == Spec => StandsStill
<1>1. Init => StillInv
  BY ChipIsMirror DEF Init, StillInv
<1>2. TypeOK /\ StillInv /\ [Next]_spVars => StillInv'
  <2> SUFFICES ASSUME TypeOK, StillInv, [Next]_spVars PROVE StillInv'
    OBVIOUS
  <2> USE DEF StillInv
  <2>1. CASE drv_get_actpos
    BY <2>1 DEF drv_get_actpos, Chip
  <2>2. CASE SetVmax
    <3>1. ASSUME NEW d \in Drive \ enabled' PROVE written'[Chip(d)].vmax = 0
      <4>1. /\ Chip(d) \in Drive /\ Chip(Chip(d)) = d
            /\ written[Chip(d)] \in [vmax : Nat, target : Int]
        BY ChipIsMirror DEF TypeOK
      <4>2. written'[Chip(d)].vmax = vmax(d)
        BY <2>2, <4>1 DEF SetVmax
      <4> QED BY <2>2, <4>2 DEF SetVmax, vmax, Moved
    <3> QED BY <2>2, <3>1 DEF SetVmax, Chip
  <2>3. CASE SetXTarget
    <3>1. ASSUME NEW d \in Drive PROVE written'[Chip(d)].vmax = written[Chip(d)].vmax
      <4>1. Chip(d) \in Drive /\ written[Chip(d)] \in [vmax : Nat, target : Int]
        BY ChipIsMirror DEF TypeOK
      <4> QED BY <2>3, <4>1 DEF SetXTarget
    <3> QED BY <2>3, <3>1 DEF SetXTarget, Chip
  <2>4. CASE drv_send_start_trigger
    BY <2>4, ChipIsMirror DEF drv_send_start_trigger, TakeUp, Chip
  <2>5. CASE drv_update_state
    BY <2>5, ChipIsMirror DEF drv_update_state, UpdateStates, Chip, TypeOK
  <2>6. ASSUME NEW c \in Drive, Step(c) PROVE StillInv'
    <3>1. ASSUME NEW d \in still PROVE speed'[Chip(d)] = 0
      <4>1. Chip(d) # c /\ Chip(d) \in Drive
        BY <2>6, ChipIsMirror DEF Step, Moving, TypeOK
      <4> QED BY <2>6, <4>1 DEF Step, TypeOK
    <3> QED BY <2>6, <3>1 DEF Step, Chip
  <2>7. CASE UNCHANGED spVars
    BY <2>7 DEF spVars, Chip
  <2> QED BY <2>1, <2>2, <2>3, <2>4, <2>5, <2>6, <2>7 DEF Next
<1>3. StillInv => \A d \in still : ~Step(Chip(d))
  BY DEF StillInv, Step, Moving
<1>4. StillInv => [\A d \in still : ~Step(Chip(d))]_spVars
  BY <1>3
<1> QED BY <1>1, <1>2, <1>4, TypeCorrect, PTL DEF Spec, StandsStill
=============================================================================
