-------------------------------- MODULE SetPos --------------------------------
(***************************************************************************)
(* step_control.c and drives.c: the positions.  Once a bus cycle            *)
(* step_ctrl_main() reads every chip's XACTUAL into dpm_in, turns GBC's set *)
(* positions into one VMAX and one X_TARGET per chip, writes the two        *)
(* registers one after the other, and pulses the START pin; then it updates *)
(* the drive states.  The chips move all the while.                         *)
(*                                                                         *)
(* A chip takes new values of VMAX and X_TARGET up at the START pulse only  *)
(* (START_CONF) and then runs at VMAX without a ramp (RAMPMODE) until it is *)
(* at the target.  VMAX is the distance over the cycle time, but nothing    *)
(* makes a pass wait for the chips, and after an overrun the next pass      *)
(* follows at once: a pulse may come after any number of steps, few or all. *)
(* The state machines of Drives appear as the set of enabled drives, which  *)
(* any update may change.                                                   *)
(***************************************************************************)
EXTENDS Integers

CONSTANTS
    NumDrives,   \* SM_NUM_DRIVES
    Positions    \* the set positions GBC may ask for

Drive == 0 .. NumDrives - 1

ASSUME SetPosAssumption ==
    /\ NumDrives \in Nat \ {0}
    /\ Positions \subseteq Int
    /\ 0 \in Positions

VARIABLES
    stage,            \* the call step_ctrl_main makes next
    enabled,          \* the drives in CIA_OPERATION_ENABLED
    set_position,     \* dpm_out->joint_set_position
    actual_position,  \* dpm_in->joint_actual_position
    last_set_pos,     \* static array of drv_set_setpos
    to_apply,         \* setpos_to_apply_to_drive, read by the second write
    written,          \* per chip: VMAX and X_TARGET as last written
    xactual,          \* per chip: its position
    x_target,         \* per chip: the target it runs to
    speed,            \* per chip: the VMAX it runs at
    asked,            \* history: last_set_pos at the last pulse
    still,            \* history: the drives not enabled at the last pulse
    lost              \* history: the drives a chip reset put in another place,
                      \* or a pulse stopped before they were there, since then

spVars == <<stage, enabled, set_position, actual_position, last_set_pos,
            to_apply, written, xactual, x_target, speed, asked, still, lost>>

TypeOK ==
    /\ stage \in {"get_actpos", "set_setpos", "x_target", "trigger", "update"}
    /\ enabled \subseteq Drive /\ still \subseteq Drive /\ lost \subseteq Drive
    /\ set_position \in [Drive -> Positions]
    /\ actual_position \in [Drive -> Int]
    /\ last_set_pos \in [Drive -> Positions]
    /\ to_apply \in [Drive -> Int]
    /\ written \in [Drive -> [vmax : Nat, target : Int]]
    /\ xactual \in [Drive -> Int]
    /\ x_target \in [Drive -> Int]
    /\ speed \in [Drive -> Nat]
    /\ asked \in [Drive -> Positions]

\* At boot test_tmc4361a() has left XACTUAL zero.
Init ==
    /\ stage = "get_actpos"
    /\ enabled = {} /\ still = Drive /\ lost = {}
    /\ set_position \in [Drive -> Positions]
    /\ actual_position = [d \in Drive |-> 0]
    /\ last_set_pos = [d \in Drive |-> 0]
    /\ to_apply = [d \in Drive |-> 0]
    /\ written = [c \in Drive |-> [vmax |-> 0, target |-> 0]]
    /\ xactual = [c \in Drive |-> 0]
    /\ x_target = [c \in Drive |-> 0]
    /\ speed = [c \in Drive |-> 0]
    /\ asked = [d \in Drive |-> 0]
-----------------------------------------------------------------------------
Abs(n) == IF n < 0 THEN -n ELSE n

\* The first value of a chained write travels to the chip furthest down the
\* chain, so drive d's values reach this chip.  (Reads come back in order:
\* drive d's position is that of chip d.  See SpiChain.)
Chip(d) == NumDrives - 1 - d

drv_get_actpos ==
    /\ stage = "get_actpos"
    /\ actual_position' = xactual
    /\ stage' = "set_setpos"
    /\ UNCHANGED <<enabled, set_position, last_set_pos, to_apply, written,
                   xactual, x_target, speed, asked, still, lost>>

move_distance(d) == set_position[d] - last_set_pos[d]

\* The loop over the drives is left at the first enabled drive that has not
\* been given a new position.
Visited == {d \in Drive : \A e \in 0 .. d - 1 :
                              e \in enabled => move_distance(e) # 0}

\* Mutant of Moved: drives that are not enabled are not left out.
MovedAll == {d \in Visited : move_distance(d) # 0}
Moved == {d \in Visited \cap enabled : move_distance(d) # 0}

\* Mutant of vmax: a drive that is given no new position keeps its old speed.
vmaxKept(d) == IF d \in Moved THEN Abs(move_distance(d)) ELSE written[Chip(d)].vmax
\* Mutant of vmax: the sign of the distance is kept.
vmaxSigned(d) == IF d \in Moved THEN move_distance(d) ELSE 0
\* 1000 * distance / BUS_CYCLE_TIME steps a second, for BUS_CYCLE_TIME ms.
vmax(d) == IF d \in Moved THEN Abs(move_distance(d)) ELSE 0

\* Mutant of Remembered: the loop remembers the positions it did not reach.
RememberedAll(d) == IF d \in enabled THEN set_position[d] ELSE last_set_pos[d]
Remembered(d) == IF d \in Moved THEN set_position[d] ELSE last_set_pos[d]

\* drv_set_setpos up to its first write.  A drive the loop did not reach has an
\* uninitialised target.
SetVmax ==
    /\ stage = "set_setpos"
    /\ \E garbage \in [Drive \ Visited -> Positions] :
          to_apply' = [d \in Drive |-> IF d \in Moved THEN set_position[d]
                                       ELSE IF d \in Visited
                                       THEN actual_position[d] ELSE garbage[d]]
    /\ written' = [c \in Drive |-> [written[c] EXCEPT !.vmax = vmax(Chip(c))]]
    /\ last_set_pos' = [d \in Drive |-> Remembered(d)]
    /\ stage' = "x_target"
    /\ UNCHANGED <<enabled, set_position, actual_position, xactual, x_target,
                   speed, asked, still, lost>>

\* The second write ends the call, and with it the local array.
SetXTarget ==
    /\ stage = "x_target"
    /\ written' = [c \in Drive |-> [written[c] EXCEPT !.target = to_apply[Chip(c)]]]
    /\ to_apply' = [d \in Drive |-> 0]
    /\ stage' = "trigger"
    /\ UNCHANGED <<enabled, set_position, actual_position, last_set_pos, xactual,
                   x_target, speed, asked, still, lost>>

\* A chip puts out steps until it is at its target.
Moving(c) == speed[c] # 0 /\ xactual[c] # x_target[c]

\* At the START pulse all chips take up what was written to them.
TakeUp ==
    /\ x_target' = [c \in Drive |-> written[c].target]
    /\ speed' = [c \in Drive |-> written[c].vmax]

\* The pulse asks for nothing and waits for nothing.  A chip that is told to
\* stand while it is still moving stops short, and stays lost until its drive
\* is next given a new position, because targets are absolute.
drv_send_start_trigger ==
    /\ stage = "trigger"
    /\ TakeUp
    /\ asked' = last_set_pos
    /\ still' = Drive \ enabled
    /\ lost' = {d \in Drive : /\ written[Chip(d)].vmax = 0
                              /\ d \in lost \/ Moving(Chip(d))}
    /\ stage' = "update"
    /\ UNCHANGED <<enabled, set_position, actual_position, last_set_pos,
                   to_apply, written, xactual>>

\* drv_update_state moves the drives' states, the cycle ends, and the next
\* begins with GBC's new set positions ...
UpdateStates ==
    /\ stage = "update"
    /\ enabled' \in SUBSET Drive
    /\ set_position' \in [Drive -> Positions]
    /\ stage' = "get_actpos"
    /\ UNCHANGED <<actual_position, last_set_pos, to_apply, written, asked, still>>

\* ... while the chips stay as they are, or are all reset and configured anew:
\* a reset clears their position, and last_set_pos is not told.
drv_update_state ==
    \/ /\ UpdateStates
       /\ UNCHANGED <<xactual, x_target, speed, lost>>
    \/ /\ UpdateStates
       /\ xactual' = [c \in Drive |-> 0]
       /\ x_target' = [c \in Drive |-> 0]
       /\ speed' = [c \in Drive |-> 0]
       /\ lost' = {d \in Drive : asked[d] # 0}

\* A chip makes a step towards its target.
Step(c) ==
    /\ Moving(c)
    /\ xactual' = [xactual EXCEPT ![c] = IF @ < x_target[c] THEN @ + 1 ELSE @ - 1]
    /\ UNCHANGED <<stage, enabled, set_position, actual_position, last_set_pos,
                   to_apply, written, x_target, speed, asked, still, lost>>

Next ==
    \/ drv_get_actpos \/ SetVmax \/ SetXTarget
    \/ drv_send_start_trigger \/ drv_update_state
    \/ \E c \in Drive : Step(c)

Spec == Init /\ [][Next]_spVars
-----------------------------------------------------------------------------
\* Whenever the pulses come, early ones after an overrun included, and whatever
\* drives are enabled, disabled, skipped by the loop, given an uninitialised
\* target or reset in the middle of a move: every step of a motor brings it nearer
\* to the set position its own drive had last been given when the last pulse came.
HeadsForSetPos ==
    [][\A d \in Drive : Step(Chip(d)) =>
           Abs(xactual'[Chip(d)] - asked[d]) < Abs(xactual[Chip(d)] - asked[d])]_spVars

\* Nothing GBC asked for is dropped, except where the code itself drops it: a
\* motor at rest is where last_set_pos had it at the last pulse, unless, since
\* its drive was last given a new position, a pulse that came too early stopped
\* it on the way or its chip was reset.
RestsAtSetPos ==
    \A d \in Drive \ lost : ~Moving(Chip(d)) => xactual[Chip(d)] = asked[d]

\* The motor of a drive that was not enabled when the last pulse came makes no
\* step until the next one, whatever is written to its chip in the meantime.
StandsStill == [][\A d \in still : ~Step(Chip(d))]_spVars
=============================================================================
