----------------------------- MODULE MCChipBoot -----------------------------
EXTENDS ChipBoot
Shipped == [motor_direction |-> 0, phystop_l |-> 0, phystop_r |-> 0, vstop_l |-> 0,
            vstop_r |-> 0, encoder |-> 0, encoder_type |-> "NONE"]
=============================================================================
