---------------------------- MODULE MCCyclicLoop ----------------------------
(***************************************************************************)
(* A small instance of CyclicLoop: a second of two and a half periods, and  *)
(* passes that take from nothing to more than a second.                     *)
(***************************************************************************)
EXTENDS CyclicLoop

SomeStarts == {0, 3}
AnyDuration == 0 .. 40
=============================================================================
