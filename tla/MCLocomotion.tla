---------------------------- MODULE MCLocomotion ----------------------------
(* Values for the constants of Locomotion that a .cfg file cannot express. *)
EXTENDS Locomotion

MCElapsed == {1, 2, 4}
MCWaits == {1, 3}
=============================================================================
